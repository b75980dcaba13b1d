----------------------------- MODULE HostProxy -----------------------------
(***************************************************************************)
(* scripts/host_proxy.py: one connection of an agent in a container to the *)
(* server, through a handler thread that runs the pump of the response     *)
(* itself and starts a daemon thread for that of the request. Connections  *)
(* share nothing, so one is all there is to see.                           *)
(*                                                                         *)
(* Simplifications: data are counted in pieces that one recv returns; a    *)
(* direction keeps their order because one pump carries them.              *)
(***************************************************************************)
EXTENDS Integers

CONSTANT N   \* bound: pieces sent each way

ASSUME NAssumption == N \in Nat

Dir == {"up", "down"}
Party == {"client", "server"}
From(d) == IF d = "up" THEN "client" ELSE "server"
To(d) == IF d = "up" THEN "server" ELSE "client"

VARIABLES
  handler,   \* "connect", "refused", "pumping", "join" or "closed"
  pump,      \* direction -> "unborn", "recv", "send", "finally" or "ended"
  got,       \* direction -> pieces that its pump has received
  passed,    \* direction -> pieces that its receiver has got
  told,      \* direction -> its receiver sees the end of the stream
  sent,      \* direction -> pieces that its sender has sent
  fin,       \* direction -> its sender's side: "open", "shut" or "reset"
  here       \* party -> it has not closed its socket

proxyVars == <<handler, pump, got, passed, told>>
partyVars == <<sent, fin, here>>
allVars == <<proxyVars, partyVars>>

\* Type correctness.
ProxyTypeOK ==
  /\ handler \in {"connect", "refused", "pumping", "join", "closed"}
  /\ pump \in [Dir -> {"unborn", "recv", "send", "finally", "ended"}]
  /\ got \in [Dir -> 0..N] /\ passed \in [Dir -> 0..N] /\ sent \in [Dir -> 0..N]
  /\ told \in [Dir -> {"no", "yes"}]
  /\ fin \in [Dir -> {"open", "shut", "reset"}]
  /\ here \in [Party -> {"yes", "no"}]

Here(p) == here[p] = "yes"
Connected == handler \in {"pumping", "join", "closed"}

ProxyInit ==
  /\ handler = "connect"
  /\ pump = [d \in Dir |-> "unborn"]
  /\ got = [d \in Dir |-> 0] /\ passed = [d \in Dir |-> 0] /\ sent = [d \in Dir |-> 0]
  /\ told = [d \in Dir |-> "no"]
  /\ fin = [d \in Dir |-> "open"]
  /\ here = [p \in Party |-> "yes"]

-----------------------------------------------------------------------------
(* The agent and the server *)

CanAct(d) == Here(From(d)) /\ (d = "down" => Connected)

Send(d) ==
  /\ CanAct(d) /\ fin[d] = "open" /\ sent[d] < N
  /\ sent' = [sent EXCEPT ![d] = sent[d] + 1]
  /\ UNCHANGED <<proxyVars, fin, here>>

\* It says that no more will come, and still reads.
HalfClose(d) ==
  /\ CanAct(d) /\ fin[d] = "open"
  /\ fin' = [fin EXCEPT ![d] = "shut"]
  /\ UNCHANGED <<proxyVars, sent, here>>

\* It closes its socket, or dies.
Leave(d) ==
  /\ CanAct(d)
  /\ here' = [here EXCEPT ![From(d)] = "no"]
  /\ \E how \in {"shut", "reset"} : fin' = [fin EXCEPT ![d] = how]
  /\ UNCHANGED <<proxyVars, sent>>

-----------------------------------------------------------------------------
(* pump *)

MovePump(d, to) == pump' = [pump EXCEPT ![d] = to]

Receive(d) ==
  /\ pump[d] = "recv" /\ got[d] < sent[d]
  /\ got' = [got EXCEPT ![d] = got[d] + 1]
  /\ MovePump(d, "send")
  /\ UNCHANGED <<handler, passed, told, partyVars>>

\* recv returns nothing, or raises: the data that it had not read are lost with a reset. A
\* party that has gone answers what still comes with one.
SeeEnd(d) ==
  /\ pump[d] = "recv"
  /\ \/ got[d] = sent[d] /\ fin[d] = "shut"
     \/ fin[d] = "reset" \/ ~Here(From(d))
  /\ MovePump(d, "finally")
  /\ UNCHANGED <<handler, got, passed, told, partyVars>>

\* recv raises on a socket that the handler has closed, if it was not waiting in it before.
CutOff(d) ==
  /\ pump[d] = "recv" /\ handler = "closed"
  /\ MovePump(d, "finally")
  /\ UNCHANGED <<handler, got, passed, told, partyVars>>

\* sendall, to a party that reads.
Pass(d) ==
  /\ pump[d] = "send" /\ handler # "closed" /\ Here(To(d))
  /\ passed' = [passed EXCEPT ![d] = passed[d] + 1]
  /\ MovePump(d, "recv")
  /\ UNCHANGED <<handler, got, told, partyVars>>

\* sendall, to a party that has gone: the first data after that raise nothing yet.
PassInVain(d) ==
  /\ pump[d] = "send"
  /\ \/ handler # "closed" /\ ~Here(To(d)) /\ \E to \in {"recv", "finally"} : MovePump(d, to)
     \/ handler = "closed" /\ MovePump(d, "finally")
  /\ UNCHANGED <<handler, got, passed, told, partyVars>>

\* Mutant: the end is not passed on.
ToldNothing(d) == told
ToldOf(d) == [told EXCEPT ![d] = "yes"]

\* dst.shutdown(socket.SHUT_WR)
Finally(d) ==
  /\ pump[d] = "finally"
  /\ told' = ToldOf(d)
  /\ MovePump(d, "ended")
  /\ UNCHANGED <<handler, got, passed, partyVars>>

-----------------------------------------------------------------------------
(* handle *)

Connect ==
  /\ handler = "connect" /\ handler' = "pumping"
  /\ pump' = [d \in Dir |-> "recv"]
  /\ UNCHANGED <<got, passed, told, partyVars>>

\* socketserver closes the agent's socket behind a handler that returns.
Refuse ==
  /\ handler = "connect" /\ handler' = "refused"
  /\ told' = [told EXCEPT !["down"] = "yes"]
  /\ UNCHANGED <<pump, got, passed, partyVars>>

\* Mutant: the pumps are swapped.
SwappedForeground == "up"
\* The pump that the handler runs itself; it joins the other one.
Foreground == "down"

Pumped ==
  /\ handler = "pumping" /\ pump[Foreground] = "ended"
  /\ handler' = "join"
  /\ UNCHANGED <<pump, got, passed, told, partyVars>>

\* Mutant: the join has no timeout.
JoinForever == pump["up"] = "ended"
\* The pump ends or 5 s pass, which they always do.
Join == TRUE

\* up.close(), and socketserver closes the agent's socket.
Close ==
  /\ handler = "join" /\ Join
  /\ handler' = "closed"
  /\ told' = [d \in Dir |-> "yes"]
  /\ UNCHANGED <<pump, got, passed, partyVars>>

PumpStep(d) == Receive(d) \/ SeeEnd(d) \/ CutOff(d) \/ Pass(d) \/ PassInVain(d) \/ Finally(d)

ProxyNext ==
  \/ \E d \in Dir : Send(d) \/ HalfClose(d) \/ Leave(d) \/ PumpStep(d)
  \/ Connect \/ Refuse \/ Pumped \/ Close

ProxySpec == ProxyInit /\ [][ProxyNext]_allVars

\* The threads run, the parties read what is sent to them or go; nothing says that a party
\* ends its stream, and a recv that waits in a socket closed by another thread stays there.
Fairness ==
  /\ WF_allVars(Connect \/ Refuse) /\ WF_allVars(Pumped) /\ WF_allVars(Close)
  /\ \A d \in Dir :
       WF_allVars(Receive(d) \/ SeeEnd(d) \/ Pass(d) \/ PassInVain(d) \/ Finally(d))

LiveSpec == ProxySpec /\ Fairness

-----------------------------------------------------------------------------
(* Properties *)

\* What one party still there sent before it shut its side, the other has when it sees the
\* end: a half-close of the agent does not cut the answer off, however late it comes, nor
\* does the 5 s limit. Of the request this is only so until the server ends its answer
\* (host_proxy.py:44-51).
NothingLost ==
  \A d \in Dir :
    (/\ told[d] = "yes" /\ Here("client") /\ Here("server") /\ fin[d] # "reset"
     /\ d = "up" => fin["down"] = "open")
    => passed[d] = sent[d]

\* An end, or a reset, of either party reaches the other: no server is left generating for
\* an agent that hung up, and no agent waits for a server that died (host_proxy.py:31-35).
EndPassedOn == \A d \in Dir : (Connected /\ fin[d] # "open") ~> told[d] = "yes"

\* Once the server has ended its answer the handler ends, also with a silent agent that
\* keeps its connection open (host_proxy.py:50).
HandlerEnds == (Connected /\ fin["down"] # "open") ~> handler = "closed"
=============================================================================
