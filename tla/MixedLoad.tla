----------------------------- MODULE MixedLoad -----------------------------
(***************************************************************************)
(* bench/mixedload.py: each repeat starts its decode streams on threads of *)
(* their own, waits for the first token of each, sends a long prefill from *)
(* the main thread, waits for the streams and judges the row. Repeat 0 is  *)
(* the warm-up. Requests go through bench/client.py: only those of the     *)
(* main thread have a wall-clock deadline.                                 *)
(*                                                                         *)
(* Simplifications: a request runs on the server while its thread is       *)
(* "open"; an error and a result without tokens are one outcome, and so    *)
(* are the reasons for which a prefill's answer is not right.              *)
(***************************************************************************)
EXTENDS Integers

CONSTANTS
  N,     \* measured repeats
  K      \* DECODE_STREAMS

ASSUME CountAssumption == N \in Nat /\ K \in Nat \ {0}

Repeats == 0..N
Streams == 1..K

VARIABLES
  main, i, k,    \* where the main thread is: repeat and holder
  thread,        \* repeat -> stream -> where its thread is
  ttft,          \* repeat -> stream -> its ttft_event is set
  outcome,       \* repeat -> stream -> what its holder has: result, error or neither
  answer,        \* the prefill's answer
  rows,          \* repeat -> its row
  code           \* exit code, -1 while it runs

\* History: the streams that ran when this repeat's prefill reached the server.
VARIABLE alongside

loopVars == <<main, i, k>>
threadVars == <<thread, ttft, outcome>>
rowVars == <<answer, rows, code, alongside>>
vars == <<loopVars, threadVars, rowVars>>

Places == {"size", "start", "first", "check", "send", "answer", "drain", "judge", "report",
           "exited"}

\* Type correctness; a holder with a result or an error belongs to a thread that has ended.
TypeOK ==
  /\ main \in Places /\ i \in Repeats /\ k \in Streams
  /\ thread \in [Repeats -> [Streams -> {"none", "open", "ended", "done"}]]
  /\ ttft \in [Repeats -> [Streams -> BOOLEAN]]
  /\ outcome \in [Repeats -> [Streams -> {"none", "tokens", "useless"}]]
  /\ answer \in {"none", "right", "wrong"}
  /\ rows \in [Repeats -> {"ok", "failed", "none"}]
  /\ code \in {0, 1, -1}
  /\ (code = -1) = (main # "exited")
  /\ alongside \subseteq Repeats \X Streams
  /\ \A r \in Repeats, s \in Streams :
       (outcome[r][s] = "none") = (thread[r][s] \in {"none", "open"})

Init ==
  /\ main = "size" /\ i = 0 /\ k = 1
  /\ thread = [r \in Repeats |-> [s \in Streams |-> "none"]]
  /\ ttft = [r \in Repeats |-> [s \in Streams |-> FALSE]]
  /\ outcome = [r \in Repeats |-> [s \in Streams |-> "none"]]
  /\ answer = "none"
  /\ rows = [r \in Repeats |-> "none"]
  /\ code = -1
  /\ alongside = {}

Open == {x \in Repeats \X Streams : thread[x[1]][x[2]] = "open"}

-----------------------------------------------------------------------------
(* The threads: run() of start_stream. They are daemons: they end with the process. *)

Thread(r, s, from, to) ==
  /\ main # "exited" /\ thread[r][s] = from
  /\ thread' = [thread EXCEPT ![r][s] = to]
  /\ UNCHANGED <<loopVars, rowVars>>

\* on_delta: a chunk sets ttft_event.
Delta(r, s) ==
  /\ main # "exited" /\ thread[r][s] = "open" /\ ~ttft[r][s]
  /\ ttft' = [ttft EXCEPT ![r][s] = TRUE]
  /\ UNCHANGED <<loopVars, thread, outcome, rowVars>>

\* chat_stream returns, or raises: HTTP status, reset, socket timeout.
End(r, s) ==
  /\ Thread(r, s, "open", "ended")
  /\ \E o \in {"tokens", "useless"} : outcome' = [outcome EXCEPT ![r][s] = o]
  /\ UNCHANGED ttft

\* The finally block: ttft_event, then done.
Wake(r, s) ==
  /\ main # "exited" /\ thread[r][s] = "ended" /\ ~ttft[r][s]
  /\ ttft' = [ttft EXCEPT ![r][s] = TRUE]
  /\ UNCHANGED <<loopVars, thread, outcome, rowVars>>

Done(r, s) ==
  /\ Thread(r, s, "ended", "done") /\ ttft[r][s]
  /\ UNCHANGED <<ttft, outcome>>

-----------------------------------------------------------------------------
(* The main thread: run_one and main *)

\* An exception nothing catches.
Raise == main' = "exited" /\ code' = 1 /\ UNCHANGED <<i, k, answer, rows, alongside>>

\* To the next holder of the loop at place, or on.
NextHolder(onward) ==
  IF k < K THEN k' = k + 1 /\ UNCHANGED <<main, i>>
           ELSE k' = 1 /\ main' = onward /\ UNCHANGED i

\* run_one returns its row; a warm-up that is not ok ends the run.
Return(row) ==
  IF i = 0 /\ row # "ok"
  THEN Raise
  ELSE /\ rows' = [rows EXCEPT ![i] = row]
       /\ IF i < N THEN main' = "size" /\ i' = i + 1 ELSE main' = "report" /\ i' = i
       /\ k' = 1 /\ answer' = "none" /\ alongside' = {} /\ UNCHANGED code

\* /tokenize sizes the prompt in six tries.
Size ==
  /\ main = "size"
  /\ \/ main' = "start" /\ UNCHANGED <<i, k, rowVars>>
     \/ Raise
  /\ UNCHANGED threadVars

Start ==
  /\ main = "start"
  /\ thread' = [thread EXCEPT ![i][k] = "open"]
  /\ NextHolder("first")
  /\ UNCHANGED <<ttft, outcome, rowVars>>

\* ttft_event.wait(120), and the holder's error; a useless outcome is an error or an
\* empty result.
First ==
  /\ main = "first"
  /\ \/ ttft[i][k] /\ NextHolder("check") /\ UNCHANGED rowVars
     \/ (~ttft[i][k] \/ outcome[i][k] = "useless") /\ Return("failed")
  /\ UNCHANGED threadVars

Check ==
  /\ main = "check"
  /\ IF \E s \in Streams : thread[i][s] = "done"
     THEN Raise ELSE main' = "send" /\ UNCHANGED <<i, k, rowVars>>
  /\ UNCHANGED threadVars

\* The prefill reaches the server, or does not.
Send ==
  /\ main = "send"
  /\ \/ main' = "answer" /\ alongside' = Open
        /\ UNCHANGED <<i, k, answer, rows, code>>
     \/ Raise
  /\ UNCHANGED threadVars

\* Its answer, an error, or the deadline of a request of the main thread.
Answer ==
  /\ main = "answer"
  /\ \/ main' = "drain" /\ answer' \in {"right", "wrong"} /\ UNCHANGED <<i, k, rows, code, alongside>>
     \/ Raise
  /\ UNCHANGED threadVars

\* Mutant: done.wait().
WaitedForever == thread[i][k] = "done"
\* A wait with a timeout: done, or not.
Waited == TRUE
\* done.wait(1800) and thread.join(5), whose results nobody looks at.
Drain ==
  /\ main = "drain" /\ Waited
  /\ NextHolder("judge")
  /\ UNCHANGED <<threadVars, rowVars>>

\* Mutant: result or error, as long as the thread is done.
DecodeIgnored == \A s \in Streams : outcome[i][s] # "useless"
DecodeOk == \A s \in Streams : outcome[i][s] = "tokens"

Judge ==
  /\ main = "judge"
  /\ Return(IF answer = "right" /\ DecodeOk THEN "ok" ELSE "failed")
  /\ UNCHANGED threadVars

\* Mutant: the last row decides.
LastFailed == rows[N] = "failed"
Failed == \E r \in 1..N : rows[r] = "failed"

Report ==
  /\ main = "report"
  /\ main' = "exited"
  /\ code' = IF Failed THEN 1 ELSE 0
  /\ UNCHANGED <<i, k, threadVars, answer, rows, alongside>>

Main ==
  \/ Size \/ Start \/ First \/ Check \/ Send \/ Answer \/ Drain \/ Judge \/ Report

Ended == main = "exited" /\ UNCHANGED vars

Next ==
  \/ Main
  \/ \E r \in Repeats, s \in Streams : Delta(r, s) \/ End(r, s) \/ Wake(r, s) \/ Done(r, s)
  \/ Ended

Spec == Init /\ [][Next]_vars

\* Every wait of the main thread has a timeout; nothing is assumed of the streams.
LiveSpec == Spec /\ WF_vars(Main)

-----------------------------------------------------------------------------
(* Properties *)

\* As long as every repeat has been ok, a prefill meets no stream of an earlier repeat:
\* only a failed repeat, whose row is in the report, can leave streams running on the
\* server for the next one (run_one, mixedload.py:136-138).
NoLeftover == (\A q \in 0..(i - 1) : rows[q] = "ok") => alongside \subseteq {i} \X Streams

\* Exit code 0 means that the warm-up and every repeat got the tokens of all their streams:
\* none of them was still running, or had failed, when its repeat was judged.
PassMeasured ==
  code = 0 => \A r \in Repeats :
    rows[r] = "ok" /\ \A s \in Streams : outcome[r][s] = "tokens"

\* The run ends whatever the streams' threads do: a stream without a deadline of its own
\* (client.py:40) cannot hold the main thread (mixedload.py:150-151).
RunEnds == <>(main = "exited")
=============================================================================
