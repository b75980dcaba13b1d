------------------------------ MODULE MemWatch ------------------------------
(***************************************************************************)
(* The memory watchdog process (scripts/memwatch.py): the Policy object    *)
(* and the run() loop that samples /proc/meminfo, asks journalctl for the  *)
(* kernel messages since the previous sample, lets the policy decide, and  *)
(* sleeps.  Experiment sees this process only through its trip file, its   *)
(* docker stop and its end (WatchTrip, WatchStops, WatchDone, WatchLost).  *)
(*                                                                         *)
(* Time is a counter.  Statements take no time; a journalctl call takes up *)
(* to QueryMax and a sleep may overrun its interval by up to MaxLag.       *)
(***************************************************************************)
EXTENDS Integers, FiniteSets

CONSTANTS
  Samples,      \* readings of /proc/meminfo: [available, free, swap]
  Available, FreeFloor, FreeGate, SwapGrowth,   \* the Policy thresholds
  Sustain,      \* --sustain
  Interval,     \* --interval
  QueryMax,     \* the timeout of the journalctl call
  MaxLag,       \* bound: how late a sleep may return
  None,         \* Python's None
  MaxTime,      \* bound: clock
  MaxMessages,  \* bound: kernel messages
  MaxChanges    \* bound: changes of the memory reading

ASSUME SampleAssumption ==
  Samples \subseteq [available : Nat, free : Nat, swap : Nat]
ASSUME TimeAssumption ==
  /\ Interval \in Nat \ {0} /\ Sustain \in Nat \ {0}
  /\ QueryMax \in Nat /\ MaxLag \in Nat /\ MaxTime \in Nat \ {0}
  /\ MaxMessages \in Nat /\ MaxChanges \in Nat
\* main refuses a threshold that is not positive.
ASSUME ThresholdAssumption ==
  Available \in Nat \ {0} /\ FreeFloor \in Nat \ {0}
  /\ FreeGate \in Nat \ {0} /\ SwapGrowth \in Nat \ {0}
ASSUME NoneAssumption == None \notin Int

VARIABLES
  clock,        \* the time
  mem,          \* what /proc/meminfo says now
  changes,      \* how often it has changed
  journal,      \* the kernel's NVIDIA messages: [at, kind]
  pc,           \* where the loop is
  now, sample,  \* locals of the loop
  since,        \* local: start of the next journal window
  text,         \* the messages in p.stdout
  wake,         \* when time.sleep is due
  initialSwap, badSince,   \* Policy.initial_swap, Policy.since
  trip          \* the trip file: "none" or why it was written

\* History variables; no action reads them.
VARIABLES
  seen,         \* messages some query returned
  blind,        \* messages whose whole window fell into failed queries
  goodAt,       \* when the policy last found nothing wrong
  lowSince      \* since when memory has been below a floor without a break

worldVars  == <<mem, changes, journal>>
policyVars == <<initialSwap, badSince, trip>>
loopVars   == <<now, sample, since, text, wake>>
histVars   == <<seen, blind, goodAt>>
vars == <<clock, pc, lowSince, worldVars, policyVars, loopVars, histVars>>

\* The watchdog is started at time Start; older messages are in the journal.
Start == 1
Message == [at : 0..MaxTime, kind : {"xid", "alloc"}]

TypeOK ==
  /\ clock \in 0..MaxTime
  /\ mem \in Samples /\ sample \in Samples
  /\ changes \in 0..MaxChanges
  /\ journal \subseteq Message
  /\ pc \in {"loop", "query", "read", "decide", "sleep", "evidence", "stop", "ended", "lost"}
  /\ now \in Start..clock /\ since \in Start..now
  /\ wake \in Nat
  /\ text \subseteq journal /\ seen \subseteq journal /\ blind \subseteq journal
  /\ initialSwap \in Nat \cup {None}
  /\ badSince \in 0..MaxTime \cup {None}
  /\ trip \in {"none", "xid", "sustained"}
  /\ goodAt \in 0..MaxTime
  /\ lowSince \in 0..MaxTime \cup {None}

-----------------------------------------------------------------------------
(* nvidia_signals and Policy.check *)

\* Mutant: the pattern does not match.
XidUnmatched(msgs) == FALSE

Xid(msgs)   == \E m \in msgs : m.kind = "xid"
Alloc(msgs) == \E m \in msgs : m.kind = "alloc"

MemoryLow(s) ==
  \/ s.available < Available
  \/ s.free < FreeFloor /\ s.available < FreeGate

\* Some reason to stop, given the swap use of the first sample.
Bad(s, base, alloc) ==
  \/ MemoryLow(s)
  \/ s.swap - base > SwapGrowth
  \/ alloc

\* Mutant: a good sample does not reset the timer.
TimerKeepsRunning(bad) == IF badSince = None /\ bad THEN clock ELSE badSince

\* Mutant: every bad sample restarts the timer.
TimerRestarts(bad) == IF bad THEN clock ELSE None

\* Policy.since after a sample: set by the first bad one, reset by a good one.
Timer(bad) == IF ~bad THEN None ELSE IF badSince = None THEN clock ELSE badSince

\* Mutant: the next window starts when journalctl returned.
NextSinceIsClock == clock

\* Mutant: the window start never moves.
NextSinceStays == since

\* since = now: the next window starts where this cycle's sample was taken.
NextSince == now

-----------------------------------------------------------------------------
Init ==
  /\ clock = Start
  /\ mem \in Samples /\ sample = mem
  /\ changes = 0
  /\ journal = {[at |-> 0, kind |-> "xid"]}   \* an old failure
  /\ pc = "loop"
  /\ now = Start /\ since = Start /\ wake = Start
  /\ text = {} /\ seen = {} /\ blind = {}
  /\ initialSwap = None /\ badSince = None
  /\ trip = "none"
  /\ goodAt = Start
  /\ lowSince = IF MemoryLow(mem) THEN Start ELSE None

\* The loop head asks for the done file, which the controller may touch at any
\* time.  There is none yet: take the time and a sample ...
Sample ==
  /\ pc = "loop"
  /\ pc' = "query"
  /\ now' = clock
  /\ sample' = mem
  /\ UNCHANGED <<clock, lowSince, worldVars, policyVars, since, text, wake, histVars>>

\* ... or there is one.
Finish ==
  /\ pc = "loop"
  /\ pc' = "ended"
  /\ UNCHANGED <<clock, lowSince, worldVars, policyVars, loopVars, histVars>>

\* journalctl -k --since @since reads what has been logged so far ...
Query ==
  /\ pc = "query"
  /\ pc' = "read"
  /\ text' = {m \in journal : m.at >= since}
  /\ UNCHANGED <<clock, lowSince, worldVars, policyVars, now, sample, since, wake, histVars>>

\* ... and returns; a non-zero exit leaves no text but moves the window as well.
Return(ok) ==
  /\ pc = "read"
  /\ pc' = "decide"
  /\ since' = NextSince
  /\ text' = IF ok THEN text ELSE {}
  /\ seen' = seen \cup text'
  /\ blind' = IF ok THEN blind ELSE blind \cup {m \in journal : since <= m.at /\ m.at < now}
  /\ UNCHANGED <<clock, lowSince, worldVars, policyVars, now, sample, wake, goodAt>>

\* Mutant: the file is written and the loop goes on.
DecideAndSleep ==
  LET base == IF initialSwap = None THEN sample.swap ELSE initialSwap
      bad  == Bad(sample, base, Alloc(text))
      due  == Xid(text) \/ (bad /\ clock - Timer(bad) >= Sustain)
  IN
  /\ pc = "decide" /\ pc' = "sleep"
  /\ initialSwap' = base /\ badSince' = Timer(bad)
  /\ trip' = IF due THEN "sustained" ELSE trip
  /\ wake' = clock + Interval
  /\ text' = {}
  /\ UNCHANGED <<clock, lowSince, worldVars, now, sample, since, histVars>>

\* Policy.check, the log row, and on a stop the trip file.
Decide ==
  LET base  == IF initialSwap = None THEN sample.swap ELSE initialSwap
      xid   == Xid(text)
      bad   == Bad(sample, base, Alloc(text))
      due   == bad /\ clock - Timer(bad) >= Sustain
  IN
  /\ pc = "decide"
  /\ initialSwap' = base
  /\ badSince' = IF xid THEN badSince ELSE Timer(bad)
  /\ trip' = IF xid THEN "xid" ELSE IF due THEN "sustained" ELSE trip
  /\ pc' = IF xid \/ due THEN "evidence" ELSE "sleep"
  /\ wake' = clock + Interval
  /\ goodAt' = IF xid \/ bad THEN goodAt ELSE clock
  /\ text' = {}      \* p is not read again
  /\ UNCHANGED <<clock, lowSince, worldVars, now, sample, since, seen, blind>>

WakeUp ==
  /\ pc = "sleep" /\ clock >= wake
  /\ pc' = "loop"
  /\ UNCHANGED <<clock, lowSince, worldVars, policyVars, loopVars, histVars>>

\* docker logs, then docker stop, then the process returns 2.
Shutdown ==
  /\ \/ pc = "evidence" /\ pc' = "stop"
     \/ pc = "stop" /\ pc' = "ended"
  /\ UNCHANGED <<clock, lowSince, worldVars, policyVars, loopVars, histVars>>

\* journalctl's or docker's timeout, an unreadable meminfo, a full disk.
Lose ==
  /\ pc \in {"loop", "query", "read", "decide", "evidence", "stop"}
  /\ pc' = "lost"
  /\ UNCHANGED <<clock, lowSince, worldVars, policyVars, loopVars, histVars>>

-----------------------------------------------------------------------------
(* The world, followed for as long as the process lives *)

Watching == pc \notin {"ended", "lost"}

\* Time passes while the process waits, and never past the end of a wait.
Tick ==
  /\ clock < MaxTime
  /\ \/ pc \in {"query", "read"} /\ clock < now + QueryMax
     \/ pc = "sleep" /\ clock < wake + MaxLag
  /\ clock' = clock + 1
  /\ UNCHANGED <<pc, lowSince, worldVars, policyVars, loopVars, histVars>>

MemChange ==
  /\ Watching /\ changes < MaxChanges
  /\ changes' = changes + 1
  /\ mem' \in Samples \ {mem}
  /\ lowSince' = IF ~MemoryLow(mem') THEN None
                 ELSE IF lowSince = None THEN clock ELSE lowSince
  /\ UNCHANGED <<clock, pc, journal, policyVars, loopVars, histVars>>

KernelLogs(kind) ==
  /\ Watching /\ Cardinality({m \in journal : m.at >= Start}) < MaxMessages
  /\ journal' = journal \cup {[at |-> clock, kind |-> kind]}
  /\ UNCHANGED <<clock, pc, lowSince, mem, changes, policyVars, loopVars, histVars>>

Next ==
  \/ Sample \/ Finish \/ Query \/ (\E ok \in BOOLEAN : Return(ok)) \/ Decide
  \/ WakeUp \/ Shutdown \/ Lose
  \/ Tick \/ MemChange
  \/ \E kind \in {"xid", "alloc"} : KernelLogs(kind)

Spec == Init /\ [][Next]_vars

-----------------------------------------------------------------------------
(* What must be true of every state *)

\* The process as its controller sees it.
Dog == INSTANCE WatchdogPromise
         WITH watch <- IF pc \in {"evidence", "stop"} THEN "tripped"
                       ELSE IF Watching THEN "on" ELSE "gone",
              trip <- trip # "none"

\* The watchdog keeps to what the controller relies on: a trip file comes before the
\* docker stop and ends the loop, and nothing else ends with one (memwatch.py:74-91).
Reported == Dog!Spec

\* One pass of the loop, from one decision to the next, takes at most this long.
Cycle == Interval + MaxLag + QueryMax

\* The journal windows leave no gap: a message older than the current window was
\* returned by some query, unless its query failed; and no message from before the
\* watchdog's start is ever returned.
JournalCursor ==
  /\ \A m \in journal : Start <= m.at /\ m.at < since => m \in seen \cup blind
  /\ \A m \in seen : m.at >= Start

\* While the watchdog lives, an Xid that no failed query swallowed has tripped it
\* within a pass of the loop and one more query, however the world interleaves.
XidDeadline ==
  \A m \in journal :
    /\ m.kind = "xid" /\ m.at >= Start /\ m \notin blind
    /\ trip = "none" /\ Watching
    => clock - m.at <= Cycle + QueryMax

\* The messages logged since the watchdog's start.
Logged == {m \in journal : m.at >= Start}

\* Enough memory throughout, and at most one message from the kernel.
Quiet ==
  /\ Sustain > Cycle
  /\ changes = 0 /\ ~MemoryLow(mem)
  /\ Cardinality(Logged) <= 1

\* A single allocation error (CUDA graph capture logs them) never trips, although
\* the overlap of two windows can show it to two decisions.
OneShotTolerated == Quiet => trip # "sustained"

\* Memory that stays below a floor is acted on within the sustain time plus two
\* passes of the loop: one until a sample sees it, one until a sample is due.
LowMemoryStops ==
  lowSince # None /\ trip = "none" /\ Watching
  => clock - lowSince < Sustain + 2 * Cycle + QueryMax

\* A trip that is not an Xid comes at least Sustain after the last good decision.
NoHastyTrip == trip = "sustained" => clock - goodAt >= Sustain

-----------------------------------------------------------------------------
(* What the documents promise and the code does not keep *)

\* docs/BENCHMARKS.md: new NVIDIA Xids trigger immediate shutdown.
XidAnswered ==
  pc \notin {"decide", "lost"} =>
    \A m \in journal : m.kind = "xid" /\ Start <= m.at /\ m.at < since => trip # "none"
=============================================================================
