--------------------------- MODULE MemWatchProofs ---------------------------
(***************************************************************************)
(* Theorems about the memory watchdog for every threshold, sustain time,   *)
(* interval, query time and scheduling lag.                                *)
(***************************************************************************)
EXTENDS MemWatch, FiniteSetTheorems, TLAPS

USE TimeAssumption, NoneAssumption
    DEF vars, worldVars, policyVars, loopVars, histVars, Start, Watching

-----------------------------------------------------------------------------
(* Type correctness *)

\* The loop's clocks are never ahead of the time, nor a window's start of its end.
THEOREM TypeCorrect == Spec => []TypeOK
<1> USE SampleAssumption DEF TypeOK, Message
<1>1. Init => TypeOK
  BY DEF Init
<1>2. TypeOK /\ [Next]_vars => TypeOK'
  <2> SUFFICES ASSUME TypeOK, [Next]_vars PROVE TypeOK'
    OBVIOUS
  <2>1. CASE Sample \/ Finish \/ WakeUp \/ Shutdown \/ Lose \/ UNCHANGED vars
    BY <2>1 DEF Sample, Finish, WakeUp, Shutdown, Lose
  <2>2. CASE Query
    BY <2>2 DEF Query
  <2>3. ASSUME NEW ok \in BOOLEAN, Return(ok) PROVE TypeOK'
    BY <2>3 DEF Return, NextSince
  <2>4. CASE Decide
    <3>1. sample.swap \in Nat
      OBVIOUS
    <3>2. /\ initialSwap' \in Nat \cup {None}
          /\ badSince' \in 0..MaxTime \cup {None}
          /\ goodAt' \in 0..MaxTime
          /\ wake' \in Nat
      BY <2>4, <3>1 DEF Decide, Timer
    <3>3. QED
      BY <2>4, <3>2 DEF Decide
  <2>5. CASE Tick
    BY <2>5 DEF Tick
  <2>6. CASE MemChange
    BY <2>6 DEF MemChange
  <2>7. ASSUME NEW kind \in {"xid", "alloc"}, KernelLogs(kind) PROVE TypeOK'
    BY <2>7 DEF KernelLogs
  <2>8. QED
    BY <2>1, <2>2, <2>3, <2>4, <2>5, <2>6, <2>7 DEF Next
<1>3. QED
  BY <1>1, <1>2, PTL DEF Spec

-----------------------------------------------------------------------------
(* The journal windows *)

\* No message is from the future.
Stamps == \A m \in journal : m.at <= clock

\* What a journalctl that has read but not returned holds: all of the window.
WindowRead ==
  /\ pc = "read" => \A m \in journal : since <= m.at /\ m.at < now => m \in text
  /\ \A m \in text : m.at >= Start

Journal == Stamps /\ WindowRead /\ JournalCursor

\* Every step keeps the windows contiguous.
LEMMA JournalStep == TypeOK /\ Journal /\ [Next]_vars => Journal'
<1> SUFFICES ASSUME TypeOK, Journal, [Next]_vars PROVE Journal'
  OBVIOUS
<1> USE DEF TypeOK, Message, Journal, Stamps, WindowRead, JournalCursor
<1>1. CASE \/ Sample \/ Finish \/ WakeUp \/ Shutdown \/ Lose \/ Decide \/ MemChange
           \/ UNCHANGED vars
  BY <1>1 DEF Sample, Finish, WakeUp, Shutdown, Lose, Decide, MemChange
<1>2. CASE Query
  BY <1>2 DEF Query
<1>3. ASSUME NEW ok \in BOOLEAN, Return(ok) PROVE Journal'
  BY <1>3 DEF Return, NextSince
<1>4. CASE Tick
  BY <1>4 DEF Tick
<1>5. ASSUME NEW kind \in {"xid", "alloc"}, KernelLogs(kind) PROVE Journal'
  BY <1>5 DEF KernelLogs
<1>6. QED
  BY <1>1, <1>2, <1>3, <1>4, <1>5 DEF Next

\* The journal windows leave no gap, for every timing of journalctl.
THEOREM JournalAlways == Spec => []Journal
<1>1. Init => Journal
  BY DEF Init, Journal, Stamps, WindowRead, JournalCursor
<1>2. QED
  BY <1>1, JournalStep, TypeCorrect, PTL DEF Spec

\* Every message since the start was returned, or its query failed.
THEOREM JournalCursorHolds == Spec => []JournalCursor
<1>1. Journal => JournalCursor
  BY DEF Journal
<1>2. QED
  BY <1>1, JournalAlways, PTL

-----------------------------------------------------------------------------
(* The sustain timer *)

\* The timer started after the last good decision, and stands still after a trip.
TimerAfterGood ==
  /\ badSince # None => goodAt <= badSince /\ badSince <= clock
  /\ goodAt <= clock
  /\ trip # "none" => pc \in {"evidence", "stop", "ended", "lost"}
  /\ pc \in {"evidence", "stop"} => trip # "none"

\* The timer and the last good decision, and that a trip needs Sustain.
THEOREM TimerAlways == Spec => [](TimerAfterGood /\ NoHastyTrip)
<1> USE DEF TypeOK, TimerAfterGood, NoHastyTrip
<1>1. Init => TimerAfterGood /\ NoHastyTrip
  BY DEF Init
<1>2. TypeOK /\ TimerAfterGood /\ NoHastyTrip /\ [Next]_vars
      => TimerAfterGood' /\ NoHastyTrip'
  <2> SUFFICES ASSUME TypeOK, TimerAfterGood, NoHastyTrip, [Next]_vars
               PROVE  TimerAfterGood' /\ NoHastyTrip'
    OBVIOUS
  <2>1. CASE Sample \/ Finish \/ WakeUp \/ Shutdown \/ Lose \/ Query \/ UNCHANGED vars
    BY <2>1 DEF Sample, Finish, WakeUp, Shutdown, Lose, Query
  <2>2. ASSUME NEW ok \in BOOLEAN, Return(ok) PROVE TimerAfterGood' /\ NoHastyTrip'
    BY <2>2 DEF Return
  <2>3. CASE Decide
    <3> DEFINE base == IF initialSwap = None THEN sample.swap ELSE initialSwap
               bad  == Bad(sample, base, Alloc(text))
    <3>1. CASE Xid(text)
      BY <2>3, <3>1 DEF Decide
    <3>2. CASE ~Xid(text) /\ ~bad
      BY <2>3, <3>2 DEF Decide, Timer
    <3>3. CASE ~Xid(text) /\ bad
      <4>1. Timer(bad) \in 0..MaxTime /\ goodAt <= Timer(bad) /\ Timer(bad) <= clock
        BY <3>3 DEF Timer
      <4>2. /\ badSince' = Timer(bad) /\ goodAt' = goodAt /\ clock' = clock
            /\ \/ trip' = trip /\ pc' = "sleep"
               \/ trip' = "sustained" /\ pc' = "evidence" /\ clock - Timer(bad) >= Sustain
        BY <2>3, <3>3 DEF Decide
      <4>3. trip = "none"
        BY <2>3 DEF Decide
      <4> HIDE DEF bad
      <4>4. QED
        BY <4>1, <4>2, <4>3
    <3>4. QED
      BY <3>1, <3>2, <3>3
  <2>4. CASE Tick \/ MemChange
    BY <2>4 DEF Tick, MemChange
  <2>5. ASSUME NEW kind \in {"xid", "alloc"}, KernelLogs(kind)
        PROVE  TimerAfterGood' /\ NoHastyTrip'
    BY <2>5 DEF KernelLogs
  <2>6. QED
    BY <2>1, <2>2, <2>3, <2>4, <2>5 DEF Next
<1>3. QED
  BY <1>1, <1>2, TypeCorrect, PTL DEF Spec

\* Without an Xid, a trip needs Sustain time units of bad decisions only.
THEOREM NoHastyTripHolds == Spec => []NoHastyTrip
  BY TimerAlways, PTL

-----------------------------------------------------------------------------
(* Deadlines *)

\* How far the clock can be past the start of the window, and past the last wake-up.
Pace ==
  /\ pc \in {"query", "read"} =>
       clock <= now + QueryMax /\ now <= since + Cycle /\ now <= wake + MaxLag
  /\ pc = "decide" => since = now /\ clock <= now + QueryMax /\ now <= wake + MaxLag
  /\ pc = "sleep" =>
       /\ since = now /\ clock <= wake + MaxLag
       /\ wake <= now + QueryMax + Interval
  /\ pc = "loop" => since = now /\ clock <= wake + MaxLag /\ clock <= since + Cycle

\* Every step keeps the pace.
THEOREM PaceAlways == Spec => []Pace
<1> USE DEF TypeOK, Pace, Cycle
<1>1. Init => Pace
  BY DEF Init
<1>2. TypeOK /\ Pace /\ [Next]_vars => Pace'
  <2> SUFFICES ASSUME TypeOK, Pace, [Next]_vars PROVE Pace'
    OBVIOUS
  <2>1. CASE Sample \/ Finish \/ WakeUp \/ Shutdown \/ Lose \/ Query \/ UNCHANGED vars
    BY <2>1 DEF Sample, Finish, WakeUp, Shutdown, Lose, Query
  <2>2. ASSUME NEW ok \in BOOLEAN, Return(ok) PROVE Pace'
    BY <2>2 DEF Return, NextSince
  <2>3. CASE Decide
    BY <2>3 DEF Decide
  <2>4. CASE Tick \/ MemChange
    BY <2>4 DEF Tick, MemChange
  <2>5. ASSUME NEW kind \in {"xid", "alloc"}, KernelLogs(kind) PROVE Pace'
    BY <2>5 DEF KernelLogs
  <2>6. QED
    BY <2>1, <2>2, <2>3, <2>4, <2>5 DEF Next
<1>3. QED
  BY <1>1, <1>2, TypeCorrect, PTL DEF Spec

\* An Xid that was returned is acted on by the decision that follows.
SeenTrips ==
  \A m \in seen : m.kind = "xid" =>
    trip # "none" \/ ~Watching \/ (pc = "decide" /\ m \in text)

\* An Xid trips a live watchdog within a pass of the loop and one query.
THEOREM XidDeadlineHolds == Spec => []XidDeadline
<1> USE DEF TypeOK, Message, XidDeadline, SeenTrips, Pace, Cycle
<1>1. Init => SeenTrips /\ XidDeadline
  BY DEF Init
<1>2. TypeOK /\ Journal /\ Pace /\ Pace' /\ SeenTrips /\ XidDeadline /\ [Next]_vars
      => SeenTrips' /\ XidDeadline'
  <2> SUFFICES ASSUME TypeOK, Journal, Pace, Pace', SeenTrips, XidDeadline, [Next]_vars
               PROVE  SeenTrips' /\ XidDeadline'
    OBVIOUS
  <2>1. CASE Sample \/ Finish \/ WakeUp \/ Shutdown \/ Lose \/ Query \/ UNCHANGED vars
    BY <2>1 DEF Sample, Finish, WakeUp, Shutdown, Lose, Query
  <2>2. ASSUME NEW ok \in BOOLEAN, Return(ok) PROVE SeenTrips' /\ XidDeadline'
    BY <2>2 DEF Return
  <2>3. CASE Decide
    BY <2>3 DEF Decide, Xid
  <2>4. CASE Tick
    <3>1. SeenTrips'
      BY <2>4 DEF Tick
    <3>2. ASSUME NEW m \in journal, m.kind = "xid", m.at >= Start, m \notin blind,
                 trip = "none", m.at < since
          PROVE  FALSE
      BY <2>4, <3>2 DEF Tick, Journal, JournalCursor
    <3>3. QED
      BY <2>4, <3>1, <3>2 DEF Tick
  <2>5. CASE MemChange
    BY <2>5 DEF MemChange
  <2>6. ASSUME NEW kind \in {"xid", "alloc"}, KernelLogs(kind)
        PROVE  SeenTrips' /\ XidDeadline'
    BY <2>6 DEF KernelLogs
  <2>7. QED
    BY <2>1, <2>2, <2>3, <2>4, <2>5, <2>6 DEF Next
<1>3. QED
  BY <1>1, <1>2, TypeCorrect, JournalAlways, PaceAlways, PTL DEF Spec

\* Where the timer stands while memory has been low without a break: no sample
\* has seen it yet, the first that did is being decided, or the timer is running.
LowSeen ==
  lowSince # None =>
    /\ MemoryLow(mem)
    /\ lowSince <= clock
    /\ lowSince < now => MemoryLow(sample)
    /\ trip = "none" /\ Watching =>
         \/ now <= lowSince
         \/ pc \in {"query", "read"} /\ since <= lowSince
         \/ pc = "decide" /\ clock <= lowSince + Cycle + QueryMax
         \/ /\ badSince # None
            /\ badSince <= lowSince + Cycle + QueryMax
            /\ wake < badSince + Sustain + Interval

\* Memory that stays low stops the experiment within Sustain, two passes and a query.
THEOREM LowMemoryStopsHolds == Spec => []LowMemoryStops
<1> USE DEF TypeOK, LowSeen, Pace, Cycle
<1>1. Init => LowSeen
  BY DEF Init
<1>2. TypeOK /\ Pace /\ Pace' /\ TimerAfterGood /\ LowSeen /\ [Next]_vars => LowSeen'
  <2> SUFFICES ASSUME TypeOK, Pace, Pace', TimerAfterGood, LowSeen, [Next]_vars
               PROVE  LowSeen'
    OBVIOUS
  <2>1. CASE Sample \/ Finish \/ WakeUp \/ Shutdown \/ Lose \/ Query \/ UNCHANGED vars
    BY <2>1 DEF Sample, Finish, WakeUp, Shutdown, Lose, Query
  <2>2. ASSUME NEW ok \in BOOLEAN, Return(ok) PROVE LowSeen'
    BY <2>2 DEF Return, NextSince
  <2>3. CASE Decide
    BY <2>3 DEF Decide, Timer, Bad, TimerAfterGood
  <2>4. CASE Tick
    BY <2>4 DEF Tick
  <2>5. CASE MemChange
    BY <2>5 DEF MemChange
  <2>6. ASSUME NEW kind \in {"xid", "alloc"}, KernelLogs(kind) PROVE LowSeen'
    BY <2>6 DEF KernelLogs
  <2>7. QED
    BY <2>1, <2>2, <2>3, <2>4, <2>5, <2>6 DEF Next
<1>3. TypeOK /\ Pace /\ TimerAfterGood /\ LowSeen => LowMemoryStops
  BY DEF LowMemoryStops, TimerAfterGood
<1>4. QED
  BY <1>1, <1>2, <1>3, TypeCorrect, PaceAlways, TimerAlways, PTL DEF Spec

-----------------------------------------------------------------------------
(* One allocation error *)

\* The journal is finite, so that its messages can be counted.
LEMMA JournalFinite == Spec => []IsFiniteSet(journal)
<1>1. Init => IsFiniteSet(journal)
  <2>1. IsFiniteSet({} \cup {[at |-> 0, kind |-> "xid"]})
    BY FS_EmptySet, FS_AddElement
  <2>2. QED
    BY <2>1 DEF Init
<1>2. IsFiniteSet(journal) /\ [Next]_vars => IsFiniteSet(journal)'
  <2> SUFFICES ASSUME IsFiniteSet(journal), [Next]_vars PROVE IsFiniteSet(journal')
    OBVIOUS
  <2>1. CASE UNCHANGED journal
    BY <2>1
  <2>2. ASSUME NEW kind \in {"xid", "alloc"}, KernelLogs(kind)
        PROVE  IsFiniteSet(journal')
    BY <2>2, FS_AddElement DEF KernelLogs
  <2>3. QED
    BY <2>1, <2>2
    DEF Next, Sample, Finish, Query, Return, Decide, WakeUp, Shutdown, Lose, Tick, MemChange
<1>3. QED
  BY <1>1, <1>2, PTL DEF Spec

\* A finite set of at most one element has no two.
LEMMA AtMostOne ==
  ASSUME NEW S, IsFiniteSet(S), Cardinality(S) <= 1, NEW a \in S, NEW b \in S
  PROVE  a = b
<1> SUFFICES ASSUME a # b PROVE FALSE
  OBVIOUS
<1>1. IsFiniteSet({a}) /\ Cardinality({a}) = 1
  <2>1. IsFiniteSet({} \cup {a}) /\ Cardinality({} \cup {a}) = 0 + 1
    BY FS_EmptySet, FS_AddElement
  <2>2. {} \cup {a} = {a}
    OBVIOUS
  <2>3. QED
    BY <2>1, <2>2
<1>2. IsFiniteSet({a} \cup {b}) /\ Cardinality({a} \cup {b}) = 2
  <2> DEFINE T == {a}
  <2>1. IsFiniteSet(T) /\ Cardinality(T) = 1 /\ b \notin T
    BY <1>1
  <2> HIDE DEF T
  <2>2. IsFiniteSet(T \cup {b}) /\ Cardinality(T \cup {b}) = 1 + 1
    BY <2>1, FS_AddElement
  <2>3. QED
    BY <2>2 DEF T
<1>3. ({a} \cup {b}) \in SUBSET S
  OBVIOUS
<1>4. Cardinality({a} \cup {b}) <= Cardinality(S)
  BY <1>3, FS_Subset
<1>5. Cardinality(S) \in Nat
  BY FS_CardinalityType
<1>6. QED
  BY <1>2, <1>4, <1>5

\* A sleep is not cut short.
Slept ==
  /\ pc = "loop" => wake <= clock
  /\ pc \in {"query", "read", "decide"} => wake <= now

\* While all is quiet, a running timer was started by the one message there is:
\* by the latest decision, or by an earlier one and the message is behind the window.
OneCause ==
  /\ sample = mem
  /\ initialSwap \in {None, mem.swap}
  /\ trip # "sustained"
  /\ badSince # None =>
       \E m \in Logged :
         /\ m.at <= badSince
         /\ \/ wake = badSince + Interval
            \/ m.at < since /\ m \notin text

QuietInv == Slept /\ (Quiet => OneCause)

\* What was quiet after a step was quiet before it.
LEMMA QuietBefore ==
  TypeOK /\ IsFiniteSet(journal') /\ [Next]_vars /\ Quiet' => Quiet /\ mem' = mem
<1> SUFFICES ASSUME TypeOK, IsFiniteSet(journal'), [Next]_vars, Quiet'
             PROVE  Quiet /\ mem' = mem
  OBVIOUS
<1>1. UNCHANGED <<mem, changes>>
  BY DEF Next, Sample, Finish, Query, Return, Decide, WakeUp, Shutdown, Lose, Tick,
         MemChange, KernelLogs, TypeOK, Quiet
<1>2. Logged \in SUBSET Logged'
  BY DEF Next, Sample, Finish, Query, Return, Decide, WakeUp, Shutdown, Lose, Tick,
         MemChange, KernelLogs, Logged
<1>3. IsFiniteSet(Logged')
  BY FS_Subset DEF Logged
<1>4. Cardinality(Logged) <= Cardinality(Logged')
  BY <1>2, <1>3, FS_Subset
<1>5. Cardinality(Logged) \in Nat /\ Cardinality(Logged') \in Nat
  BY <1>2, <1>3, FS_Subset, FS_CardinalityType
<1>6. QED
  BY <1>1, <1>4, <1>5 DEF Quiet, MemoryLow, Cycle

\* The decision under a single message: the timer is not due, and afterwards the
\* message that runs it is either this decision's or behind the window.
LEMMA OneCauseDecide ==
  ASSUME TypeOK, Journal, Pace, Slept, Quiet, OneCause, Decide, IsFiniteSet(journal)
  PROVE  OneCause'
<1> USE DEF TypeOK, Message
<1> DEFINE base == IF initialSwap = None THEN sample.swap ELSE initialSwap
           bad  == Bad(sample, base, Alloc(text))
<1>1. sample = mem /\ mem \in [available : Nat, free : Nat, swap : Nat]
  BY SampleAssumption DEF OneCause
<1>2. base = mem.swap /\ mem.swap \in Nat
  BY <1>1 DEF OneCause
<1>3. bad => \E m \in text : m.kind = "alloc"
  BY <1>1, <1>2, ThresholdAssumption DEF Bad, Alloc, Quiet
<1>4. \A m \in text : m \in Logged
  BY DEF Journal, WindowRead, Logged
<1>5. \A a, b \in Logged : a = b
  <2>1. IsFiniteSet(Logged)
    BY FS_Subset DEF Logged
  <2>2. QED
    BY <2>1, AtMostOne DEF Quiet
<1>6. /\ clock' = clock /\ journal' = journal /\ sample' = sample /\ mem' = mem
      /\ since' = since /\ now' = now /\ text' = {} /\ wake' = clock + Interval
      /\ initialSwap' = base
      /\ since = now /\ wake <= now /\ now <= clock
      /\ clock <= wake + MaxLag + QueryMax
  BY DEF Decide, Pace, Slept
<1>7. Logged' = Logged
  BY <1>6 DEF Logged
<1>8. ASSUME badSince # None
      PROVE  \E m \in Logged : /\ m.at <= badSince /\ m.at < since
                               /\ bad => wake = badSince + Interval
  <2>1. PICK m \in Logged : /\ m.at <= badSince
                            /\ wake = badSince + Interval \/ (m.at < since /\ m \notin text)
    BY <1>8 DEF OneCause
  <2>2. CASE m \notin text /\ m.at < since
    <3>1. ~bad
      BY <1>3, <1>4, <1>5, <2>2
    <3>2. QED
      BY <2>1, <2>2, <3>1
  <2>3. CASE wake = badSince + Interval
    <3>1. m.at \in Int /\ badSince \in Int
      BY <1>8 DEF Logged
    <3>2. QED
      BY <1>6, <2>1, <2>3, <3>1
  <2>4. QED
    BY <2>1, <2>2, <2>3
<1> HIDE DEF base, bad
<1>9. CASE Xid(text)
  <2>1. badSince' = badSince /\ trip' = "xid"
    BY <1>9 DEF Decide
  <2>2. QED
    BY <1>1, <1>2, <1>6, <1>7, <1>8, <2>1 DEF OneCause
<1>10. CASE ~Xid(text) /\ ~bad
  <2>1. badSince' = None /\ trip' = trip
    BY <1>10 DEF Decide, Timer, bad, base
  <2>2. QED
    BY <1>1, <1>2, <1>6, <1>7, <2>1 DEF OneCause
<1>11. CASE ~Xid(text) /\ bad
  <2>1. badSince' = IF badSince = None THEN clock ELSE badSince
    BY <1>11 DEF Decide, Timer, bad, base
  <2>2. trip' = "sustained" => trip = "sustained" \/ clock - badSince' >= Sustain
    BY <1>11, <2>1 DEF Decide, Timer, bad, base
  <2>3. clock - badSince' < Sustain
    BY <1>6, <1>8, <1>11, <2>1 DEF Quiet, Cycle
  <2>4. trip' # "sustained"
    BY <2>1, <2>2, <2>3 DEF OneCause
  <2>5. \E m \in Logged : /\ m.at <= badSince'
                          /\ wake' = badSince' + Interval \/ m.at < since
    <3>1. CASE badSince # None
      BY <1>8, <2>1, <3>1
    <3>2. CASE badSince = None
      <4>1. PICK m \in text : m.kind = "alloc"
        BY <1>3, <1>11
      <4>2. m \in Logged /\ m.at <= clock
        BY <1>4, <4>1 DEF Journal, Stamps
      <4>3. QED
        BY <1>6, <2>1, <3>2, <4>2
    <3>3. QED
      BY <3>1, <3>2
  <2>6. QED
    BY <1>1, <1>2, <1>6, <1>7, <2>4, <2>5 DEF OneCause
<1>12. QED
  BY <1>9, <1>10, <1>11

\* A single message, whatever it is and whenever it is logged, never trips the
\* sustain timer: the timer can be due only after two decisions that see it, and
\* the second one is at most a pass of the loop after the first.
THEOREM OneShotToleratedHolds == Spec => []OneShotTolerated
<1> USE DEF TypeOK
<1>1. Init => QuietInv
  BY DEF Init, QuietInv, Slept, OneCause
<1>2. TypeOK /\ Journal /\ Pace /\ IsFiniteSet(journal) /\ IsFiniteSet(journal)'
      /\ QuietInv /\ [Next]_vars => QuietInv'
  <2> SUFFICES ASSUME TypeOK, Journal, Pace, IsFiniteSet(journal), IsFiniteSet(journal'),
                      QuietInv, [Next]_vars
               PROVE  QuietInv'
    OBVIOUS
  <2>1. Slept'
    BY DEF Next, Sample, Finish, Query, Return, Decide, WakeUp, Shutdown, Lose, Tick,
           MemChange, KernelLogs, QuietInv, Slept
  <2>2. ASSUME Quiet' PROVE OneCause'
    <3>1. Quiet /\ OneCause /\ Slept /\ mem' = mem
      BY <2>2, QuietBefore DEF QuietInv
    <3>2. CASE Sample \/ Finish \/ WakeUp \/ Shutdown \/ Lose \/ Tick \/ UNCHANGED vars
      BY <3>1, <3>2
      DEF Sample, Finish, WakeUp, Shutdown, Lose, Tick, OneCause, Logged
    <3>3. CASE Query
      BY <3>1, <3>3 DEF Query, OneCause, Logged
    <3>4. ASSUME NEW ok \in BOOLEAN, Return(ok) PROVE OneCause'
      <4>1. /\ UNCHANGED <<journal, sample, initialSwap, badSince, trip, wake>>
            /\ since' = now /\ text' \in SUBSET text
        BY <3>4 DEF Return, NextSince
      <4>2. \A m \in Logged : m.at \in Int
        BY DEF Logged, Message
      <4>3. QED
        BY <3>1, <4>1, <4>2 DEF OneCause, Logged
    <3>5. CASE Decide
      BY <3>1, <3>5, OneCauseDecide
    <3>6. CASE MemChange
      BY <2>2, <3>6 DEF MemChange, Quiet
    <3>7. ASSUME NEW kind \in {"xid", "alloc"}, KernelLogs(kind) PROVE OneCause'
      BY <3>1, <3>7 DEF KernelLogs, OneCause, Logged
    <3>8. QED
      BY <3>2, <3>3, <3>4, <3>5, <3>6, <3>7 DEF Next
  <2>3. QED
    BY <2>1, <2>2 DEF QuietInv
<1>3. QuietInv => OneShotTolerated
  BY DEF QuietInv, OneCause, OneShotTolerated
<1>4. QED
  BY <1>1, <1>2, <1>3, TypeCorrect, JournalAlways, PaceAlways, JournalFinite, PTL DEF Spec
-----------------------------------------------------------------------------
(* What the controller relies on *)

\* A trip file belongs to a watchdog that has left the loop.
TripPlace == trip # "none" => pc \in {"evidence", "stop", "ended", "lost"}

\* Each statement of the loop is a step of the promise or a stutter.
LEMMA ReportStep == TripPlace /\ [Next]_vars => [Dog!Next]_(Dog!vars) /\ TripPlace'
<1> SUFFICES ASSUME TripPlace, [Next]_vars PROVE [Dog!Next]_(Dog!vars) /\ TripPlace'
  OBVIOUS
<1> USE DEF TripPlace, Watching, Dog!vars, Dog!Next
<1>1. CASE Decide
  <2>1. CASE pc' = "evidence"
    BY <1>1, <2>1 DEF Decide, Dog!Trip
  <2>2. CASE pc' = "sleep"
    BY <1>1, <2>2 DEF Decide
  <2>3. QED
    BY <1>1, <2>1, <2>2 DEF Decide
<1>2. CASE Finish
  BY <1>2 DEF Finish, Dog!End
<1>3. CASE Lose
  BY <1>3 DEF Lose, Dog!End, Dog!Stop
<1>4. CASE Shutdown
  BY <1>4 DEF Shutdown, Dog!Stop
<1>5. CASE Sample \/ Query \/ (\E ok \in BOOLEAN : Return(ok)) \/ WakeUp
  BY <1>5 DEF Sample, Query, Return, WakeUp
<1>6. CASE \/ Tick \/ MemChange \/ (\E kind \in {"xid", "alloc"} : KernelLogs(kind))
           \/ UNCHANGED vars
  BY <1>6 DEF Tick, MemChange, KernelLogs
<1>7. QED
  BY <1>1, <1>2, <1>3, <1>4, <1>5, <1>6 DEF Next

\* Whatever the kernel logs and however the process ends, the watchdog keeps to the promise
\* that Experiment's controller relies on (memwatch.py:74-91).
THEOREM ReportedHolds == Spec => Reported
<1>1. Init => Dog!Init /\ TripPlace
  BY DEF Init, Dog!Init, TripPlace, Watching
<1>2. QED
  BY <1>1, ReportStep, PTL DEF Spec, Reported, Dog!Spec
=============================================================================
