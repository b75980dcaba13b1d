-------------------------- MODULE ExperimentProofs --------------------------
(***************************************************************************)
(* Theorems about the experiment controller for every set of invocations,  *)
(* every number of suites and every number of faults.                      *)
(***************************************************************************)
EXTENDS Experiment, TLAPS

USE DEF Goto, vars, ctlVars, dockerVars, serverVars, kernelVars, watchVars, faultVars, Up

-----------------------------------------------------------------------------
(* Type correctness *)

\* suites() never starts more suites than its list has.
RowBound == \A e \in Exp : pc[e] = "taskRun" => row[e] < NumTasks

\* Every variable of the controller keeps its type through every step.
THEOREM TypeCorrect == Spec => []TypeOK
<1> USE BoundAssumption DEF TypeOK, Phase, Preparing, Body, Waiting, Closing, Working
<1>1. Init => TypeOK /\ RowBound
  <2> SUFFICES ASSUME Init PROVE TypeOK /\ RowBound
    OBVIOUS
  <2>1. /\ row \in [Exp -> 0..NumTasks]
        /\ interrupts \in 0..MaxInterrupts
        /\ kills \in 0..MaxKills
    BY DEF Init
  <2>2. trip \in [Exp -> BOOLEAN] /\ done \in [Exp -> BOOLEAN]
    BY DEF Init
  <2>3. owned \in [Exp -> BOOLEAN] /\ allPass \in [Exp -> BOOLEAN]
    BY DEF Init
  <2>4. QED
    BY <2>1, <2>2, <2>3 DEF Init, RowBound
<1>2. TypeOK /\ RowBound /\ [Next]_vars => TypeOK'
  <2> SUFFICES ASSUME TypeOK, RowBound, [Next]_vars PROVE TypeOK'
    OBVIOUS
  <2>1. ASSUME NEW e \in Exp, NEW m \in {"run", "suite"},
               Acquire(e, m) \/ RefuseProfile(e, m)
        PROVE  TypeOK'
    BY <2>1 DEF Acquire, RefuseProfile
  <2>2. ASSUME NEW e \in Exp, Refuse(e) PROVE TypeOK'
    BY <2>2 DEF Refuse
  <2>3. ASSUME NEW e \in Exp, Raise(e) PROVE
          /\ lock' = lock /\ mode' = mode /\ exit' = exit /\ owned' = owned
          /\ interrupts' = interrupts /\ kills' = kills
          /\ strays' = strays /\ unseen' = unseen
          /\ pc' \in [Exp -> Phase]
          /\ exc' \in [Exp -> {"none", "error", "interrupt"}]
          /\ child' \in [Exp -> {"none", "ok", "bad"} \cup Working]
          /\ suiteFile' \in [Exp -> {"none", "running", "pass", "fail"}]
          /\ row' = row /\ allPass' = allPass /\ status' = status
          /\ stopRc' = stopRc /\ report' = report
    BY <2>3 DEF Raise, Unwind, Handler, Reaped
  <2>4. ASSUME NEW e \in Exp, Preflight(e) PROVE TypeOK'
    BY <2>3, <2>4, SMTT(60) DEF Preflight
  <2>5. ASSUME NEW e \in Exp, StopPrior(e) PROVE TypeOK'
    BY <2>3, <2>5 DEF StopPrior, Stopped
  <2>6. ASSUME NEW e \in Exp, CheckIdle(e) PROVE TypeOK'
    <3>1. CASE Raise(e) /\ UNCHANGED <<dockerVars, watchVars>>
      BY <2>3, <3>1
    <3>2. CASE ~(Raise(e) /\ UNCHANGED <<dockerVars, watchVars>>)
      <4>1. unseen' \in BOOLEAN
        BY <2>6, <3>2, Zenon DEF CheckIdle
      <4>2. QED
        BY <2>6, <3>2, <4>1 DEF CheckIdle
    <3>3. QED
      BY <3>1, <3>2
  <2>7. ASSUME NEW e \in Exp, SpawnWatch(e) PROVE TypeOK'
    BY <2>3, <2>7, SMTT(60) DEF SpawnWatch
  <2>8. ASSUME NEW e \in Exp, Own(e) PROVE TypeOK'
    BY <2>8 DEF Own
  <2>9. ASSUME NEW e \in Exp, StartKernelCheck(e) PROVE TypeOK'
    BY <2>9 DEF StartKernelCheck, Start
  <2>10. ASSUME NEW e \in Exp, StartServe(e) PROVE TypeOK'
    BY <2>10 DEF StartServe, Start
  <2>11. ASSUME NEW e \in Exp, StartTask(e) \/ NoSuites(e) PROVE TypeOK'
    BY <2>11 DEF StartTask, Start, NoSuites, Handler
  <2>12. ASSUME NEW e \in Exp, ScriptDone(e) PROVE TypeOK'
    BY <2>3, <2>12, SMTT(60) DEF ScriptDone
  <2>13. ASSUME NEW e \in Exp, GuardAbort(e) PROVE TypeOK'
    BY <2>3, <2>13 DEF GuardAbort
  <2>14. ASSUME NEW e \in Exp, Deadline(e) PROVE TypeOK'
    BY <2>3, <2>14 DEF Deadline
  <2>15. ASSUME NEW e \in Exp, Launched(e) PROVE TypeOK'
    BY <2>3, <2>15 DEF Launched
  <2>16. ASSUME NEW e \in Exp, BootReady(e) \/ BootDead(e) \/ BootFacts(e)
         PROVE  TypeOK'
    BY <2>3, <2>16, SMTT(60) DEF BootReady, BootDead, BootFacts
  <2>17. ASSUME NEW e \in Exp, TaskRow(e) PROVE TypeOK'
    <3>1. row[e] + 1 \in 0..NumTasks
      BY <2>17 DEF TaskRow, RowBound
    <3>2. row' \in [Exp -> 0..NumTasks]
      BY <2>17, <3>1 DEF TaskRow
    <3>3. allPass' \in [Exp -> BOOLEAN]
      BY <2>17 DEF TaskRow
    <3>4. QED
      BY <2>17, <3>2, <3>3 DEF TaskRow
  <2>18. ASSUME NEW e \in Exp, SuitesEnd(e) PROVE TypeOK'
    BY <2>18 DEF SuitesEnd
  <2>19. ASSUME NEW e \in Exp, PostChecks(e) \/ SaveLogs(e) PROVE TypeOK'
    BY <2>3, <2>19 DEF PostChecks, SaveLogs
  <2>20. ASSUME NEW e \in Exp, StopServer(e) PROVE TypeOK'
    BY <2>3, <2>20 DEF StopServer, Stopped
  <2>21. ASSUME NEW e \in Exp, TouchDone(e) PROVE TypeOK'
    BY <2>21 DEF TouchDone
  <2>22. ASSUME NEW e \in Exp, AwaitWatch(e) PROVE TypeOK'
    BY <2>3, <2>22, SMTT(60) DEF AwaitWatch
  <2>23. ASSUME NEW e \in Exp, Verdict(e) PROVE TypeOK'
    BY <2>23 DEF Verdict
  <2>24. ASSUME NEW e \in Exp, Leave(e) PROVE TypeOK'
    BY <2>24 DEF Leave
  <2>25. ASSUME NEW e \in Exp, Child(e) PROVE TypeOK'
    <3>1. ASSUME NEW how \in {"ok", "bad"}, SuiteEnds(e, how) PROVE TypeOK'
      BY <3>1 DEF SuiteEnds
    <3>2. CASE KernelRemoves(e) \/ KernelRuns(e) \/ KernelEnds(e)
      BY <3>2, SMTT(60) DEF KernelRemoves, KernelRuns, KernelEnds
    <3>3. CASE ServeRemoves(e)
      BY <3>3 DEF ServeRemoves
    <3>4. CASE ServeLaunches(e)
      BY <3>4 DEF ServeLaunches
    <3>5. CASE ServeFails(e)
      BY <3>5 DEF ServeFails
    <3>6. QED
      BY <2>25, <3>1, <3>2, <3>3, <3>4, <3>5 DEF Child
  <2>26. ASSUME NEW e \in Exp, Watchdog(e) PROVE TypeOK'
    <3>1. CASE WatchTrip(e)
      BY <3>1 DEF WatchTrip
    <3>2. CASE WatchStops(e)
      BY <3>2 DEF WatchStops, Stopped
    <3>3. CASE WatchDone(e)
      BY <3>3 DEF WatchDone
    <3>4. CASE WatchLost(e)
      BY <3>4 DEF WatchLost
    <3>5. QED
      BY <2>26, <3>1, <3>2, <3>3, <3>4 DEF Watchdog
  <2>27. CASE World
    <3>1. CASE ServerDies \/ ServerLoads
      BY <3>1 DEF ServerDies, ServerLoads
    <3>2. CASE KernelLoads \/ KernelDies
      BY <3>2 DEF KernelLoads, KernelDies
    <3>3. QED
      BY <2>27, <3>1, <3>2 DEF World
  <2>28. ASSUME NEW e \in Exp, Interrupt(e) PROVE TypeOK'
    <3>1. child' \in [Exp -> {"none", "ok", "bad"} \cup Working]
      BY <2>28 DEF Interrupt, Reaped
    <3>2. watch' \in [Exp -> {"none", "on", "tripped", "gone"}] /\ strays' \subseteq Exp
      BY <2>28 DEF Interrupt, Escapes
    <3>3. server' \in {"absent", "exited"} \cup Up
      BY <2>28 DEF Interrupt, Stopped
    <3>4. /\ pc' \in [Exp -> Phase]
          /\ exc' \in [Exp -> {"none", "error", "interrupt"}]
          /\ suiteFile' \in [Exp -> {"none", "running", "pass", "fail"}]
      BY <2>28 DEF Interrupt, Unwind, Handler
    <3>5. interrupts' \in 0..MaxInterrupts
      BY <2>28 DEF Interrupt
    <3>6. QED
      BY <2>28, <3>1, <3>2, <3>3, <3>4, <3>5 DEF Interrupt, Unwind
  <2>29. ASSUME NEW e \in Exp, Kill(e) PROVE TypeOK'
    BY <2>29 DEF Kill
  <2>30. CASE UNCHANGED vars
    BY <2>30
  <2>31. QED
    BY <2>1, <2>2, <2>4, <2>5, <2>6, <2>7, <2>8, <2>9, <2>10, <2>11, <2>12, <2>13,
       <2>14, <2>15, <2>16, <2>17, <2>18, <2>19, <2>20, <2>21, <2>22, <2>23, <2>24,
       <2>25, <2>26, <2>27, <2>28, <2>29, <2>30, SMTT(60) DEF Next, Step
<1>3. TypeOK /\ RowBound /\ [Next]_vars => RowBound'
  <2> SUFFICES ASSUME TypeOK, RowBound, [Next]_vars PROVE RowBound'
    OBVIOUS
  <2> USE DEF RowBound
  <2>1. ASSUME NEW e \in Exp, StartTask(e) PROVE RowBound'
    BY <2>1 DEF StartTask, Start
  <2>2. ASSUME NEW e \in Exp, TaskRow(e) PROVE RowBound'
    BY <2>2 DEF TaskRow
  <2>3. ASSUME NEW e \in Exp, NEW why, Unwind(e, why) PROVE RowBound'
    BY <2>3 DEF Unwind, Handler
  <2>4. ASSUME NEW e \in Exp, Step(e), ~StartTask(e), ~TaskRow(e) PROVE RowBound'
    <3>1. CASE Preflight(e) \/ StopPrior(e) \/ CheckIdle(e) \/ SpawnWatch(e) \/ Own(e)
      BY <3>1, <2>3 DEF Preflight, StopPrior, CheckIdle, SpawnWatch, Own, Raise
    <3>2. CASE \/ StartKernelCheck(e) \/ StartServe(e) \/ ScriptDone(e) \/ GuardAbort(e)
               \/ NoSuites(e) \/ Launched(e) \/ BootDead(e) \/ BootFacts(e)
      BY <3>2, <2>3 DEF StartKernelCheck, StartServe, Start, NoSuites, Handler,
                        ScriptDone, GuardAbort, Launched, BootDead, BootFacts, Raise
    <3>3. CASE \/ SuitesEnd(e) \/ PostChecks(e) \/ SaveLogs(e) \/ StopServer(e)
               \/ TouchDone(e) \/ AwaitWatch(e) \/ Verdict(e) \/ Leave(e)
      BY <3>3, <2>3 DEF SuitesEnd, PostChecks, SaveLogs, StopServer, TouchDone,
                        AwaitWatch, Verdict, Leave, Raise
    <3>4. QED
      BY <2>4, <3>1, <3>2, <3>3 DEF Step
  <2>5. ASSUME NEW e \in Exp,
               \/ \E m \in {"run", "suite"} : Acquire(e, m) \/ RefuseProfile(e, m)
               \/ Refuse(e) \/ BootReady(e) \/ Deadline(e) \/ Interrupt(e) \/ Kill(e)
        PROVE  RowBound'
    BY <2>5, <2>3 DEF Acquire, RefuseProfile, Refuse, BootReady, Deadline, Interrupt, Kill, Raise
  <2>6. ASSUME NEW e \in Exp, Child(e) \/ Watchdog(e) PROVE RowBound'
    BY <2>6 DEF Child, SuiteEnds, KernelRemoves, KernelRuns, KernelEnds,
       ServeRemoves, ServeLaunches, ServeFails,
                Watchdog, WatchTrip, WatchStops, WatchDone, WatchLost
  <2>7. CASE World \/ UNCHANGED vars
    BY <2>7 DEF World, ServerDies, ServerLoads, KernelLoads, KernelDies
  <2>8. QED
    BY <2>1, <2>2, <2>4, <2>5, <2>6, <2>7 DEF Next
<1>4. QED
  BY <1>1, <1>2, <1>3, PTL DEF Spec

-----------------------------------------------------------------------------
(* Where an invocation can be *)

\* Whoever is inside holds the lock.
LockHeld == \A e \in Exp : pc[e] \notin {"idle", "exited"} => lock = e

\* A process that has ended stays where it is.
Ended == \A e \in Exp : exit[e] # "none" => pc[e] = "exited"

\* A child exists only while its bounded() call waits, or a signal made it a stray, or it
\* had ended by the time of a SIGKILL.
ChildPlace == \A e \in Exp : child[e] # "none" =>
  \/ pc[e] = "kernelRun" /\ child[e] \in {"kernel", "check", "ok", "bad"}
  \/ pc[e] = "serveRun" /\ child[e] \in {"serve", "ok", "bad"}
  \/ pc[e] = "taskRun" /\ child[e] \in {"suite", "ok", "bad"}
  \/ pc[e] \in Closing \cup {"leave", "exited"} /\ e \in strays
  \/ pc[e] = "exited" /\ child[e] \in {"ok", "bad"}

\* bench_fast.sh only runs the suites.
SuitePlace == \A e \in Exp :
  /\ mode[e] = "suite" => pc[e] \in {"task", "taskRun", "leave", "exited"}
  /\ mode[e] = "none" => pc[e] \in {"idle", "exited"}
  /\ pc[e] = "idle" => mode[e] = "none"

\* A stray has no invocation that would still go on to its suites.
StrayPlace == \A e \in Exp : e \in strays => pc[e] \in Closing \cup {"leave", "exited"}

Places == LockHeld /\ Ended /\ ChildPlace /\ SuitePlace /\ StrayPlace

\* Every step of the controller, a child, a watchdog or the world keeps Places.
LEMMA PlacesStep == TypeOK /\ Places /\ [Next]_vars => Places'
<1> SUFFICES ASSUME TypeOK, Places, [Next]_vars PROVE Places'
  OBVIOUS
<1> USE DEF TypeOK, Phase, Preparing, Body, Waiting, Closing, Working,
            Places, LockHeld, Ended, ChildPlace, SuitePlace, StrayPlace
<1>1. ASSUME NEW e \in Exp, NEW m \in {"run", "suite"},
             Acquire(e, m) \/ RefuseProfile(e, m)
      PROVE  Places'
  BY <1>1, ExpAssumption, SMTT(90) DEF Acquire, RefuseProfile
<1>2. ASSUME NEW e \in Exp, Refuse(e) \/ Leave(e) PROVE Places'
  BY <1>2, SMTT(60) DEF Refuse, Leave
<1>3. ASSUME NEW e \in Exp, NEW why, Unwind(e, why), child' = Reaped(e),
             pc[e] \notin {"idle", "exited"}, UNCHANGED <<lock, mode, exit, strays>>
      PROVE  Places'
  BY <1>3 DEF Unwind, Handler, Reaped
<1>4. ASSUME NEW e \in Exp,
             Preflight(e) \/ StopPrior(e) \/ CheckIdle(e) \/ SpawnWatch(e) \/ Own(e)
      PROVE  Places'
  BY <1>3, <1>4 DEF Preflight, StopPrior, CheckIdle, SpawnWatch, Own, Raise
<1>5. ASSUME NEW e \in Exp,
             \/ StartKernelCheck(e) \/ StartServe(e)
             \/ StartTask(e) \/ NoSuites(e)
      PROVE  Places'
  BY <1>5, SMTT(60) DEF StartKernelCheck, StartServe, StartTask, NoSuites, Handler, Start
<1>6. ASSUME NEW e \in Exp, ScriptDone(e) \/ TaskRow(e) PROVE Places'
  BY <1>3, <1>6, SMTT(60) DEF ScriptDone, TaskRow, Raise
<1>7. ASSUME NEW e \in Exp, \/ GuardAbort(e) \/ Deadline(e) \/ Launched(e)
                            \/ BootReady(e) \/ BootDead(e) \/ BootFacts(e)
      PROVE  Places'
  BY <1>3, <1>7, SMTT(60) DEF GuardAbort, Deadline, Launched, BootReady,
       BootDead, BootFacts, Raise
<1>8. ASSUME NEW e \in Exp, \/ SuitesEnd(e) \/ PostChecks(e) \/ SaveLogs(e) \/ StopServer(e)
                            \/ TouchDone(e) \/ AwaitWatch(e) \/ Verdict(e)
      PROVE  Places'
  BY <1>3, <1>8, SMTT(60) DEF SuitesEnd, PostChecks, SaveLogs, StopServer, TouchDone, AwaitWatch,
                    Verdict, Raise
<1>9. ASSUME NEW e \in Exp, Interrupt(e) PROVE Places'
  <2>1. CASE child' = Reaped(e) /\ UNCHANGED <<watch, strays>>
    BY <1>3, <1>9, <2>1 DEF Interrupt
  <2>2. CASE Escapes(e) /\ UNCHANGED child /\ strays' = strays \cup {e}
    BY <1>9, <2>2 DEF Interrupt, Escapes, Unwind, Handler
  <2>3. QED
    BY <1>9, <2>1, <2>2 DEF Interrupt
<1>10. ASSUME NEW e \in Exp, Kill(e) PROVE Places'
  BY <1>10 DEF Kill
<1>11. ASSUME NEW e \in Exp, Child(e) PROVE Places'
  BY <1>11 DEF Child, SuiteEnds, KernelRemoves, KernelRuns, KernelEnds,
       ServeRemoves, ServeLaunches, ServeFails
<1>12. ASSUME NEW e \in Exp, Watchdog(e) PROVE Places'
  BY <1>12 DEF Watchdog, WatchTrip, WatchStops, WatchDone, WatchLost
<1>13. CASE World \/ UNCHANGED vars
  BY <1>13 DEF World, ServerDies, ServerLoads, KernelLoads, KernelDies
<1>14. QED
  BY <1>1, <1>2, <1>4, <1>5, <1>6, <1>7, <1>8, <1>9, <1>10, <1>11, <1>12, <1>13
     DEF Next, Step

\* The lock, the control point and the child of an invocation always agree.
THEOREM PlacesAlways == Spec => []Places
<1>1. Init => Places
  BY DEF Init, Places, LockHeld, Ended, ChildPlace, SuitePlace, StrayPlace
<1>2. QED
  BY <1>1, PlacesStep, TypeCorrect, PTL DEF Spec

\* Two invocations benchmark at once only if a signal made one of the benchmarks a stray.
THEOREM LoneBenchmarkHolds == Spec => []LoneBenchmark
<1>1. TypeOK /\ Places => LoneBenchmark
  BY SMTT(60) DEF TypeOK, Places, LockHeld, ChildPlace, LoneBenchmark
<1>2. QED
  BY <1>1, PlacesAlways, TypeCorrect, PTL

-----------------------------------------------------------------------------
(* What the verdict rests on *)

\* The suites' verdict is only set after the last suite, and no child follows.
StatusEarned == \A e \in Exp : status[e] = "pass" =>
  /\ pc[e] \in {"post", "leave", "exited"} \cup Closing
  /\ suiteFile[e] = "pass" /\ allPass[e] /\ child[e] = "none" /\ e \notin strays

\* A clean docker stop is final: nothing of this invocation but a stray starts a server
\* again.
StopFinal == \A e \in Exp : stopRc[e] = "zero" =>
  /\ pc[e] \in {"touch", "await", "verdict", "leave", "exited"}
  /\ e \in strays \/ (child[e] = "none" /\ ~Serving(e))

\* A watchdog that the finally block does not know of is a stray.
WatchKnown == \A e \in Exp :
  /\ pc[e] \in {"idle", "spawn"} \cup Preparing => watch[e] = "none"
  /\ pc[e] = "unwatched" => watch[e] \notin Alive \/ e \in strays

\* The verdict is formed, and stays, without any other watchdog.
WatchOver == \A e \in Exp : pc[e] = "verdict" \/ report[e] # "none" =>
  /\ pc[e] \in {"verdict", "leave", "exited"}
  /\ watch[e] \notin Alive \/ e \in strays

\* A passing report copies the suites' verdict.
ReportEarned == \A e \in Exp : report[e] = "pass" => status[e] = "pass"

\* A zero exit is a passing report.
ExitEarned == \A e \in Exp : exit[e] = "zero" /\ mode[e] = "run" => report[e] = "pass"

Outcome ==
  /\ StatusEarned /\ StopFinal /\ WatchKnown /\ WatchOver
  /\ ReportEarned /\ VerdictEarned /\ ExitEarned

\* Every step keeps what the verdict rests on.
LEMMA OutcomeStep == TypeOK /\ Places /\ Outcome /\ [Next]_vars => Outcome'
<1> SUFFICES ASSUME TypeOK, Places, Outcome, [Next]_vars PROVE Outcome'
  OBVIOUS
<1> USE DEF TypeOK, Phase, Preparing, Body, Waiting, Closing, Working, Alive,
            Places, LockHeld, Ended, ChildPlace, SuitePlace, StrayPlace, Outcome, StatusEarned,
            StopFinal, WatchKnown, WatchOver, ReportEarned, VerdictEarned, ExitEarned, Serving
<1>1. ASSUME NEW e \in Exp, NEW m \in {"run", "suite"},
             Acquire(e, m) \/ RefuseProfile(e, m)
      PROVE  Outcome'
  BY <1>1 DEF Acquire, RefuseProfile
<1>2. ASSUME NEW e \in Exp, Refuse(e) \/ Leave(e) PROVE Outcome'
  BY <1>2, SMTT(60) DEF Refuse, Leave
<1>3. ASSUME NEW e \in Exp, NEW why, Unwind(e, why), child' = Reaped(e),
             pc[e] \notin {"idle", "leave", "exited"},
             \/ server' = server \/ server' = Stopped,
             UNCHANGED <<lock, mode, exit, launcher, watchVars, strays>>
      PROVE  Outcome'
  BY <1>3 DEF Unwind, Handler, Stopped, Reaped
<1>4. ASSUME NEW e \in Exp,
             Preflight(e) \/ StopPrior(e) \/ CheckIdle(e) \/ SpawnWatch(e) \/ Own(e)
      PROVE  Outcome'
  BY <1>3, <1>4, SMTT(60) DEF Preflight, StopPrior, CheckIdle, SpawnWatch, Own, Raise, Stopped
<1>5. ASSUME NEW e \in Exp,
             \/ StartKernelCheck(e) \/ StartServe(e)
             \/ StartTask(e) \/ NoSuites(e)
      PROVE  Outcome'
  BY <1>5, SMTT(60) DEF StartKernelCheck, StartServe, StartTask, NoSuites, Handler, Start
<1>6. ASSUME NEW e \in Exp, ScriptDone(e) \/ TaskRow(e) PROVE Outcome'
  <2>1. CASE ScriptDone(e)
    <3>1. CASE Raise(e) /\ UNCHANGED <<dockerVars, watchVars>>
      BY <1>3, <2>1, <3>1 DEF ScriptDone, Raise
    <3>2. CASE ~(Raise(e) /\ UNCHANGED <<dockerVars, watchVars>>)
      BY <2>1, <3>2, SMTT(90) DEF ScriptDone
    <3>3. QED
      BY <3>1, <3>2
  <2>2. CASE TaskRow(e)
    <3>1. status[e] # "pass" /\ report[e] = "none" /\ stopRc[e] # "zero"
      BY <2>2 DEF TaskRow
    <3>2. \A f \in Exp \ {e} : allPass'[f] = allPass[f]
      BY <2>2 DEF TaskRow
    <3>3. QED
      BY <2>2, <3>1, <3>2 DEF TaskRow
  <2>3. QED
    BY <1>6, <2>1, <2>2
<1>7. ASSUME NEW e \in Exp, \/ GuardAbort(e) \/ Deadline(e) \/ Launched(e)
                            \/ BootReady(e) \/ BootDead(e) \/ BootFacts(e)
      PROVE  Outcome'
  BY <1>3, <1>7, SMTT(60) DEF GuardAbort, Deadline, Launched, BootReady,
       BootDead, BootFacts, Raise
<1>8. ASSUME NEW e \in Exp, SuitesEnd(e) \/ PostChecks(e) \/ SaveLogs(e) PROVE Outcome'
  <2>1. CASE SuitesEnd(e)
    <3>1. CASE allPass[e] = TRUE
      BY <2>1, <3>1, SMTT(90) DEF SuitesEnd
    <3>2. CASE allPass[e] = FALSE
      BY <2>1, <3>2, SMTT(90) DEF SuitesEnd
    <3>3. allPass[e] \in BOOLEAN
      OBVIOUS
    <3>4. QED
      BY <3>1, <3>2, <3>3, Zenon
  <2>2. CASE PostChecks(e) \/ SaveLogs(e)
    BY <1>3, <2>2, SMTT(60) DEF PostChecks, SaveLogs, Raise
  <2>3. QED
    BY <1>8, <2>1, <2>2
<1>9. ASSUME NEW e \in Exp, StopServer(e) PROVE Outcome'
  BY <1>3, <1>9, SMTT(60) DEF StopServer, Stopped, Raise
<1>10. ASSUME NEW e \in Exp, TouchDone(e) \/ AwaitWatch(e) PROVE Outcome'
  <2>1. CASE TouchDone(e)
    BY <2>1, SMTT(90) DEF TouchDone
  <2>2. CASE AwaitWatch(e) /\ ~(Raise(e) /\ UNCHANGED <<dockerVars, watchVars>>)
    <3>1. watch' = [watch EXCEPT ![e] = IF watch[e] \in Alive THEN "gone" ELSE watch[e]]
      BY <2>2 DEF AwaitWatch
    <3>2. /\ watch'[e] \notin Alive
          /\ \A f \in Exp \ {e} : watch'[f] = watch[f]
      BY <3>1
    <3>3. pc[e] = "await" /\ pc' = [pc EXCEPT ![e] = "verdict"]
      BY <2>2 DEF AwaitWatch
    <3>4. QED
      BY <2>2, <3>2, <3>3 DEF AwaitWatch
  <2>3. CASE pc[e] = "await" /\ Raise(e) /\ UNCHANGED <<dockerVars, watchVars>>
    BY <1>3, <2>3 DEF Raise
  <2>4. QED
    BY <1>10, <2>1, <2>2, <2>3 DEF AwaitWatch
<1>11. ASSUME NEW e \in Exp, Verdict(e) PROVE Outcome'
  BY <1>11 DEF Verdict
<1>12. ASSUME NEW e \in Exp, Interrupt(e) PROVE Outcome'
  <2>1. CASE child' = Reaped(e) /\ UNCHANGED <<watch, strays>>
    BY <1>3, <1>12, <2>1 DEF Interrupt, Stopped
  <2>2. CASE Escapes(e) /\ UNCHANGED child /\ strays' = strays \cup {e}
    BY <1>12, <2>2 DEF Interrupt, Escapes, Unwind, Handler
  <2>3. QED
    BY <1>12, <2>1, <2>2 DEF Interrupt
<1>13. ASSUME NEW e \in Exp, Kill(e) PROVE Outcome'
  BY <1>13 DEF Kill
<1>14. ASSUME NEW e \in Exp, Child(e) PROVE Outcome'
  BY <1>14 DEF Child, SuiteEnds, KernelRemoves, KernelRuns, KernelEnds,
       ServeRemoves, ServeLaunches, ServeFails
<1>15. ASSUME NEW e \in Exp, Watchdog(e) PROVE Outcome'
  BY <1>15 DEF Watchdog, WatchTrip, WatchStops, WatchDone, WatchLost, Stopped
<1>16. CASE World \/ UNCHANGED vars
  BY <1>16 DEF World, ServerDies, ServerLoads, KernelLoads, KernelDies
<1>17. QED
  BY <1>1, <1>2, <1>4, <1>5, <1>6, <1>7, <1>8, <1>9, <1>10, <1>11, <1>12, <1>13, <1>14,
     <1>15, <1>16 DEF Next, Step

\* What the verdict rests on holds throughout a run.
THEOREM OutcomeAlways == Spec => []Outcome
<1>1. Init => Outcome
  BY ExpAssumption DEF Init, Outcome, StatusEarned, StopFinal, WatchKnown, WatchOver,
     ReportEarned, VerdictEarned, ExitEarned
<1>2. QED
  BY <1>1, OutcomeStep, PlacesAlways, TypeCorrect, PTL DEF Spec

\* A passing experiment_status.json: every suite passed, no trip, server stopped.
THEOREM VerdictEarnedHolds == Spec => []VerdictEarned
<1>1. Outcome => VerdictEarned
  BY DEF Outcome
<1>2. QED
  BY <1>1, OutcomeAlways, PTL

\* run_config.sh exits 0 only with server, benchmark and watchdog gone.
THEOREM PassLeavesNothingHolds == Spec => []PassLeavesNothing
<1>1. Outcome => PassLeavesNothing
  BY SMTT(60) DEF Outcome, VerdictEarned, StatusEarned, WatchOver, ReportEarned, ExitEarned,
     PassLeavesNothing, Working
<1>2. QED
  BY <1>1, OutcomeAlways, PTL

\* The trip file is final once the verdict is written, unless the watchdog is a stray.
THEOREM TripFileFinalHolds == Spec => TripFileFinal
<1>1. TypeOK /\ Outcome /\ [Next]_vars =>
        [\A e \in Exp : report[e] # "none" /\ e \notin strays => trip'[e] = trip[e]]_vars
  <2> SUFFICES ASSUME TypeOK, Outcome, [Next]_vars,
                      NEW e \in Exp, report[e] # "none", e \notin strays
               PROVE  trip'[e] = trip[e]
    OBVIOUS
  <2>1. \A f \in Exp : WatchTrip(f) => f # e
    BY DEF Outcome, WatchOver, Alive, WatchTrip
  <2>2. QED
    BY <2>1 DEF TypeOK, Next, Step, Acquire, Refuse, Leave, Preflight, StopPrior,
       CheckIdle, SpawnWatch, Own, StartKernelCheck, StartServe, StartTask, Start,
       NoSuites, RefuseProfile, ScriptDone, GuardAbort, Deadline, Launched, BootReady,
       BootDead, BootFacts,
       TaskRow, SuitesEnd, PostChecks, SaveLogs, StopServer, TouchDone, AwaitWatch,
       Verdict, Child, SuiteEnds, KernelRemoves, KernelRuns, KernelEnds,
       ServeRemoves, ServeLaunches, ServeFails,
       Watchdog, WatchTrip, WatchStops, WatchDone, WatchLost, World, ServerDies, ServerLoads,
       KernelLoads, KernelDies,
       Interrupt, Escapes, Kill
<1>2. QED
  BY <1>1, OutcomeAlways, TypeCorrect, PTL DEF Spec, TripFileFinal

-----------------------------------------------------------------------------
(* When the watchdog is dismissed *)

\* Only an invocation past `owned = True' launches the container, ...
OwnedFirst == \A e \in Exp :
  /\ launcher = e \/ child[e] = "serve" => owned[e]
  /\ mode[e] = "run" /\ pc[e] \in Body \ {"spawn", "own"} => owned[e]
  /\ pc[e] \in {"idle", "spawn", "unwatched"} \cup Preparing => ~owned[e]

\* ... so the finally block touches done only after it has tried to stop it.
TouchAfterStop == \A e \in Exp : pc[e] = "touch" /\ Serving(e) =>
  stopRc[e] = "nonzero" \/ e \in strays

DoneLate == \A e \in Exp : done[e] =>
  /\ pc[e] \in {"await", "verdict", "leave", "exited"}
  /\ child[e] = "none" \/ e \in strays

Dismissal == OwnedFirst /\ TouchAfterStop /\ DoneLate /\ DismissedAfterStop

\* Every step keeps the order of stop, done and the watchdog's end.
LEMMA DismissalStep == TypeOK /\ Places /\ Dismissal /\ [Next]_vars => Dismissal'
<1> SUFFICES ASSUME TypeOK, Places, Dismissal, [Next]_vars PROVE Dismissal'
  OBVIOUS
<1> USE DEF TypeOK, Phase, Preparing, Body, Waiting, Closing, Working,
            Places, LockHeld, Ended, ChildPlace, SuitePlace, StrayPlace, Dismissal,
            OwnedFirst, TouchAfterStop, DoneLate, DismissedAfterStop, Serving
<1>1. ASSUME NEW e \in Exp, NEW m \in {"run", "suite"},
             Acquire(e, m) \/ RefuseProfile(e, m)
      PROVE  Dismissal'
  BY <1>1 DEF Acquire, RefuseProfile
<1>2. ASSUME NEW e \in Exp, Refuse(e) \/ Leave(e) PROVE Dismissal'
  BY <1>2, SMTT(60) DEF Refuse, Leave
<1>3. ASSUME NEW e \in Exp, NEW why, Unwind(e, why), child' = Reaped(e),
             pc[e] \notin {"idle", "leave", "exited"},
             server' = server \/ server' = Stopped,
             UNCHANGED <<lock, mode, exit, launcher, kernelVars, watchVars, strays, unseen>>
      PROVE  Dismissal'
  BY <1>3 DEF Unwind, Handler, Stopped, Reaped
<1>4. ASSUME NEW e \in Exp, Preflight(e) \/ StopPrior(e) \/ CheckIdle(e) PROVE Dismissal'
  <2>1. CASE Preflight(e)
    BY <1>3, <2>1, SMTT(60) DEF Preflight, Raise
  <2>2. CASE StopPrior(e)
    BY <1>3, <2>2 DEF StopPrior, Raise, Stopped
  <2>3. CASE CheckIdle(e)
    BY <1>3, <2>3, SMTT(60) DEF CheckIdle, Raise
  <2>4. QED
    BY <1>4, <2>1, <2>2, <2>3
<1>5. ASSUME NEW e \in Exp, SpawnWatch(e) \/ Own(e) PROVE Dismissal'
  <2>1. CASE SpawnWatch(e)
    BY <1>3, <2>1, SMTT(60) DEF SpawnWatch, Raise
  <2>2. CASE Own(e)
    BY <2>2, SMTT(60) DEF Own
  <2>3. QED
    BY <1>5, <2>1, <2>2
<1>6. ASSUME NEW e \in Exp,
             \/ StartKernelCheck(e) \/ StartServe(e)
             \/ StartTask(e) \/ NoSuites(e)
      PROVE  Dismissal'
  BY <1>6, SMTT(60) DEF StartKernelCheck, StartServe, StartTask, NoSuites, Handler, Start
<1>7. ASSUME NEW e \in Exp, ScriptDone(e) \/ TaskRow(e) PROVE Dismissal'
  <2>1. CASE ScriptDone(e)
    BY <1>3, <2>1, SMTT(60) DEF ScriptDone, Raise
  <2>2. CASE TaskRow(e)
    BY <1>3, <2>2 DEF TaskRow, Raise
  <2>3. QED
    BY <1>7, <2>1, <2>2
<1>8. ASSUME NEW e \in Exp, \/ GuardAbort(e) \/ Deadline(e) \/ Launched(e)
                            \/ BootReady(e) \/ BootDead(e) \/ BootFacts(e)
      PROVE  Dismissal'
  <2>1. CASE GuardAbort(e)
    BY <1>3, <2>1 DEF GuardAbort, Raise
  <2>2. CASE Deadline(e)
    BY <1>3, <2>2 DEF Deadline, Raise
  <2>3. CASE Launched(e)
    BY <1>3, <2>3 DEF Launched, Raise
  <2>4. CASE BootReady(e) \/ BootDead(e) \/ BootFacts(e)
    BY <1>3, <2>4, SMTT(60) DEF BootReady, BootDead, BootFacts, Raise
  <2>5. QED
    BY <1>8, <2>1, <2>2, <2>3, <2>4
<1>9. ASSUME NEW e \in Exp, SuitesEnd(e) \/ PostChecks(e) \/ SaveLogs(e) PROVE Dismissal'
  <2>1. CASE SuitesEnd(e)
    BY <2>1 DEF SuitesEnd
  <2>2. CASE PostChecks(e)
    BY <1>3, <2>2 DEF PostChecks, Raise
  <2>3. CASE SaveLogs(e)
    BY <1>3, <2>3, SMTT(60) DEF SaveLogs, Raise
  <2>4. QED
    BY <1>9, <2>1, <2>2, <2>3
<1>10. ASSUME NEW e \in Exp, StopServer(e) PROVE Dismissal'
  BY <1>3, <1>10, SMTT(60) DEF StopServer, Stopped, Raise
<1>11. ASSUME NEW e \in Exp, TouchDone(e) PROVE Dismissal'
  BY <1>11 DEF TouchDone
<1>12. ASSUME NEW e \in Exp, AwaitWatch(e) \/ Verdict(e) PROVE Dismissal'
  <2>1. CASE Raise(e) /\ pc[e] = "await" /\ UNCHANGED <<dockerVars, watchVars>>
    BY <1>3, <2>1 DEF Raise
  <2>2. CASE AwaitWatch(e) /\ ~(Raise(e) /\ UNCHANGED <<dockerVars, watchVars>>)
    BY <2>2, SMTT(60) DEF AwaitWatch
  <2>3. CASE Verdict(e)
    BY <2>3 DEF Verdict
  <2>4. QED
    BY <1>12, <2>1, <2>2, <2>3 DEF AwaitWatch
<1>13. ASSUME NEW e \in Exp, Interrupt(e) PROVE Dismissal'
  <2>1. CASE child' = Reaped(e) /\ UNCHANGED <<watch, strays>>
    BY <1>3, <1>13, <2>1 DEF Interrupt, Stopped
  <2>2. CASE Escapes(e) /\ UNCHANGED child /\ strays' = strays \cup {e}
    BY <1>13, <2>2 DEF Interrupt, Escapes, Unwind, Handler
  <2>3. QED
    BY <1>13, <2>1, <2>2 DEF Interrupt
<1>14. ASSUME NEW e \in Exp, Kill(e) PROVE Dismissal'
  BY <1>14 DEF Kill
<1>15. ASSUME NEW e \in Exp, Child(e) PROVE Dismissal'
  <2>1. CASE \/ \E how \in {"ok", "bad"} : SuiteEnds(e, how)
             \/ KernelRemoves(e) \/ KernelRuns(e) \/ KernelEnds(e)
    BY <2>1, SMTT(60) DEF SuiteEnds, KernelRemoves, KernelRuns, KernelEnds
  <2>2. CASE ServeRemoves(e)
    BY <2>2, ExpAssumption DEF ServeRemoves
  <2>3. CASE ServeLaunches(e)
    BY <2>3 DEF ServeLaunches
  <2>4. CASE ServeFails(e)
    BY <2>4 DEF ServeFails
  <2>5. QED
    BY <1>15, <2>1, <2>2, <2>3, <2>4 DEF Child
<1>16. ASSUME NEW e \in Exp, Watchdog(e) PROVE Dismissal'
  BY <1>16 DEF Watchdog, WatchTrip, WatchStops, WatchDone, WatchLost, Stopped
<1>17. CASE World \/ UNCHANGED vars
  BY <1>17 DEF World, ServerDies, ServerLoads, KernelLoads, KernelDies
<1>18. QED
  BY <1>1, <1>2, <1>4, <1>5, <1>6, <1>7, <1>8, <1>9, <1>10, <1>11, <1>12, <1>13, <1>14,
     <1>15, <1>16, <1>17 DEF Next, Step

\* Unless serve.sh is a stray, the watchdog is dismissed only once docker stop has answered.
THEOREM DismissedAfterStopHolds == Spec => []DismissedAfterStop
<1>1. Init => Dismissal
  BY ExpAssumption DEF Init, Dismissal, OwnedFirst, TouchAfterStop, DoneLate,
     DismissedAfterStop, Serving, Body, Waiting
<1>2. Dismissal => DismissedAfterStop
  BY DEF Dismissal
<1>3. QED
  BY <1>1, <1>2, DismissalStep, PlacesAlways, TypeCorrect, PTL DEF Spec

-----------------------------------------------------------------------------
(* Whose server runs, and what shares the GPU *)

\* From the idle check to serve.sh no server runs: stopPrior has stopped it.
NoServerYet == strays = {} => \A e \in Exp :
  pc[e] \in {"checkIdle", "spawn", "own", "kernel", "kernelRun"} => server \notin Up

\* Around the kernel check, its container is there only while its client waits.
NoKernelLeft == strays = {} /\ ~unseen => \A e \in Exp :
  /\ pc[e] \in {"spawn", "own", "kernel", "serve", "serveRun"} => kernel = "none"
  /\ pc[e] = "kernelRun" /\ kernel # "none" => checker = e /\ child[e] \in {"check", "bad"}

\* After serve.sh the container, if it is up, is the one it started.
OwnServer == strays = {} => \A e \in Exp :
  /\ mode[e] = "run"
  /\ \/ pc[e] \in {"launched", "boot", "ready", "task", "taskRun"}
     \/ pc[e] = "serveRun" /\ child[e] = "ok"
  /\ server \in Up
  => launcher = e

Gpu == NoServerYet /\ NoKernelLeft /\ OwnServer /\ GpuExclusive

\* Every step keeps the GPU with one owner while nothing is a stray.
LEMMA GpuStep == TypeOK /\ Places /\ Gpu /\ [Next]_vars => Gpu'
<1> SUFFICES ASSUME TypeOK, Places, Gpu, [Next]_vars PROVE Gpu'
  OBVIOUS
<1> USE DEF TypeOK, Phase, Preparing, Body, Waiting, Closing, Working,
            Places, LockHeld, Ended, ChildPlace, SuitePlace, StrayPlace, Gpu,
            NoServerYet, NoKernelLeft, OwnServer, GpuExclusive
<1>1. ASSUME NEW e \in Exp, NEW m \in {"run", "suite"},
             Acquire(e, m) \/ RefuseProfile(e, m)
      PROVE  Gpu'
  BY <1>1 DEF Acquire, RefuseProfile
<1>2. ASSUME NEW e \in Exp, Refuse(e) \/ Leave(e) PROVE Gpu'
  BY <1>2 DEF Refuse, Leave
<1>3. ASSUME NEW e \in Exp, NEW why, Unwind(e, why), child' = Reaped(e),
             pc[e] \notin {"idle", "leave", "exited"},
             server' = server \/ server' = Stopped,
             UNCHANGED <<lock, mode, exit, launcher, kernelVars, watchVars, strays, unseen>>
      PROVE  Gpu'
  BY <1>3 DEF Unwind, Handler, Stopped, Reaped
<1>4. ASSUME NEW e \in Exp, Preflight(e) \/ StopPrior(e) \/ CheckIdle(e) PROVE Gpu'
  <2>1. CASE Preflight(e)
    BY <1>3, <2>1 DEF Preflight, Raise
  <2>2. CASE StopPrior(e)
    BY <1>3, <2>2, SMTT(60) DEF StopPrior, Raise, Stopped
  <2>3. CASE CheckIdle(e)
    <3>1. CASE Raise(e) /\ UNCHANGED <<dockerVars, watchVars>>
      BY <1>3, <2>3, <3>1 DEF CheckIdle, Raise
    <3>2. CASE /\ Goto(e, "checkIdle", "spawn") /\ server # "running" /\ kernel # "running"
               /\ unseen' = (unseen \/ kernel = "starting")
               /\ UNCHANGED <<mode, child, dockerVars, strays>>
      <4>1. ~unseen' => ~unseen /\ kernel # "starting"
        BY <3>2, Zenon
      <4>2. QED
        BY <3>2, <4>1, SMTT(60)
    <3>3. QED
      BY <2>3, <3>1, <3>2 DEF CheckIdle
  <2>4. QED
    BY <1>4, <2>1, <2>2, <2>3
<1>5. ASSUME NEW e \in Exp, SpawnWatch(e) \/ Own(e) PROVE Gpu'
  BY <1>3, <1>5 DEF SpawnWatch, Own, Raise
<1>6. ASSUME NEW e \in Exp,
             \/ StartKernelCheck(e) \/ StartServe(e)
             \/ StartTask(e) \/ NoSuites(e)
      PROVE  Gpu'
  BY <1>6 DEF StartKernelCheck, StartServe, StartTask, NoSuites, Handler, Start
<1>7. ASSUME NEW e \in Exp, ScriptDone(e) \/ TaskRow(e) PROVE Gpu'
  BY <1>3, <1>7 DEF ScriptDone, TaskRow, Raise
<1>8. ASSUME NEW e \in Exp, \/ GuardAbort(e) \/ Deadline(e) \/ Launched(e)
                            \/ BootReady(e) \/ BootDead(e) \/ BootFacts(e)
      PROVE  Gpu'
  BY <1>3, <1>8 DEF GuardAbort, Deadline, Launched, BootReady,
       BootDead, BootFacts, Raise
<1>9. ASSUME NEW e \in Exp, SuitesEnd(e) \/ PostChecks(e) \/ SaveLogs(e) PROVE Gpu'
  BY <1>3, <1>9 DEF SuitesEnd, PostChecks, SaveLogs, Raise
<1>10. ASSUME NEW e \in Exp, StopServer(e) PROVE Gpu'
  BY <1>3, <1>10 DEF StopServer, Stopped, Raise
<1>11. ASSUME NEW e \in Exp, TouchDone(e) PROVE Gpu'
  BY <1>11 DEF TouchDone
<1>12. ASSUME NEW e \in Exp, AwaitWatch(e) \/ Verdict(e) PROVE Gpu'
  BY <1>3, <1>12 DEF AwaitWatch, Verdict, Raise
<1>13. ASSUME NEW e \in Exp, Interrupt(e) PROVE Gpu'
  <2>1. CASE child' = Reaped(e) /\ UNCHANGED <<watch, strays>>
    BY <1>3, <1>13, <2>1 DEF Interrupt, Stopped
  <2>2. CASE Escapes(e) /\ UNCHANGED child /\ strays' = strays \cup {e}
    BY <2>2
  <2>3. QED
    BY <1>13, <2>1, <2>2 DEF Interrupt
<1>14. ASSUME NEW e \in Exp, Kill(e) PROVE Gpu'
  BY <1>14 DEF Kill
<1>15. ASSUME NEW e \in Exp, Child(e) PROVE Gpu'
  BY <1>15 DEF Child, SuiteEnds, KernelRemoves, KernelRuns, KernelEnds,
       ServeRemoves, ServeLaunches, ServeFails
<1>16. ASSUME NEW e \in Exp, Watchdog(e) PROVE Gpu'
  BY <1>16 DEF Watchdog, WatchTrip, WatchStops, WatchDone, WatchLost, Stopped
<1>17. CASE World \/ UNCHANGED vars
  BY <1>17 DEF World, ServerDies, ServerLoads, KernelLoads, KernelDies
<1>18. QED
  BY <1>1, <1>2, <1>4, <1>5, <1>6, <1>7, <1>8, <1>9, <1>10, <1>11, <1>12, <1>13, <1>14,
     <1>15, <1>16, <1>17 DEF Next, Step

\* One owner of the GPU, and the run's own server, throughout.
THEOREM GpuAlways == Spec => []Gpu
<1>1. Init => Gpu
  BY DEF Init, Gpu, NoServerYet, NoKernelLeft, OwnServer, GpuExclusive
<1>2. QED
  BY <1>1, GpuStep, PlacesAlways, TypeCorrect, PTL DEF Spec

\* Without a stray, and unless the idle check came too early for a left container, server
\* and kernel check never share the GPU.
THEOREM GpuExclusiveHolds == Spec => []GpuExclusive
<1>1. Gpu => GpuExclusive
  BY DEF Gpu
<1>2. QED
  BY <1>1, GpuAlways, PTL

\* Without a stray, the suites measure the server their own run launched.
THEOREM OwnServerMeasuredHolds == Spec => []OwnServerMeasured
<1>1. Places /\ Gpu => OwnServerMeasured
  BY DEF Places, ChildPlace, Gpu, OwnServer, OwnServerMeasured
<1>2. QED
  BY <1>1, PlacesAlways, GpuAlways, PTL

-----------------------------------------------------------------------------
(* The watchdog's part of the experiment *)

\* What MemWatch is proved to implement, for the watchdog of e.
Dog(e) == INSTANCE WatchdogPromise WITH watch <- watch[e], trip <- trip[e]

\* Experiment grants its watchdogs whatever the promise allows them: a step of e's watchdog
\* that changes nothing but its own files, and stops the container only when it has tripped,
\* is a step of Watchdog(e) (memwatch.py:61-91).
THEOREM WatchdogGranted ==
  ASSUME TypeOK, NEW e \in Exp, Dog(e)!Next,
         watch' = [watch EXCEPT ![e] = watch'[e]],
         trip' = [trip EXCEPT ![e] = trip'[e]],
         server' = server \/ (watch[e] = "tripped" /\ server' = Stopped),
         UNCHANGED <<lock, mode, child, exit, ctlVars, launcher, kernelVars, done, faultVars>>
  PROVE  Watchdog(e)
<1>1. watch \in [Exp -> {"none", "on", "tripped", "gone"}] /\ trip \in [Exp -> BOOLEAN]
  BY DEF TypeOK
<1>2. CASE Dog(e)!Trip
  BY <1>1, <1>2 DEF Dog!Trip, Watchdog, WatchTrip
<1>3. CASE Dog(e)!Stop
  <2>1. trip' = trip
    BY <1>1, <1>3 DEF Dog!Stop
  <2>2. QED
    BY <1>1, <1>3, <2>1 DEF Dog!Stop, Watchdog, WatchStops
<1>4. CASE Dog(e)!End
  <2>1. trip' = trip
    BY <1>1, <1>4 DEF Dog!End
  <2>2. QED
    BY <1>1, <1>4, <2>1 DEF Dog!End, Watchdog, WatchLost
<1>5. QED
  BY <1>2, <1>3, <1>4 DEF Dog!Next
=============================================================================
