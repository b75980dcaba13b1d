----------------------------- MODULE Experiment -----------------------------
(***************************************************************************)
(* The experiment controller (scripts/experiment.py) with everything it    *)
(* drives: the results/.bench.lock file, the one named docker container    *)
(* that holds the server, the isolated QSA kernel-check container, the     *)
(* child process group of bounded(), the memory watchdog process and the   *)
(* done / trip files through which controller and watchdog talk.           *)
(*                                                                         *)
(* An element of Exp is one invocation of experiment.py (one TAG).  Mode   *)
(* "run" is run_config.sh (owns the server), mode "suite" is bench_fast.sh *)
(* (benchmarks an existing server, no watchdog).                           *)
(***************************************************************************)
EXTENDS Naturals

CONSTANTS
  Exp,            \* invocations of experiment.py, each with its own TAG
  NoOne,          \* "no invocation"
  NumTasks,       \* length of the suite list
  MaxInterrupts,  \* bound: SIGTERM / Ctrl-C deliveries
  MaxKills        \* bound: SIGKILLed controllers

ASSUME ExpAssumption == NoOne \notin Exp
ASSUME BoundAssumption ==
  /\ NumTasks \in Nat \ {0}
  /\ MaxInterrupts \in Nat
  /\ MaxKills \in Nat

VARIABLES
  lock,        \* holder of the flock on results/.bench.lock
  pc,          \* where invocation e is in main() / run() / suites()
  mode,        \* "run" or "suite", from argv
  exc,         \* the exception unwinding e
  owned,       \* run()'s local `owned'
  child,       \* process group started by bounded(): what it runs, or how it ended
  row,         \* number of suites e has finished
  allPass,     \* every finished suite of e passed
  suiteFile,   \* "status" in suite_status.json
  status,      \* run()'s local result['status']
  stopRc,      \* result['stop_exit_code']
  report,      \* "status" in experiment_status.json
  exit,        \* how the process e ended
  watch,       \* the watchdog process of e
  trip,        \* watch.trip.json exists
  done,        \* watch.done exists
  server,      \* the named container
  launcher,    \* the invocation whose serve.sh created the container
  kernel,      \* the kernel check's container, of which there is one name too
  checker,     \* the invocation whose kernel check created it
  interrupts, kills   \* fault counters

\* History variables; no action reads them.
VARIABLES
  strays,      \* invocations a signal took off a process that runs on unattended
  unseen       \* some run passed the idle check beside a kernel-check container
               \* that had no CUDA process yet

ctlVars    == <<pc, exc, owned, row, allPass, suiteFile, status, stopRc, report>>
serverVars == <<server, launcher>>
kernelVars == <<kernel, checker>>
dockerVars == <<serverVars, kernelVars>>
watchVars  == <<watch, trip, done>>
faultVars  == <<interrupts, kills, strays, unseen>>
vars == <<lock, mode, child, exit, ctlVars, dockerVars, watchVars, faultVars>>

-----------------------------------------------------------------------------
Preparing == {"preflight", "stopPrior", "checkIdle"}      \* run() before its try
Waiting   == {"kernelRun", "serveRun", "taskRun"}         \* inside bounded()
Body      == {"spawn", "own", "kernel", "serve", "launched", "boot", "ready",
              "task", "post"} \cup Waiting                \* inside run()'s try
Closing   == {"logs", "stop", "touch", "unwatched", "await", "verdict"}
                                                          \* inside its finally
Phase     == {"idle", "leave", "exited"} \cup Preparing \cup Body \cup Closing

\* A live child, by what it executes: bench_qsa_kernels.sh before and during its docker
\* run, serve.sh, a suite.
Working == {"kernel", "check", "serve", "suite"}

\* A container is "starting" until one of its processes has opened the GPU.
Up      == {"starting", "running"}
Alive   == {"on", "tripped"}              \* the watchdog process exists

TypeOK ==
  /\ lock \in Exp \cup {NoOne}
  /\ pc \in [Exp -> Phase]
  /\ mode \in [Exp -> {"none", "run", "suite"}]
  /\ exc \in [Exp -> {"none", "error", "interrupt"}]
  /\ owned \in [Exp -> BOOLEAN]
  /\ child \in [Exp -> {"none", "ok", "bad"} \cup Working]
  /\ row \in [Exp -> 0..NumTasks]
  /\ allPass \in [Exp -> BOOLEAN]
  /\ suiteFile \in [Exp -> {"none", "running", "pass", "fail"}]
  /\ status \in [Exp -> {"error", "pass", "fail"}]
  /\ stopRc \in [Exp -> {"unset", "zero", "nonzero"}]
  /\ report \in [Exp -> {"none", "error", "pass", "fail"}]
  /\ exit \in [Exp -> {"none", "zero", "nonzero", "killed"}]
  /\ watch \in [Exp -> {"none", "on", "tripped", "gone"}]
  /\ trip \in [Exp -> BOOLEAN]
  /\ done \in [Exp -> BOOLEAN]
  /\ server \in {"absent", "exited"} \cup Up
  /\ launcher \in Exp \cup {NoOne}
  /\ kernel \in {"none"} \cup Up
  /\ checker \in Exp \cup {NoOne}
  /\ interrupts \in 0..MaxInterrupts
  /\ kills \in 0..MaxKills
  /\ strays \subseteq Exp
  /\ unseen \in BOOLEAN

\* A server may be left over from a manual serve.sh.
Init ==
  /\ lock = NoOne
  /\ pc = [e \in Exp |-> "idle"]
  /\ mode = [e \in Exp |-> "none"]
  /\ exc = [e \in Exp |-> "none"]
  /\ owned = [e \in Exp |-> FALSE]
  /\ child = [e \in Exp |-> "none"]
  /\ row = [e \in Exp |-> 0]
  /\ allPass = [e \in Exp |-> TRUE]
  /\ suiteFile = [e \in Exp |-> "none"]
  /\ status = [e \in Exp |-> "error"]
  /\ stopRc = [e \in Exp |-> "unset"]
  /\ report = [e \in Exp |-> "none"]
  /\ exit = [e \in Exp |-> "none"]
  /\ watch = [e \in Exp |-> "none"]
  /\ trip = [e \in Exp |-> FALSE]
  /\ done = [e \in Exp |-> FALSE]
  /\ server \in {"absent", "exited"} \cup Up
  /\ launcher = NoOne
  /\ kernel = "none"
  /\ checker = NoOne
  /\ interrupts = 0
  /\ kills = 0
  /\ strays = {}
  /\ unseen = FALSE

-----------------------------------------------------------------------------
(* Helpers *)

Goto(e, from, to) ==
  /\ pc[e] = from
  /\ pc' = [pc EXCEPT ![e] = to]

\* Serving(e): the container is up and is the one e's serve.sh started.
Serving(e) == server \in Up /\ launcher = e

\* What a successful `docker stop' leaves behind.
Stopped == IF server \in Up THEN "exited" ELSE server

\* Mutant: the guard forgets watch.poll().
GuardTripOnly(e) == mode[e] = "run" /\ trip[e]

\* guard(): the trip file exists, or the watchdog process has exited.
GuardFails(e) ==
  /\ mode[e] = "run"
  /\ trip[e] \/ watch[e] = "gone"

\* Mutant: the finally block dismisses the watchdog without stopping the server.
HandlerSkipsStop(e) ==
  IF mode[e] = "suite" \/ pc[e] \in Preparing \cup Closing THEN "leave" ELSE "touch"

\* Where an exception raised at pc[e] takes control: run()'s finally, or,
\* before its try and in suite mode, straight to main().  At "unwatched" the finally
\* touches done with its local `watch' still None.
Handler(e) ==
  IF mode[e] = "suite" \/ pc[e] \in Preparing \cup Closing THEN "leave"
  ELSE IF owned[e] THEN "logs"
  ELSE IF pc[e] = "spawn" THEN "unwatched"
  ELSE "touch"

\* Mutant: bounded() without its finally: the process group is not killed.
ReapedNever(e) == child

\* bounded()'s finally: what an exception inside its try leaves of the child.
Reaped(e) == IF pc[e] \in Waiting THEN [child EXCEPT ![e] = "none"] ELSE child

\* An exception leaves the current statement; of an error in bounded(), suites() has
\* recorded an aborted row.
Unwind(e, why) ==
  /\ pc' = [pc EXCEPT ![e] = Handler(e)]
  /\ exc' = [exc EXCEPT ![e] = why]
  /\ suiteFile' = IF pc[e] \in {"task", "taskRun"} /\ why = "error"
                  THEN [suiteFile EXCEPT ![e] = "fail"] ELSE suiteFile
  /\ UNCHANGED <<owned, row, allPass, status, stopRc, report>>

Raise(e) ==
  /\ Unwind(e, "error")
  /\ child' = Reaped(e)
  /\ UNCHANGED <<lock, mode, exit, faultVars>>

-----------------------------------------------------------------------------
(* main(): the lock *)

\* Mutant: LOCK_SH instead of LOCK_EX.
AcquireShared(e, m) ==
  /\ Goto(e, "idle", IF m = "run" THEN "preflight" ELSE "task")
  /\ lock' = e
  /\ mode' = [mode EXCEPT ![e] = m]
  /\ UNCHANGED <<exc, owned, child, row, allPass, suiteFile, status, stopRc,
                 report, exit, dockerVars, watchVars, faultVars>>

Acquire(e, m) ==
  /\ Goto(e, "idle", IF m = "run" THEN "preflight" ELSE "task")
  /\ lock = NoOne
  /\ lock' = e
  /\ mode' = [mode EXCEPT ![e] = m]
  /\ UNCHANGED <<exc, owned, child, row, allPass, suiteFile, status, stopRc,
                 report, exit, dockerVars, watchVars, faultVars>>

Refuse(e) ==
  /\ Goto(e, "idle", "exited")
  /\ lock # NoOne
  /\ exit' = [exit EXCEPT ![e] = "nonzero"]
  /\ UNCHANGED <<lock, mode, child, exc, owned, row, allPass, suiteFile, status,
                 stopRc, report, dockerVars, watchVars, faultVars>>

\* results/TAG exists already, or the settings contradict the profile: SystemExit, with
\* the lock held.
RefuseProfile(e, m) ==
  /\ Goto(e, "idle", "leave")
  /\ lock = NoOne
  /\ lock' = e
  /\ mode' = [mode EXCEPT ![e] = m]
  /\ exc' = [exc EXCEPT ![e] = "error"]
  /\ UNCHANGED <<owned, child, row, allPass, suiteFile, status, stopRc, report, exit,
                 dockerVars, watchVars, faultVars>>

\* The process ends: main() turns the outcome into an exit code, the kernel
\* drops the flock.
Leave(e) ==
  /\ Goto(e, "leave", "exited")
  /\ exit' = [exit EXCEPT ![e] =
       IF exc[e] = "none" /\ (IF mode[e] = "run" THEN report[e] = "pass"
                              ELSE suiteFile[e] = "pass")
       THEN "zero" ELSE "nonzero"]
  /\ lock' = NoOne
  /\ UNCHANGED <<mode, child, exc, owned, row, allPass, suiteFile, status,
                 stopRc, report, dockerVars, watchVars, faultVars>>

-----------------------------------------------------------------------------
(* run() before its try: nothing is owned yet *)

\* Inventory, source preservation, PLE identity, llama-swap unload: any may raise.
Preflight(e) ==
  \/ /\ Goto(e, "preflight", "stopPrior")
     /\ UNCHANGED <<lock, mode, child, exit, exc, owned, row, allPass, suiteFile,
                    status, stopRc, report, dockerVars, watchVars, faultVars>>
  \/ /\ pc[e] = "preflight"
     /\ Raise(e)
     /\ UNCHANGED <<dockerVars, watchVars>>

\* Stop the recipe's own container if docker ps -a lists it; command() raises on
\* a non-zero exit and on its 40 s timeout.
StopPrior(e) ==
  \/ /\ Goto(e, "stopPrior", "checkIdle")
     /\ server' = Stopped
     /\ UNCHANGED <<lock, mode, child, exit, exc, owned, row, allPass, suiteFile,
                    status, stopRc, report, launcher, kernelVars, watchVars, faultVars>>
  \/ /\ pc[e] = "stopPrior"
     /\ server # "absent"
     /\ server' \in {server, Stopped}
     /\ Raise(e)
     /\ UNCHANGED <<launcher, kernelVars, watchVars>>

\* Mutant: launch without asking nvidia-smi for remaining occupants.
CheckIdleBlindly(e) ==
  /\ Goto(e, "checkIdle", "spawn")
  /\ unseen' = (unseen \/ kernel = "starting")
  /\ UNCHANGED <<lock, mode, child, exit, exc, owned, row, allPass, suiteFile, status,
                 stopRc, report, dockerVars, watchVars, interrupts, kills, strays>>

\* nvidia-smi lists the processes that have opened the GPU, not the containers on their
\* way there; ours, or one the recipe does not know, are refused.
CheckIdle(e) ==
  \/ /\ Goto(e, "checkIdle", "spawn")
     /\ server # "running"
     /\ kernel # "running"
     /\ unseen' = (unseen \/ kernel = "starting")
     /\ UNCHANGED <<lock, mode, child, exit, exc, owned, row, allPass, suiteFile, status,
                    stopRc, report, dockerVars, watchVars, interrupts, kills, strays>>
  \/ /\ pc[e] = "checkIdle"
     /\ Raise(e)
     /\ UNCHANGED <<dockerVars, watchVars>>

-----------------------------------------------------------------------------
(* run()'s try body *)

\* Popen(memwatch) in a session of its own; it may raise.
SpawnWatch(e) ==
  \/ /\ Goto(e, "spawn", "own")
     /\ watch' = [watch EXCEPT ![e] = "on"]
     /\ UNCHANGED <<lock, mode, child, exit, exc, owned, row, allPass, suiteFile,
                    status, stopRc, report, dockerVars, trip, done, faultVars>>
  \/ /\ pc[e] = "spawn"
     /\ Raise(e)
     /\ UNCHANGED <<dockerVars, watchVars>>

\* owned = True is a statement after the Popen: a signal can fall between them.
\* QSA_KERNEL_CHECK decides whether the kernel check runs.
Own(e) ==
  /\ \/ Goto(e, "own", "kernel")
     \/ Goto(e, "own", "serve")
  /\ owned' = [owned EXCEPT ![e] = TRUE]
  /\ UNCHANGED <<lock, mode, child, exit, exc, row, allPass, suiteFile, status,
                 stopRc, report, dockerVars, watchVars, faultVars>>

\* bounded() starts its child; the guard is looked at afterwards, in its try.
Start(e, from, to, kind) ==
  /\ Goto(e, from, to)
  /\ child' = [child EXCEPT ![e] = kind]
  /\ UNCHANGED <<lock, mode, exit, exc, owned, row, allPass, suiteFile, status,
                 stopRc, report, dockerVars, watchVars, faultVars>>

StartKernelCheck(e) == Start(e, "kernel", "kernelRun", "kernel")
StartServe(e)       == Start(e, "serve", "serveRun", "serve")
StartTask(e)        == row[e] < NumTasks /\ Start(e, "task", "taskRun", "suite")

\* suites() cannot make its list: ONLY names none of it, or CONTAINER is not set.  Nothing
\* is written to suite_status.json.
NoSuites(e) ==
  /\ Goto(e, "task", Handler(e))
  /\ row[e] = 0
  /\ exc' = [exc EXCEPT ![e] = "error"]
  /\ UNCHANGED <<lock, mode, child, exit, owned, row, allPass, suiteFile, status, stopRc,
                 report, dockerVars, watchVars, faultVars>>

\* bounded() sees the child's exit code; a non-zero one raises here.
ScriptDone(e) ==
  \/ /\ child[e] = "ok"
     /\ \/ Goto(e, "kernelRun", "serve")
        \/ Goto(e, "serveRun", "launched")
     /\ child' = [child EXCEPT ![e] = "none"]
     /\ UNCHANGED <<lock, mode, exit, exc, owned, row, allPass, suiteFile,
                    status, stopRc, report, dockerVars, watchVars, faultVars>>
  \/ /\ child[e] = "bad"
     /\ pc[e] \in {"kernelRun", "serveRun"}
     /\ Raise(e)
     /\ UNCHANGED <<dockerVars, watchVars>>

\* bounded() or the boot loop: the guard raises.  poll() came first, so the child
\* may have ended in between and its result is dropped.  Killing the docker client
\* of the kernel check leaves its container running.
GuardAbort(e) ==
  /\ pc[e] \in Waiting \cup {"boot"}
  /\ GuardFails(e)
  /\ Raise(e)
  /\ UNCHANGED <<dockerVars, watchVars>>

\* Mutant: the boot loop has no deadline of its own.
DeadlineNotInBoot(e) ==
  /\ pc[e] \in Waiting
  /\ Raise(e)
  /\ UNCHANGED <<dockerVars, watchVars>>

\* bounded()'s deadline, or BOOT_WAIT, has passed.
Deadline(e) ==
  /\ pc[e] \in Waiting \cup {"boot"}
  /\ Raise(e)
  /\ UNCHANGED <<dockerVars, watchVars>>

\* effective(): docker inspect / exec on the new container; they may fail.
Launched(e) ==
  \/ /\ Goto(e, "launched", "boot")
     /\ UNCHANGED <<lock, mode, child, exit, exc, owned, row, allPass, suiteFile,
                    status, stopRc, report, dockerVars, watchVars, faultVars>>
  \/ /\ pc[e] = "launched"
     /\ Raise(e)
     /\ UNCHANGED <<dockerVars, watchVars>>

\* The boot loop: /health answers 200, or docker inspect says it is not running.
BootReady(e) ==
  /\ Goto(e, "boot", "ready")
  /\ server = "running"
  /\ UNCHANGED <<lock, mode, child, exit, exc, owned, row, allPass, suiteFile,
                 status, stopRc, report, dockerVars, watchVars, faultVars>>

BootDead(e) ==
  /\ pc[e] = "boot"
  /\ server \notin Up
  /\ Raise(e)
  /\ UNCHANGED <<dockerVars, watchVars>>

\* First-build identity, effective flags and the boot-log facts: any may raise.
BootFacts(e) ==
  \/ /\ Goto(e, "ready", "task")
     /\ UNCHANGED <<lock, mode, child, exit, exc, owned, row, allPass, suiteFile,
                    status, stopRc, report, dockerVars, watchVars, faultVars>>
  \/ /\ pc[e] = "ready"
     /\ Raise(e)
     /\ UNCHANGED <<dockerVars, watchVars>>

\* suites(): one row, and suite_status.json rewritten with status "running".
TaskRow(e) ==
  /\ child[e] \in {"ok", "bad"}
  /\ Goto(e, "taskRun", "task")
  /\ child' = [child EXCEPT ![e] = "none"]
  /\ row' = [row EXCEPT ![e] = @ + 1]
  /\ allPass' = [allPass EXCEPT ![e] = @ /\ child[e] = "ok"]
  /\ suiteFile' = [suiteFile EXCEPT ![e] = "running"]
  /\ UNCHANGED <<lock, mode, exit, exc, owned, status, stopRc, report, dockerVars,
                 watchVars, faultVars>>

\* suites() returns, and run() turns its code into result['status'].
SuitesEnd(e) ==
  LET verdict == IF allPass[e] THEN "pass" ELSE "fail" IN
  /\ row[e] = NumTasks
  /\ Goto(e, "task", IF mode[e] = "run" THEN "post" ELSE "leave")
  /\ suiteFile' = [suiteFile EXCEPT ![e] = verdict]
  /\ status' = IF mode[e] = "run" THEN [status EXCEPT ![e] = verdict] ELSE status
  /\ UNCHANGED <<lock, mode, child, exit, exc, owned, row, allPass, stopRc, report,
                 dockerVars, watchVars, faultVars>>

\* /metrics never raises out; the ReplaySSM commit-log check may.
PostChecks(e) ==
  \/ /\ Goto(e, "post", "logs")
     /\ UNCHANGED <<lock, mode, child, exit, exc, owned, row, allPass, suiteFile,
                    status, stopRc, report, dockerVars, watchVars, faultVars>>
  \/ /\ pc[e] = "post"
     /\ Raise(e)
     /\ UNCHANGED <<dockerVars, watchVars>>

-----------------------------------------------------------------------------
(* run()'s finally *)

\* Two `docker logs' with timeouts: TimeoutExpired leaves the finally block.
SaveLogs(e) ==
  \/ /\ Goto(e, "logs", "stop")
     /\ UNCHANGED <<lock, mode, child, exit, exc, owned, row, allPass, suiteFile,
                    status, stopRc, report, dockerVars, watchVars, faultVars>>
  \/ /\ pc[e] = "logs"
     /\ Raise(e)
     /\ UNCHANGED <<dockerVars, watchVars>>

\* docker stop -t 30: its exit code is kept, its 40 s timeout raises.
StopServer(e) ==
  \/ /\ Goto(e, "stop", "touch")
     /\ server # "absent"
     /\ server' = Stopped
     /\ stopRc' = [stopRc EXCEPT ![e] = "zero"]
     /\ UNCHANGED <<lock, mode, child, exit, exc, owned, row, allPass, suiteFile,
                    status, report, launcher, kernelVars, watchVars, faultVars>>
  \/ /\ Goto(e, "stop", "touch")
     /\ stopRc' = [stopRc EXCEPT ![e] = "nonzero"]
     /\ UNCHANGED <<lock, mode, child, exit, exc, owned, row, allPass, suiteFile,
                    status, report, dockerVars, watchVars, faultVars>>
  \/ /\ pc[e] = "stop"
     /\ server' \in {server, Stopped}
     /\ Raise(e)
     /\ UNCHANGED <<launcher, kernelVars, watchVars>>

\* done.touch(), and on to watch.wait() if there is a `watch' to wait for.
TouchDone(e) ==
  /\ Goto(e, "touch", "await") \/ Goto(e, "unwatched", "verdict")
  /\ done' = [done EXCEPT ![e] = TRUE]
  /\ UNCHANGED <<lock, mode, child, exit, exc, owned, row, allPass, suiteFile,
                 status, stopRc, report, dockerVars, watch, trip, faultVars>>

\* Mutant: no terminate() after the wait timed out.
AwaitWatchBriefly(e) ==
  /\ Goto(e, "await", "verdict")
  /\ UNCHANGED <<lock, mode, child, exit, exc, owned, row, allPass, suiteFile,
                 status, stopRc, report, dockerVars, watchVars, faultVars>>

\* watch.wait(45) returns once the watchdog is gone; on its timeout the watchdog
\* is terminated wherever it is, and the second wait(5) may raise.
AwaitWatch(e) ==
  \/ /\ Goto(e, "await", "verdict")
     /\ watch' = [watch EXCEPT ![e] = IF @ \in Alive THEN "gone" ELSE @]
     /\ UNCHANGED <<lock, mode, child, exit, exc, owned, row, allPass, suiteFile,
                    status, stopRc, report, dockerVars, trip, done, faultVars>>
  \/ /\ pc[e] = "await"
     /\ watch[e] \in Alive
     /\ Raise(e)
     /\ UNCHANGED <<dockerVars, watchVars>>

\* Mutant: the verdict looks at the stop, not at the trip file.
VerdictIgnoresTrip(e) ==
  LET failed == stopRc[e] # "zero" IN
  /\ Goto(e, "verdict", "leave")
  /\ status' = [status EXCEPT ![e] = IF failed THEN "fail" ELSE @]
  /\ report' = [report EXCEPT ![e] = IF failed THEN "fail" ELSE status[e]]
  /\ UNCHANGED <<lock, mode, child, exit, exc, owned, row, allPass, suiteFile,
                 stopRc, dockerVars, watchVars, faultVars>>

\* A trip or an unclean stop overrides the suites' verdict; then it is written.
Verdict(e) ==
  LET failed == trip[e] \/ stopRc[e] # "zero" IN
  /\ Goto(e, "verdict", "leave")
  /\ status' = [status EXCEPT ![e] = IF failed THEN "fail" ELSE @]
  /\ report' = [report EXCEPT ![e] = IF failed THEN "fail" ELSE status[e]]
  /\ UNCHANGED <<lock, mode, child, exit, exc, owned, row, allPass, suiteFile,
                 stopRc, dockerVars, watchVars, faultVars>>

-----------------------------------------------------------------------------
(* What a bounded() child does, whether or not someone still waits for it *)

\* A benchmark process exits.  It can only report success if it found a server.
SuiteEnds(e, how) ==
  /\ child[e] = "suite"
  /\ how = "ok" => server = "running"
  /\ child' = [child EXCEPT ![e] = how]
  /\ UNCHANGED <<lock, mode, exit, ctlVars, dockerVars, watchVars, faultVars>>

\* bench_qsa_kernels.sh: docker rm -f of whatever container has the check's name,
KernelRemoves(e) ==
  /\ child[e] = "kernel" /\ kernel # "none"
  /\ kernel' = "none" /\ checker' = NoOne
  /\ UNCHANGED <<lock, mode, child, exit, ctlVars, serverVars, watchVars, faultVars>>

\* docker run --rm of its own,
KernelRuns(e) ==
  /\ child[e] = "kernel" /\ kernel = "none"
  /\ kernel' = "starting" /\ checker' = e
  /\ child' = [child EXCEPT ![e] = "check"]
  /\ UNCHANGED <<lock, mode, exit, ctlVars, serverVars, watchVars, faultVars>>

\* which only succeeds once that container is gone; a lost docker client may fail before.
KernelEnds(e) ==
  /\ \/ child[e] = "check" /\ checker # e /\ child' = [child EXCEPT ![e] = "ok"]
     \/ child[e] \in {"kernel", "check"} /\ child' = [child EXCEPT ![e] = "bad"]
  /\ UNCHANGED <<lock, mode, exit, ctlVars, dockerVars, watchVars, faultVars>>

\* serve.sh: docker rm -f removes whatever container holds the name ...
ServeRemoves(e) ==
  /\ child[e] = "serve"
  /\ server # "absent"
  /\ server' = "absent"
  /\ launcher' = NoOne
  /\ UNCHANGED <<lock, mode, child, exit, ctlVars, kernelVars, watchVars, faultVars>>

\* ... and docker run -d creates the new one; the name must be free.
ServeLaunches(e) ==
  /\ child[e] = "serve"
  /\ server = "absent"
  /\ server' = "starting"
  /\ launcher' = e
  /\ child' = [child EXCEPT ![e] = "ok"]
  /\ UNCHANGED <<lock, mode, exit, ctlVars, kernelVars, watchVars, faultVars>>

ServeFails(e) ==
  /\ child[e] = "serve"
  /\ child' = [child EXCEPT ![e] = "bad"]
  /\ UNCHANGED <<lock, mode, exit, ctlVars, dockerVars, watchVars, faultVars>>

Child(e) ==
  \/ \E how \in {"ok", "bad"} : SuiteEnds(e, how)
  \/ KernelRemoves(e) \/ KernelRuns(e) \/ KernelEnds(e)
  \/ ServeRemoves(e) \/ ServeLaunches(e) \/ ServeFails(e)

-----------------------------------------------------------------------------
(* The watchdog process (its policy is module MemWatch) *)

\* The policy asks to stop: the trip file comes first ...
WatchTrip(e) ==
  /\ watch[e] = "on"
  /\ watch' = [watch EXCEPT ![e] = "tripped"]
  /\ trip' = [trip EXCEPT ![e] = TRUE]
  /\ UNCHANGED <<lock, mode, child, exit, ctlVars, dockerVars, done, faultVars>>

\* ... then docker logs, then docker stop of whatever container has the name.
\* Either command may time out, which ends the watchdog with the server untouched.
WatchStops(e) ==
  /\ watch[e] = "tripped"
  /\ watch' = [watch EXCEPT ![e] = "gone"]
  /\ server' \in {server, Stopped}
  /\ UNCHANGED <<lock, mode, child, exit, ctlVars, launcher, kernelVars, trip, done,
                 faultVars>>

\* The loop condition: the done file exists.
WatchDone(e) ==
  /\ watch[e] = "on"
  /\ done[e]
  /\ watch' = [watch EXCEPT ![e] = "gone"]
  /\ UNCHANGED <<lock, mode, child, exit, ctlVars, dockerVars, trip, done, faultVars>>

\* journalctl's 5 s timeout, an unreadable /proc/meminfo, a full disk: the process
\* ends with a traceback.
WatchLost(e) ==
  /\ watch[e] = "on"
  /\ watch' = [watch EXCEPT ![e] = "gone"]
  /\ UNCHANGED <<lock, mode, child, exit, ctlVars, dockerVars, trip, done, faultVars>>

Watchdog(e) == WatchTrip(e) \/ WatchStops(e) \/ WatchDone(e) \/ WatchLost(e)

-----------------------------------------------------------------------------
(* Faults and the outside world *)

ServerDies ==
  /\ server \in Up
  /\ server' = "exited"
  /\ UNCHANGED <<lock, mode, child, exit, ctlVars, launcher, kernelVars, watchVars,
                 faultVars>>

\* The first process of a container opens the GPU.
ServerLoads ==
  /\ server = "starting" /\ server' = "running"
  /\ UNCHANGED <<lock, mode, child, exit, ctlVars, launcher, kernelVars, watchVars,
                 faultVars>>

KernelLoads ==
  /\ kernel = "starting" /\ kernel' = "running"
  /\ UNCHANGED <<lock, mode, child, exit, ctlVars, serverVars, checker, watchVars,
                 faultVars>>

\* The kernel check's container comes to its end, also without a docker client.
KernelDies ==
  /\ kernel # "none"
  /\ kernel' = "none" /\ checker' = NoOne
  /\ UNCHANGED <<lock, mode, child, exit, ctlVars, serverVars, watchVars, faultVars>>

World == ServerDies \/ ServerLoads \/ KernelLoads \/ KernelDies

\* Between a Popen and the code that looks after its process, or in bounded()'s own
\* finally before it has killed the child, a signal leaves the process running in a
\* session of its own.
Escapes(e) ==
  \/ pc[e] \in Waiting /\ child[e] \in Working /\ UNCHANGED watch
  \/ pc[e] = "spawn" /\ watch' = [watch EXCEPT ![e] = "on"]

\* SIGTERM or Ctrl-C becomes KeyboardInterrupt at whatever statement runs.  A
\* docker stop under way is abandoned with its effect unknown.
Interrupt(e) ==
  /\ pc[e] \notin {"idle", "leave", "exited"}
  /\ interrupts < MaxInterrupts
  /\ interrupts' = interrupts + 1
  /\ Unwind(e, "interrupt")
  /\ \/ child' = Reaped(e) /\ UNCHANGED <<watch, strays>>
     \/ Escapes(e) /\ UNCHANGED child /\ strays' = strays \cup {e}
  /\ IF pc[e] \in {"stopPrior", "stop"} THEN server' \in {server, Stopped}
     ELSE UNCHANGED server
  /\ UNCHANGED <<lock, mode, exit, launcher, kernelVars, trip, done, kills, unseen>>

\* SIGKILL (the OOM killer): no handler runs, the flock goes, and both the child
\* and the watchdog, in sessions of their own, live on.
Kill(e) ==
  /\ pc[e] \notin {"idle", "exited"}
  /\ kills < MaxKills
  /\ kills' = kills + 1
  /\ pc' = [pc EXCEPT ![e] = "exited"]
  /\ exit' = [exit EXCEPT ![e] = "killed"]
  /\ lock' = NoOne
  /\ strays' = IF child[e] \in Working THEN strays \cup {e} ELSE strays
  /\ UNCHANGED <<mode, child, exc, owned, row, allPass, suiteFile, status, stopRc,
                 report, dockerVars, watchVars, interrupts, unseen>>

-----------------------------------------------------------------------------
\* The statements of the controller that wait for nothing but a bounded call.
Step(e) ==
  \/ Preflight(e) \/ StopPrior(e) \/ CheckIdle(e) \/ SpawnWatch(e) \/ Own(e)
  \/ StartKernelCheck(e) \/ StartServe(e) \/ StartTask(e) \/ NoSuites(e) \/ ScriptDone(e)
  \/ GuardAbort(e) \/ Launched(e) \/ BootDead(e) \/ BootFacts(e)
  \/ TaskRow(e) \/ SuitesEnd(e) \/ PostChecks(e) \/ SaveLogs(e) \/ StopServer(e)
  \/ TouchDone(e) \/ AwaitWatch(e) \/ Verdict(e) \/ Leave(e)

Next ==
  \/ \E e \in Exp :
       \/ \E m \in {"run", "suite"} : Acquire(e, m) \/ RefuseProfile(e, m)
       \/ Refuse(e) \/ Step(e) \/ BootReady(e) \/ Deadline(e)
       \/ Child(e) \/ Watchdog(e)
       \/ Interrupt(e) \/ Kill(e)
  \/ World

Spec == Init /\ [][Next]_vars

\* The controller is one thread, and every call in Step returns or times out.
\* Nothing is assumed of a child, of the server, of docker or of a deadline (the
\* longest is a day).
FairSpec == Spec /\ \A e \in Exp : WF_vars(Step(e))

-----------------------------------------------------------------------------
(* What must be true of every state *)

\* A passing experiment_status.json is earned: every suite passed, the watchdog
\* never tripped (not even between the last guard check and the verdict), the
\* server was stopped and is not up again.
VerdictEarned ==
  \A e \in Exp : report[e] = "pass" =>
    /\ suiteFile[e] = "pass"
    /\ allPass[e]
    /\ ~trip[e]
    /\ stopRc[e] = "zero"
    /\ ~Serving(e)

\* An exit code of zero from run_config.sh leaves nothing running: no server, no
\* benchmark, no watchdog that could stop a later experiment's container.
PassLeavesNothing ==
  \A e \in Exp : exit[e] = "zero" /\ mode[e] = "run" =>
    /\ ~Serving(e)
    /\ child[e] \notin Working
    /\ watch[e] \notin Alive

\* The watchdog is dismissed only after the server it guards has been stopped, or
\* after docker stop has answered with a failure that the verdict will report; unless a
\* signal made serve.sh a stray, which may still launch (experiment.py:28-31, 40-46, 484).
DismissedAfterStop ==
  \A e \in Exp : done[e] /\ Serving(e) => stopRc[e] = "nonzero" \/ e \in strays

\* The suites of a run measure the server that run launched, never one that was left
\* over or that another invocation started (as long as there is no stray: a stray
\* serve.sh may still replace the container).
OwnServerMeasured ==
  strays = {} => \A e \in Exp :
    mode[e] = "run" /\ child[e] = "suite" /\ server \in Up => launcher = e

\* The isolated kernel check and the server never share the GPU, although an aborted
\* kernel check leaves its container behind: the next run refuses to launch beside it,
\* unless it looked before that container had opened the GPU (experiment.py:341-343).
GpuExclusive ==
  strays = {} /\ ~unseen => ~(server \in Up /\ kernel # "none")

\* Two invocations never load a server at the same time: whatever error, deadline or
\* failing guard ends one, its benchmark is gone before the lock is free.  Only a signal
\* can leave a benchmark behind: SIGKILL, or one that escapes bounded()'s try.
LoneBenchmark ==
  \A e, f \in Exp : e # f /\ child[e] = "suite" /\ child[f] = "suite" =>
    e \in strays \/ f \in strays

-----------------------------------------------------------------------------
(* What a step may never do *)

\* Once the verdict is written, no watchdog is left that could still trip: the
\* trip file the verdict consulted is final.  A watchdog whose Popen a signal cut short
\* is known to nobody and not waited for (experiment.py:362, 485).
TripFileFinal ==
  [][\A e \in Exp : report[e] # "none" /\ e \notin strays => trip'[e] = trip[e]]_vars

-----------------------------------------------------------------------------
(* What must eventually happen *)

\* A tripped or lost watchdog ends the try body even if no deadline ever expires
\* and the benchmark never returns.
GuardStops ==
  \A e \in Exp :
    pc[e] \in Body /\ mode[e] = "run" /\ (trip[e] \/ watch[e] = "gone")
    ~> pc[e] \notin Body

\* With its deadlines, every invocation that takes the lock ends, whatever the
\* server, the benchmarks and docker do; so the lock is always given back.
EveryRunEnds ==
  (\A e \in Exp : WF_vars(Deadline(e))) =>
    \A e \in Exp : (lock = e) ~> (pc[e] = "exited" /\ lock # e)
=============================================================================
