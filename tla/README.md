# TLA+ models of the Qwen3.8-Flash-Next recipe

These modules model the parts of the repository that decide what runs on the
machine, when, and on which data: the preparation of the image's sources, the
experiment controller, its memory watchdog, the 48 GiB PLE table that survives
restarts, the snapshot builder, the attention kernels' schedule, the load
generators that measure a server, and the proxy in front of it. TLC checks them on small
instances; TLAPS proves the safety properties for all values of the
constants. Paths are relative to the repository root; `PROJECT.json` maps every
definition to the lines it models.

    tlc -workers 2 -config MCExperiment.cfg MCExperiment.tla
    tlapm ExperimentProofs.tla

The theorems about a module are in the module with its name and `Proofs`; those about
`Prepare` and `HostProxy`, both single scripts of their own, are in `ScriptProofs`.

## The system

| part | state | operations | how it interacts |
| --- | --- | --- | --- |
| experiment controller, `scripts/experiment.py` (`run_config.sh`, `bench_fast.sh`) | `results/.bench.lock`, `results/TAG/*.json`, locals of `run` and `suites`, a child process group, the watchdog process | take the lock; preflight; start watchdog, kernel check, server; boot loop; suites; the `finally` block; verdict | starts and kills children, talks to the watchdog through `watch.done` and `watch.trip.json`, to docker by container name |
| server launch, `scripts/serve.sh`, `stop.sh` | the one named container | `docker rm -f`, `docker run`, `docker stop` | a child of the controller, or run by hand |
| memory watchdog, `scripts/memwatch.py` | `Policy` (swap baseline, sustain timer), the journal cursor | sample, query journalctl, decide, trip, stop the container | reads `done`, writes `trip`, stops the container |
| PLE table, `patches/ple_file_compat.py`, `ple_mmap.py`, `ple_reuse.py`, `scripts/inventory.py` | files under `PLE_DIR`, `results/ple-identities` | choose and create the file, compare and copy shards, sample the identity, bind path and directory | survives the server; shared by experiments and by-hand boots |
| benchmark clients, `bench/*.py` | their report, threads and events (`longsoak`, `mixedload`, `streams`) | requests, measurements | HTTP to the server; their JSON is what `validate` reads |
| `scripts/host_proxy.py` | two sockets and two threads per connection | pump, half-close | forwards an agent's requests |
| preparation, `scripts/prepare.sh` and the patches it applies | `build/`, the overlay's marker, the checkpoint | extract, patch, check, download | `serve.sh` mounts `build/` over the image's files |
| snapshot builder, `scripts/build_fp8_hybrid_snapshot.py` | a directory of links and rewritten shards | link, convert, write the JSON files | shares the source's files through the links |
| attention, `patches/kda_kernels`, `qsa_sm121_varlen.py`, `qsa_sm121_kda.py` | scratch and arrival counters per device | one launch per decode step and layer | serving mounts the Triton route; the KDA route is run by `bench_qsa_kernels.sh` for comparison |
| other serving patches, `replayssm_ple_commit.py`, `draft_mtp_files.py` | the engine's n-gram history, the files it reads | one call per verify or load | applied by `prepare.sh` as text edits of the engine |
| vocabulary tools, `scripts/build_draft_vocab.py`, `slice_draft_vocab.py` | files | sequential conversions | their output is mounted into the server |

What is hard here: every process can outlive or predecease another (controller,
watchdog, benchmark, server, docker commands); any docker command can fail or time out, also
in the `finally` block; signals raise at any statement; journal windows, samples
and deadlines race the events they are about; a file of 48 GiB is filled in
place, page by page, and trusted afterwards from samples; `build/` and a snapshot
directory are rewritten in place by scripts that may be killed anywhere and run again with
other options; programs of a kernel meet at one atomic counter that the next launch uses
again; threads wait for each other's events, sockets and timeouts.

What makes each part correct: a verdict `pass` is earned and final, nothing is left behind
by a run that exits 0, at most one invocation loads the GPU, a running server is
guarded (controller); no event is missed, no trip without cause, bounded reaction
(watchdog); the table served is the checkpoint's, as far as its samples can tell, and
an experiment uses the table it validated (PLE); what a sample reports of the server is
true of the server (soak); the prefill of a run that has been ok so far met only its own repeat's streams (mixed
load); a completed `prepare.sh` leaves what a first one would (preparation); the source
snapshot stays as it is (builder); every key is attended once (kernels); nothing sent is lost by
a half-close, and the end of either party is passed on, to the server as a half-close (proxy). `PROJECT.json` lists the
hazards behind these at their source lines.

## Modules

### Experiment

`Experiment.tla` has one process per invocation of `experiment.py` (`Exp`), each in
mode `run` or `suite`. `pc` follows `main`, `run` and `suites`; the
states inside the `try` are `Body`, those of the `finally` block `Closing`.

* Controller actions are the statements in order: `Acquire`/`Refuse`/`RefuseProfile`, `Preflight`,
  `StopPrior`, `CheckIdle`, `SpawnWatch`, `Own`, `StartKernelCheck`, `StartServe`,
  `Launched` (the first `effective`), `BootReady`/`BootDead`, `BootFacts`,
  `StartTask`/`TaskRow`/`SuitesEnd` (`NoSuites`: no list of suites can be made), `PostChecks`, then `SaveLogs`, `StopServer`,
  `TouchDone`, `AwaitWatch`, `Verdict`, `Leave`. Each one that calls a command has a
  raising branch, `Raise`, which goes to the handler Python would reach (`Handler`).
* `bounded()` is `Start` (`Popen`), `ScriptDone`/`TaskRow` (exit), `GuardAbort` and
  `Deadline`. Leaving its `try` by an exception kills the child (`Reaped`).
* The child (`Child`) is `serve.sh` or the kernel check with their `docker rm -f` and
  `docker run` as separate steps, or a suite whose report passes or not.
* A container is `starting` until one of its processes has opened the GPU (`ServerLoads`,
  `KernelLoads`); only from then on does the `nvidia-smi` of `CheckIdle` list it.
* The watchdog (`Watchdog`) trips, stops the container, sees `done`, or is lost.
* `Interrupt` is SIGTERM, raised as `KeyboardInterrupt` at any state. Where it falls
  between a `Popen` and the `try` behind it (experiment.py:28-30, 354-363), or inside
  `bounded()`'s own `finally` (40-46), it leaves the process running in a session of its own
  (`Escapes`). `Kill` is SIGKILL: the lock is freed, child and watchdog live on.
* `strays` are the invocations that have left a process behind in either way, `unseen` that a run
  passed the idle check beside a kernel-check container that had not opened the GPU. No action reads
  them; they are the exceptions of the properties. `LoneBenchmark` excepts pairs with a stray,
  `DismissedAfterStop` and `TripFileFinal` the stray's own invocation, `OwnServerMeasured` and
  `GpuExclusive` histories with any stray, because a stray `serve.sh` replaces whatever
  container has the name. `VerdictEarned` and `PassLeavesNothing` have no exception.

| run | question |
| --- | --- |
| `experiment` | two invocations, one SIGTERM, one SIGKILL, one suite each; all safety properties. Two invocations are what it takes for one to disturb another; a third adds no kind of interference because the lock and the containers are the only shared objects. States that differ only in what an ended invocation had in its locals count as one (`Seen`): no action and no property of the run reads them. |
| `experiment_live` | one invocation, two suites, `GuardStops` and `EveryRunEnds`. |

Fairness: `FairSpec` assumes weak fairness of `Step(e)`, the controller's own thread,
and nothing of servers, benchmarks, watchdog or users. `BootReady` and `Deadline` are not in
`Step`. `EveryRunEnds` states the assumption on deadlines in the formula: the
code compares the clock in every turn of each waiting loop. `GuardStops` needs no
deadline. Every other blocking call of the controller has a timeout argument, which
is why its step may be assumed to happen.

### MemWatch

`MemWatch.tla` is `memwatch.py` with a clock. `Sample`, `Query`, `Return`, `Decide`,
`WakeUp`, `Shutdown`, `Finish` and `Lose` are the statements of the loop; reading the
journal and returning from `journalctl` are two actions, so messages can be logged
in between. `Xid`, `Alloc`, `MemoryLow`, `Bad` and `Timer` are `nvidia_signals` and
`Policy.check`. `Tick`, `MemChange` and `KernelLogs` are the world. Four history
variables record what the properties speak about and no action reads them.

* The thresholds are positive, as `main` demands (`ThresholdAssumption`).
* Statements take no time. A `journalctl` call takes at most `QueryMax` (its
  timeout; `Lose` is the exception after it), a sleep at most `MaxLag` too long.
* One clock stands for `time.time()` and `time.monotonic()`; a step of the wall clock
  is not modelled.
* The run `memwatch` uses units of five seconds: sustain 3, interval 1, query 1, up
  to time 9: one whole sustain period with the cycles before and after it. Two messages
  suffice for the repeated or mixed signals that share the timer, one change of memory
  for the start or the end of a shortage.
* `WatchdogPromise` is what the controller relies on: the trip file is written once, before any
  `docker stop`, and nothing but the stop and the end of the process follows it. `Dog` maps the
  statements of the loop to it; `Reported` says that `MemWatch` implements it, and the theorem
  `WatchdogGranted` that `Experiment` allows its watchdogs no less. What is proved of
  `Experiment` therefore does not rest on a watchdog tamer than the program.
* The run `memwatch_xid_blind` shows an Xid that a failed `journalctl` call
  swallows.

### PleTable

`PleTable.tla` follows a PLE directory through boots. `size` and `page` are its files (of
the recipe's name, the engine's own, and a third one) as processes see them, `disk`
what a host crash leaves; `registry` is `results/ple-identities`. A shard is a set of
windows and `Content` gives each checkpoint's bytes, so that checkpoints may differ
anywhere. An experiment goes through `Identify`, `BindPath`, `BindDir`; `ManualBoot`
is `serve.sh` alone. Both go on to `Alloc`, `CheckShard` and `CopyWindow` (the windows
of a shard are written in any order), `Loaded`. `Stop`, `TearRecord`, `Writeback` and
`HostCrash` can come at any point.

* Checker and engine choose their file by two rules. `Backing` is `ple_identity`'s: the recipe's
  name, else the only `*.bin` of the right size, whatever its name, and a refusal if there are several.
  `Mapped` is the engine's: the recipe's name, else its own. `IdentityIsMapped` says when the two agree, and what
  is served when they cannot: a table built in this boot, of which it claims that its bytes
  are right if the samples tell the checkpoints apart (`Distinguishable`).
* A refused `ple_identity` changes nothing and is no step. A record torn by a kill
  cannot be parsed, so it refuses every later experiment.
* `ServerReuse` is `TRUE`, whatever `reuse` says: `serve.sh` passes no `SGLANG_QWEN4_PLE_REUSE`.
* The run `ple_table`: two checkpoints, two shards of three windows of which one is
  never sampled, three boots (build, another checkpoint, back again), one fault. The two
  checkpoints are symmetric.

### LongSoak

`LongSoak.tla` is `bench/longsoak.py`: the workers, `Busy`, and the main thread with
`sample`. `agentic_worker` and `mix_worker` differ only in what they send and are the
set `Plain`; `prefix_worker` is `Prefix`, whose turn has two requests (`leg`).

* `Busy.__enter__` is two actions, `Gate` (the pause is read) and `Count` (under the
  lock), because nothing in the code makes them one. `Send`, `Answered`, `Closed` (the
  client closes its socket on purpose) and `Failed` are a request; each of the last three
  includes `Busy.__exit__`. `Tally` is what follows the `with`.
* The sampler's statements are `Pause`, `Drain` (it may also give up after 600 s), `Row`,
  `Metrics` and `Zombie` (A4), `Hit`, `Flush` and `Miss` (A3), `Probe` (A2), and `Resume`.
  `SampleError` is its `except`, `Interrupt` anything that reaches `main`'s `finally`:
  `StopAll`, `Join`, `Final`.
* The server is external: it runs requests (`active`), may go on with one whose client has
  gone (`zombies`, until `Reap`), refuses to flush while it runs any, and evicts the
  prefix under load. A prefill cut short may leave the cached prefix bad, which is the
  bug A3 looks for. The A3 question has several `Valid` answers, any of which may come
  from any cache, hit or miss: greedy decoding is not deterministic here (docs/BENCHMARKS.md:484-488).
  `Wrong` only comes from a bad one.
* `noisy` records that some row began with a request in flight (the drain timed out) or
  with a worker between `Gate` and `Count`; `exposed` and `leaked` what the server did, `said` which valid
  answers the question has got (`exposed` and `said` until the run is noisy). No
  action reads them. The three detector properties are stated for runs that are not
  `noisy`. The other case is real: a worker between `Gate` and `Count` sends its request
  while a row that says `drained` is measured.
* `AlarmHasCause` says what is behind an A3 alarm: a question to a corrupted prefix, or two valid
  answers to the one question. The detectors cannot tell these apart, so an alarm by itself is no evidence of
  corruption; the property excludes evictions, refused flushes, lost requests and a missing reference.
* The totals (`counters`) other than the two that the A3 detectors raise, the statistics
  of the server's log and the decay rule of `write` are left out; `row["drained"]` is kept.

The run `longsoak` has one worker of each kind and two samples: the reference is taken in
one and used in the other, and the pairs of a worker with the sampler and of the two
workers over one cache are all the interactions there are. One disconnected
request is enough to block a flush and to be seen as a zombie.

### QsaAttention and QsaSplit

`QsaAttention.tla` is what a decode attention call promises: every output row is written
once, from exactly the selected keys of its sequence and head. `QsaSplit.tla` is how the two kernels do it, and
the choice between them (`CanUse`).

* The programs of a launch are a function `pc`; `Scan`, `Arrive`, `Merge` and `Reset` are
  the memory accesses of the KDA kernel by which programs can disturb each other (the
  store of the partial result, the atomic add, the merge of the last arrival, the atomic exchange).
  `Alone` is a row that is not split, `Varlen` a program of the Triton fallback.
* A partial sum is the set of key rows in it, with the number of the call that made it, so a row
  counted twice, left out, or taken from an earlier call shows. Floating point is not modelled.
* `NSplits`, `TileLo`, `KvStart` and `KvStop` are the kernel's index arithmetic.
* The refinement is `Attention`, `A!Spec` of `A == INSTANCE QsaAttention WITH ...`: `call`, `tag`
  and `out` are seen as they are; `pc`, `partial` and `counter` are hidden. A step that stores a row is
  `Attend`, one that starts a call is `Call`, and every other one is a stutter.
* `Contract` is what the fallback's wrapper raises on otherwise; the shapes satisfy it.
* The run `qsa` makes two calls of several shapes: sequences shorter than a tile, of an
  odd number of tiles, empty ones, two sequences of different lengths, with 1 to 8 splits. Thresholds and
  blocks are scaled down in proportion. A second call is what a counter or a partial
  result left behind could harm.

### MixedLoad

`MixedLoad.tla` is `bench/mixedload.py`. The main thread goes through `Size`, `Start`,
`First` (the wait for a first token), `Check`, `Send`, `Answer`, `Drain`, `Judge` and
`Report`; `Raise` is an exception that leaves `main`. A stream's thread is `Delta`
(sets its event), `End`, `Wake` (sets the event of one that never had a token) and `Done`.

* `alongside` records which streams ran when the prefill reached the server. No action
  reads it.
* `LiveSpec` assumes weak fairness of the main thread only: each of its waits has
  a timeout, its own completions a deadline by `SIGALRM`, and `Size`'s `/tokenize` (mixedload.py:115) a
  timeout for each read, so that it is assumed not to trickle. Nothing is assumed of streams, whose
  deadline does not work outside the main thread (`client.py:40`).
* `NoLeftover` is about a run that has been ok so far: the streams that a failed repeat leaves may
  run beside the next one, which can be judged ok itself; the exit code is then not 0.
* The run `mixedload` has a warm-up, two repeats and two streams: a stream left by a failed
  repeat can meet the next one and the one after it.

### HybridSnapshot

`HybridSnapshot.tla` is `build_fp8_hybrid_snapshot.py` run any number of times, in both
modes and into several directories. A write is `Truncate` then `Fill`, because `open` cuts
the file before the data come; both go through a link if there is one. `Crash` comes anywhere.

* The run `hybrid_snapshot` has one directory for each mode (`OneMode`): the source stays
  untouched and a finished run has the bytes its configuration describes.
* The run `hybrid_shared` gives both modes one directory, as the docstring's two commands
  do: the shards that the first run linked are overwritten in the source by the second.

### Prepare

`Prepare.tla` is `scripts/prepare.sh` as a script: `Script` lists its lines that change
anything, `pc` is the line. `Extract`, `Copy`, `Remove`, `Probe`, `Table`, `Patch`, `Unmark`,
`Mark`, `Check` and `Fetch` are the kinds of lines, `Skip` is an `if` not taken, and
`set -e` ends the run where a patch refuses (`Refuses`) or an assertion fails.

* A file is the image it came from and the marks that the patches look for or leave; each
  patch is an operator on marks (`Mmap`, `Reuse`, `DropSdpa`, `Triton`, `Filter`, `Clamp`,
  `Compat`). Of `spec_utils.py` the marks are the returns with a roll in front of them, and
  `Rolls` is `patch_gdn_branches` on the lines of the function.
* `misfits` are the patches and files of an image where the text to replace is not there
  exactly once: such an image is refused. Whether a patch fits is up to the image, not to
  the patches before it.
* `Kill` comes at any line, with the file of that line possibly torn. A docker that fails in the import
  test of the table module is an image without one, as in the script.
* `Converges`: a run that completes leaves the build of its own image and option. `ImageDecides`: a
  run is refused only if the image would be in an empty `build/`, and completes only if it would not
  (`Accepts`). Of the script's assertions, `Asserted` leaves out those that depend on the image only
  (prepare.sh:110-126, 135-136, 148-150), and `Roll` an image that already defines
  `_update_ple_state_after_mtp_verify`: the patch leaves it as it is (replayssm_ple_commit.py:151-153) and
  prepare.sh:144 refuses it. `GdnRolls` is about images in which every commit is in a branch of its
  kernel's own (`Branched`); one that commits with the GDN kernel and then with the KDA kernel before
  it returns would get no roll, and nothing in the script refuses it. It says nothing of a roll in front of other returns, and
  takes a line that only names the commit function for a commit, as the patch does.
* The run `prepare`: three runs of the script, for an image with the pinned table, one
  with the bundled KDA route, one like today's, and a later one which the diff of the overlay and the patch of
  the table's name do not fit any more, each with and without the overlay. Two killed
  runs before a whole one are the least that can leave a marker of one and the files of another.

### HostProxy

`HostProxy.tla` is one connection of `scripts/host_proxy.py`: a pump for each direction
(`Receive`, `SeeEnd`, `Pass`, `PassInVain`, `Finally`, and `CutOff` by the handler's close), the handler
(`Connect`, `Refuse`, `Pumped`, `Close`) and the two parties (`Send`, `HalfClose`, `Leave`).
`told` says who sees the end of the stream.

* `NothingLost` excepts resets, and the rest of a request after the server has ended its
  answer: the code gives it 5 s. A reset of the server reaches the agent as an ordinary
  end.
* `LiveSpec` assumes that the threads run and that a party reads what is sent to it or
  goes; without the second, `sendall` blocks for ever, since the sockets have no timeout. Nothing
  says that a party ends its stream, and nothing wakes a `recv` on a socket that another thread closes
  (`CutOff` is not fair): a daemon thread may outlive its handler until the agent closes.
* The run `host_proxy` sends two pieces each way, enough to have one held by a pump while
  another waits.

## What is proved

The eight `*Proofs` modules hold, for every value of the
constants that satisfies their `ASSUME`s (sets of any size, any bounds, any thresholds):

| theorem | argument |
| --- | --- |
| `TypeCorrect` (seven modules), `PrepareTypeCorrect`, `ProxyTypeCorrect` | inductive by itself except in `HostProxy` and `QsaSplit`, where it needs the counts and the arithmetic of the invariant, and in `Prepare`, where that the rolls are in front of returns needs to know of which image `spec_utils.py` is; for `LongSoak` it contains that `inflight[0]` is the cardinality of the set of workers inside `Busy`, which rests on the library's facts about finite sets |
| `LoneBenchmarkHolds` | `Places`: the lock is held by the one invocation between `Acquire` and its end, a live child is a controller's inside `bounded()` or a stray, and a stray's invocation is in its `finally` block or has ended. Without the part about strays it is not inductive: nobody holds the lock for them. |
| `VerdictEarnedHolds`, `PassLeavesNothingHolds`, `TripFileFinalHolds` | `Outcome`: what status, stop code and watchdog can be at each point of the `finally` block. `VerdictEarned` alone says nothing before the report exists. |
| `DismissedAfterStopHolds` | `Dismissal`: `done` exists only after `touch`, which a run that owns a server reaches only through `stop`; a `serve.sh` that could still launch then is a stray. |
| `GpuExclusiveHolds`, `OwnServerMeasuredHolds` | `Gpu`, as long as there is no stray (for the first, nor a run that looked too early): which container may exist in which phase; it rests on `Places` for "no other controller is past the lock". |
| `JournalCursorHolds` | `Journal`: at each statement, the messages before the window are accounted for. |
| `NoHastyTripHolds` | the timer is never set before the last good decision. |
| `XidDeadlineHolds`, `LowMemoryStopsHolds` | `Pace`: how far the clock can be from `now` at each statement, for any `QueryMax` and `MaxLag`, together with what the sample and the window of this cycle contain. |
| `ExperimentBoundHolds`, `IdentityIsMappedHolds` | `Admitted`: what `ple_identity` and `bind_identity` saw is still true at every later point of the boot, because nothing else resizes the files. If the file has a third name, `Fresh`: the one that the engine created in its place is a hole in the shards not reached and right in those passed. |
| `ServedAsCheckedHolds` | `Progress`: every shard the loader has passed is right up to the windows still to be copied, or agrees in its samples. |
| `UndisturbedRightHolds` | `WholeShards`: without a fault every shard is a hole, wholly one checkpoint's, or under copy, on top of `Progress`. A step that stops a boot inside a copy is a fault by definition. |
| `PauseMeasuresHolds` | `Events`: where `paused` and `stop` may be set. |
| `ZombieIsRealHolds` | `Quiet`: a measurement that began with no worker past the gate stays without one, because `paused` is set (`Events`) and the count was zero (`TypeCorrect`). |
| `ReferenceCleanHolds`, `AlarmHasCauseHolds` | `Emptied`: between a successful flush and the second answer nothing touches the cache (by `Quiet`); `Heard`: every wrong answer held anywhere came from a bad cache, every valid one has been `said`. |
| `CountersAreRestored`, `Implements` | `Inv` of `QsaSplit`: a counter is the number of programs of its row that have arrived, those that have arrived left this call's partial results, and the last one merges a partition of the keys. The lemmas about tiles show that the splits' ranges are a partition for any length, block and number of splits. `Implements` maps every step to a step of `QsaAttention` or a stutter. |
| `NothingIsLeft`, `PassIsMeasured` | `MixedLoad`: a row is ok only after all its streams had their tokens, so their threads no longer run anything on the server. |
| `SourceIsUntouched`, `FinishedRunsMatch` | `HybridSnapshot`, assuming `OneMode`: a shard that the mode rewrites is never a link in its directory, and what a run has still to write is what the directory lacks. |
| `OneShotToleratedHolds` | `QuietInv`: while memory is never short and the kernel has logged at most one message, the timer runs on account of that message only, and either the decision that started it was the last one or the message is already behind the window. So at most one decision follows it with the message in its window, less than a cycle later, and the next one is good and clears the timer. That there is at most one such message is taken from the library's facts about cardinality. The property is not inductive without the place of the message relative to `since` at each statement. |
| `ReportedHolds`, `WatchdogGranted` | `TripPlace`: once the file is written the loop is not re-entered. Each step of `MemWatch` is then a step of `WatchdogPromise` or a stutter; each step of `WatchdogPromise`, for the watchdog of one invocation, is a disjunct of `Watchdog(e)`. |
| `ConvergesHolds`, `ImageDecidesHolds`, `GdnRollsHolds` | `RunInv` of `ScriptProofs`: at every line, a file that this run has already made anew (`Maker` is the line that does) is `FileAt` that line, the result of the patches above it on the pristine file, whatever `build/` held before; and `Ask(n)` holds for each line `n` passed, where `Ask` is what the line demands of the image alone. For the last line the two give `Clean` and `Accepts`. They hold for any set of images, so `GdnRolls` is about every function whose branches are a kernel's own, not about four. |
| `NothingIsLost` | `HostProxy`: `Kept` (a pump holds or has passed on all it received for a party that is there) and `EndsAtEnd` (it stops at the end of the stream only), with `Telling` for who can have shown the end. |

Every invariant and every action property of a passing run is a theorem. Only model-checked: the liveness
properties `GuardStops`, `EveryRunEnds`, `RunEnds`, `EndPassedOn` and `HandlerEnds`, which are beyond the prover
(fairness and `ENABLED`). The type invariants of `Experiment`, `MemWatch`, `QsaSplit`, `MixedLoad` and `HostProxy` are
theorems and in no run. The violated properties are shown by TLC's traces.

## Known disagreements

Two runs show one each: `memwatch_xid_blind` and `hybrid_shared`. Others that were met
while modelling and that no run shows:

* `docker logs` that times out in the `finally` block of `experiment.py` (464) skips
  `docker stop`; docs/BENCHMARKS.md:11-12 promises that the server is stopped at the end,
  including a failed run. `DismissedAfterStop` says that the watchdog stays.
* "never leave an unguarded or known-old server serving unattended" (experiment.py:479-480): a signal at
  28-30 or 40-46 leaves `serve.sh` running; it may launch after `docker stop` and `done.touch`. A suite left
  in this way loads the server beside the next invocation.
* `nvidia-smi` (experiment.py:341) does not list a container that has not opened the GPU yet: a kernel
  check that a failing guard aborted early can meet the next run's server.
* A PLE file of a third name is accepted and sampled by `ple_identity` (inventory.py:68-74), which calls it
  "the engine's native name", while the engine (ple_file_compat.py:23-34) builds and serves another; the next
  experiment finds two files of the right size and refuses.
* longsoak.py:241 has documents "so greedy probes are confident", 341-342 call what the A3 detector compares
  the signature of sglang#38319, and 442 counts it as a failure. RESEARCH_LOG.md:2860-2870 records it firing
  on two valid tokens, "not corruption", and docs/BENCHMARKS.md:484-488 says that one greedy prompt in ten
  differs with a flushed cache.
* `result["status"]` is `pass` (437) before checks that can still raise; the report then says
  `pass` and the process exits 1.
* The fast path of `ple_reuse.py` compares samples: a table that differs elsewhere is
  served. `ServedAsChecked` says what is guaranteed.
* `bind_identity` (inventory.py:113) writes the path's record before it compares the directory's.
* README.md's `SGLANG_QWEN4_PLE_REUSE=0` is not passed into the container.
* `mixedload.py:140` tests that the decodes run before it sends the prefill; one may end in
  between and the row is still ok.
* `serve.sh:138` says that the indexer always carries the clamp; it tests that the file
  exists, which a killed `prepare.sh` also leaves unpatched.
* `rank_ids` (build_draft_vocab.py:172) counts one corpus id that it cuts off again when
  the special ids alone fill the size.

## Not modelled, and why

* Processes below the child: a descendant of a suite that outlives its group leader.
* GPU occupants that are not this recipe's (llama-swap reloading a model).
* Exceptions outside those the code catches around each call are folded into one
  `error`; the report of a suite is a Boolean: `validate` is a pure predicate.
* A by-hand boot between `ple_identity` and `serve.sh` of one experiment; two
  `prepare.sh` at once; a boot from a `build/` that a killed `prepare.sh` left.
* The in-RAM and the older mmap backends of the PLE table: the file backend of the
  current image is modelled, whose file handling they share.
* What the engine does with the roll of the PLE state, with the key filter and with the token map:
  its source is not in the repository.
* `build_draft_vocab.py`, `slice_draft_vocab.py`, `bench/streams.py` and the quality
  benchmarks: sequential functions of their input, or batches joined before anything is read.
* Floating-point results and model quality: out of reach of both
  tools; `patches/ple_slice_reuse.py`, `ple_pread_prefetch.py`,
  `presharded_skip_ple.py` and `qsa_trtllm_sm120.py` are applied by nothing.

## What could follow

* `Guarded`, an abstract specification of a guarded server (a server runs only while
  someone watches it or a failure is on record), and `Experiment` shown to implement it.
* `Prepare` composed with `serve.sh` and `PleTable`: which table backend a prepared build boots.
