------------------------------ MODULE LongSoak ------------------------------
(***************************************************************************)
(* bench/longsoak.py: three client threads load the server for hours while *)
(* the main thread, every SAMPLE_SECONDS, pauses them, waits until nothing *)
(* is in flight, and runs its detectors: requests the server still runs    *)
(* after a disconnect (A4), and a cached prefix that answers wrongly until *)
(* flush_cache (A3, sglang#38319).                                         *)
(*                                                                         *)
(* The server is external: it runs requests, keeps some of them running    *)
(* after the client has gone, refuses to flush while it runs any, and may  *)
(* have the A3 bug: an aborted prefill can corrupt the cached prefix.      *)
(***************************************************************************)
EXTENDS Integers, FiniteSets

CONSTANTS
  Plain,       \* agentic_worker and mix_worker threads
  Prefix,      \* the prefix_worker thread
  Valid,       \* the answers to the A3 question that an uncorrupted cache may lead to:
               \* greedy decoding does not always give the same one
  Wrong,       \* an answer that only a corrupted one leads to
  None,        \* Python's None
  MaxSamples,  \* bound: rows
  MaxZombies   \* bound: disconnected requests the server runs at once

Workers == Plain \cup {Prefix}

ASSUME WorkerAssumption == IsFiniteSet(Plain) /\ Prefix \notin Plain
ASSUME BoundAssumption  == MaxSamples \in Nat /\ MaxZombies \in Nat
ASSUME AnswerAssumption == Wrong \notin Valid /\ None \notin Valid \cup {Wrong}

VARIABLES
  pc,         \* where each worker is
  leg,        \* of prefix_worker: the "abort" or the "probe" request
  out,        \* the answer to its probe
  paused, stop,   \* the two Events
  inflight,   \* inflight[0]
  main,       \* where the main thread is
  rows,       \* len(rows)
  drained,    \* row["drained"]
  idleRunning,    \* row["idle_running_reqs"] > 0
  prefix,     \* state["prefix"] is set
  hit, flushed,   \* locals of sample, forgotten where they are last read
  reference,  \* state["reference"]
  fixed, drift    \* counters a3_fixed_by_flush, a3_probe_drift above zero

\* The server
VARIABLES
  active,     \* workers whose request it runs
  zombies,    \* requests it runs although their client has gone
  cache       \* the shared prefix in the radix cache: "none", "good", "bad"

\* History variables; no action reads them. What the answers were is recorded of an
\* undisturbed soak only: nothing is said of a noisy one.
VARIABLES
  noisy,      \* some row began undrained, or with a worker between Gate and Count
  exposed,    \* which questions got an answer from a bad cache: "hit", "probe"
  said,       \* the valid answers the A3 question has got
  leaked      \* some disconnected request kept running

workerVars == <<pc, leg, out, drift>>
eventVars  == <<paused, stop>>
sampleVars == <<rows, drained, idleRunning, hit, flushed, reference, fixed>>
serverVars == <<active, zombies, cache>>
histVars   == <<noisy, exposed, said, leaked>>
mainVars   == <<eventVars, main, sampleVars>>
vars == <<workerVars, inflight, mainVars, prefix, serverVars, histVars>>

Answer == Valid \cup {Wrong}

\* Inside `with Busy()': counted in, and not yet out.
Busy == {w \in Workers : pc[w] \in {"request", "served"}}

\* Between the drain and the end of sample's try.
Measuring == {"metrics", "zombie", "hit", "flush", "miss", "probe"}

Flags ==
  /\ drift \in BOOLEAN /\ paused \in BOOLEAN /\ stop \in BOOLEAN /\ prefix \in BOOLEAN
  /\ drained \in BOOLEAN /\ idleRunning \in BOOLEAN /\ flushed \in BOOLEAN
  /\ fixed \in BOOLEAN /\ noisy \in BOOLEAN /\ leaked \in BOOLEAN

Values ==
  /\ pc \in [Workers -> {"start", "loop", "gate", "count", "request", "served",
                         "tally", "rest", "ended"}]
  /\ main \in {"wait", "pause", "drain", "row", "resume", "stopping", "join", "final",
               "exited"} \cup Measuring
  /\ leg \in {"abort", "probe"}
  /\ {out, hit, reference} \subseteq Answer \cup {None}
  /\ cache \in {"none", "good", "bad"}
  /\ exposed \subseteq {"hit", "probe"} /\ said \subseteq Valid

\* A sample is only begun while there are rows to take.
Bounds ==
  /\ rows \in 0..MaxSamples /\ zombies \in 0..MaxZombies
  /\ main \in {"pause", "drain", "row", "resume"} \cup Measuring => rows < MaxSamples

\* inflight[0] is the number of workers between __enter__ and __exit__, and the server
\* runs requests of no other.
Counted == inflight = Cardinality(Busy) /\ active \subseteq Busy

TypeOK == Flags /\ Values /\ Bounds /\ Counted

Init ==
  /\ pc = [w \in Workers |-> IF w = Prefix THEN "start" ELSE "loop"]
  /\ leg = "abort" /\ out = None /\ drift = FALSE
  /\ paused = FALSE /\ stop = FALSE
  /\ inflight = 0
  /\ main = "wait"
  /\ rows = 0
  /\ drained = FALSE /\ idleRunning = FALSE /\ flushed = FALSE
  /\ hit = None /\ reference = None /\ fixed = FALSE
  /\ prefix = FALSE
  /\ active = {} /\ zombies = 0 /\ cache = "none"
  /\ noisy = FALSE /\ exposed = {} /\ said = {} /\ leaked = FALSE

-----------------------------------------------------------------------------
(* The server *)

Running == active # {} \/ zombies > 0

\* What the cached prefix, or none, can lead to.
FromCache == IF cache = "bad" THEN Answer ELSE Valid

Exposed(question) ==
  IF cache = "bad" /\ ~noisy THEN exposed \cup {question} ELSE exposed

Said(answer) == IF noisy THEN said ELSE said \cup ({answer} \cap Valid)

\* A prefill that runs to its end leaves the prefix cached.
Cached == IF cache = "none" THEN "good" ELSE cache

\* One that is cut short may leave anything.
Spoiled == {cache, "good", "bad"}

\* A client has closed its socket: the server notices, or runs on.
Disconnect ==
  \/ UNCHANGED <<zombies, leaked>>
  \/ zombies < MaxZombies /\ zombies' = zombies + 1 /\ leaked' = TRUE

\* A disconnected request is reaped or comes to its end.
Reap ==
  /\ zombies > 0
  /\ zombies' = zombies - 1
  /\ cache' \in Spoiled
  /\ UNCHANGED <<workerVars, inflight, mainVars, prefix, active, histVars>>

\* The cached prefix is evicted by other traffic.
Evict ==
  /\ active # {} /\ cache # "none"
  /\ cache' = "none"
  /\ UNCHANGED <<workerVars, inflight, mainVars, prefix, active, zombies, histVars>>

-----------------------------------------------------------------------------
(* The workers *)

Goto(w, from, to) == pc[w] = from /\ pc' = [pc EXCEPT ![w] = to]

\* prefix_worker reads its documents; if it cannot, the thread ends.
ReadDocuments ==
  /\ \/ Goto(Prefix, "start", "loop") /\ prefix' = TRUE
     \/ Goto(Prefix, "start", "ended") /\ UNCHANGED prefix
  /\ UNCHANGED <<leg, out, drift, inflight, mainVars, serverVars, histVars>>

\* while not stop.is_set(): a new turn.
Turn(w) ==
  /\ Goto(w, "loop", IF stop THEN "ended" ELSE "gate")
  /\ UNCHANGED <<leg, out, drift, inflight, mainVars, prefix, serverVars, histVars>>

Pass(w) ==
  /\ Goto(w, "gate", "count")
  /\ UNCHANGED <<leg, out, drift, inflight, mainVars, prefix, serverVars, histVars>>

\* Mutant: the pause is not looked at.
GateOpen(w) == Pass(w)

\* Busy.__enter__: while paused.is_set() and not stop.is_set() ...
Gate(w) == Pass(w) /\ (~paused \/ stop)

\* ... with lock: inflight[0] += 1
Count(w) ==
  /\ Goto(w, "count", "request")
  /\ inflight' = inflight + 1
  /\ UNCHANGED <<leg, out, drift, mainVars, prefix, serverVars, histVars>>

Send(w) ==
  /\ Goto(w, "request", "served")
  /\ active' = active \cup {w}
  /\ UNCHANGED <<leg, out, drift, inflight, mainVars, prefix, zombies, cache, histVars>>

\* The answer is complete.
Reply(w) ==
  /\ Goto(w, "served", "tally")
  /\ w = Prefix => leg = "probe"
  /\ active' = active \ {w}
  /\ IF w = Prefix
     THEN /\ out' \in FromCache /\ cache' = Cached
          /\ exposed' = Exposed("probe") /\ said' = Said(out')
     ELSE UNCHANGED <<out, cache, exposed, said>>
  /\ UNCHANGED <<leg, drift, mainVars, prefix, zombies, noisy, leaked>>

\* Mutant: the count goes down after a failure only.
AnsweredKeepsCount(w) == Reply(w) /\ UNCHANGED inflight

\* ... and Busy.__exit__.
Answered(w) == Reply(w) /\ inflight' = inflight - 1

\* on_chunk asks to close the socket, or abort_generate's time is up: the client has
\* gone; Busy.__exit__.
Closed(w) ==
  /\ Goto(w, "served", "tally")
  /\ w = Prefix => leg = "abort"
  /\ inflight' = inflight - 1
  /\ active' = active \ {w}
  /\ cache' \in IF w = Prefix THEN Spoiled ELSE {cache}
  /\ Disconnect
  /\ UNCHANGED <<leg, out, drift, mainVars, prefix, noisy, exposed, said>>

\* A refused connection or a timeout; Busy.__exit__, then except: bump("errors").
Failed(w) ==
  /\ \/ Goto(w, "request", IF w = Prefix THEN "rest" ELSE "loop")
     \/ Goto(w, "served", IF w = Prefix THEN "rest" ELSE "loop")
  /\ inflight' = inflight - 1
  /\ active' = active \ {w}
  /\ cache' \in IF w = Prefix /\ w \in active THEN Spoiled ELSE {cache}
  /\ IF w \in active THEN Disconnect ELSE UNCHANGED <<zombies, leaked>>
  /\ leg' = IF w = Prefix THEN "abort" ELSE leg
  /\ UNCHANGED <<out, drift, mainVars, prefix, noisy, exposed, said>>

\* bump the outcome; prefix_worker goes on to its probe, or compares its answer.
Process(w, drifted) ==
  /\ \/ w # Prefix /\ Goto(w, "tally", "loop") /\ UNCHANGED <<leg, out, drift>>
     \/ /\ w = Prefix /\ leg = "abort" /\ Goto(w, "tally", "gate")
        /\ leg' = "probe" /\ UNCHANGED <<out, drift>>
     \/ /\ w = Prefix /\ leg = "probe" /\ Goto(w, "tally", "rest")
        /\ drift' = (drift \/ drifted)
        /\ leg' = "abort" /\ out' = None
  /\ UNCHANGED <<inflight, mainVars, prefix, serverVars, histVars>>

\* Mutant: an answer is compared although there is no reference yet.
TallyAnyReference(w) == Process(w, out # reference)

Tally(w) == Process(w, reference # None /\ out # reference)

\* stop.wait(PREFIX_EVERY)
Rest ==
  /\ Goto(Prefix, "rest", "loop")
  /\ UNCHANGED <<leg, out, drift, inflight, mainVars, prefix, serverVars, histVars>>

Worker(w) ==
  \/ w = Prefix /\ (ReadDocuments \/ Rest)
  \/ Turn(w) \/ Gate(w) \/ Count(w) \/ Send(w) \/ Answered(w) \/ Closed(w) \/ Failed(w)
  \/ Tally(w)

-----------------------------------------------------------------------------
(* The main thread *)

At(from, to) == main = from /\ main' = to

\* Time for a row, or SOAK_SECONDS are over.
Wait ==
  /\ IF rows < MaxSamples THEN At("wait", "pause") \/ At("wait", "stopping")
     ELSE At("wait", "stopping")
  /\ UNCHANGED <<workerVars, inflight, eventVars, sampleVars, prefix, serverVars, histVars>>

Pause ==
  /\ At("pause", "drain")
  /\ paused' = TRUE
  /\ UNCHANGED <<workerVars, inflight, stop, sampleVars, prefix, serverVars, histVars>>

\* while inflight[0] and less than 600 s
Drain ==
  /\ At("drain", "row")
  /\ UNCHANGED <<workerVars, inflight, eventVars, sampleVars, prefix, serverVars, histVars>>

\* row = {..., "drained": inflight[0] == 0}
Row ==
  /\ At("row", "metrics")
  /\ drained' = (inflight = 0)
  /\ noisy' = (noisy \/ inflight # 0 \/ \E w \in Workers : pc[w] = "count")
  /\ IF noisy' THEN exposed' = {} /\ said' = {} ELSE UNCHANGED <<exposed, said>>
  /\ UNCHANGED <<workerVars, inflight, eventVars, rows, idleRunning, hit, flushed,
                 reference, fixed, prefix, serverVars, leaked>>

AfterMetrics == IF prefix THEN "hit" ELSE "probe"

\* A4: what the server runs while this client has nothing in flight.
Metrics ==
  /\ At("metrics", IF Running THEN "zombie" ELSE AfterMetrics)
  /\ idleRunning' = Running
  /\ UNCHANGED <<workerVars, inflight, eventVars, rows, drained, hit, flushed, reference,
                 fixed, prefix, serverVars, histVars>>

\* It is watched until it is gone, for up to 300 s.
Zombie ==
  /\ At("zombie", AfterMetrics)
  /\ UNCHANGED <<workerVars, inflight, eventVars, sampleVars, prefix, serverVars, histVars>>

\* A3: the cached answer,
Hit ==
  /\ At("hit", "flush")
  /\ hit' \in FromCache /\ cache' = Cached
  /\ exposed' = Exposed("hit") /\ said' = Said(hit')
  /\ UNCHANGED <<workerVars, inflight, eventVars, rows, drained, idleRunning, flushed,
                 reference, fixed, prefix, active, zombies, noisy, leaked>>

\* up to 30 attempts to flush, which the server refuses while it runs anything,
Flush ==
  /\ At("flush", "miss")
  /\ \/ ~Running /\ flushed' = TRUE /\ cache' = "none"
     \/ UNCHANGED <<flushed, cache>>
  /\ UNCHANGED <<workerVars, inflight, eventVars, rows, drained, idleRunning, hit,
                 reference, fixed, prefix, active, zombies, histVars>>

\* and the answer after it, which becomes the reference if there is none.
SecondAnswer(trusted) ==
  /\ At("miss", "probe")
  /\ \E miss \in FromCache :
       /\ reference' = IF reference = None /\ trusted THEN miss ELSE reference
       /\ fixed' = (fixed \/ (flushed /\ hit # miss /\ miss = reference'))
       /\ said' = Said(miss)
  /\ cache' = Cached
  /\ hit' = None /\ flushed' = FALSE
  /\ UNCHANGED <<workerVars, inflight, eventVars, rows, drained, idleRunning, prefix, active,
                 zombies, noisy, exposed, leaked>>

\* Mutant: the first answer becomes the reference whether or not the flush worked.
MissUnflushed == SecondAnswer(TRUE)

Miss == SecondAnswer(flushed)

\* A2: two greedy decodes and the server's log.
Probe ==
  /\ At("probe", "resume")
  /\ UNCHANGED <<workerVars, inflight, eventVars, sampleVars, prefix, serverVars, histVars>>

\* Mutant: an exception skips paused.clear().
SampleErrorHangs ==
  /\ main \in Measuring /\ main' = "wait"
  /\ rows' = rows + 1
  /\ UNCHANGED <<workerVars, inflight, eventVars, drained, idleRunning, hit, flushed,
                 reference, fixed, prefix, serverVars, histVars>>

\* except Exception: row["sample_error"]. The sampler's own request may go on, its flush
\* may have worked.
SampleError ==
  /\ main \in Measuring
  /\ main' = "resume"
  /\ cache' \in CASE main \in {"hit", "miss"}         -> Spoiled
                 [] main = "flush" /\ ~Running        -> {cache, "none"}
                 [] OTHER                             -> {cache}
  /\ IF main \in {"hit", "miss", "probe"} THEN Disconnect ELSE UNCHANGED <<zombies, leaked>>
  /\ UNCHANGED <<workerVars, inflight, eventVars, sampleVars, prefix, active, noisy, exposed,
                 said>>

\* finally: paused.clear(); the row and the interim report are written.
Resume ==
  /\ At("resume", "wait")
  /\ paused' = FALSE
  /\ rows' = rows + 1
  /\ drained' = FALSE /\ idleRunning' = FALSE       \* sample's locals
  /\ hit' = None /\ flushed' = FALSE
  /\ UNCHANGED <<workerVars, inflight, stop, reference, fixed, prefix, serverVars, histVars>>

\* The disk is full, a metric has no number, Ctrl-C: on to main's finally.
Interrupt ==
  /\ main \in {"wait", "pause", "drain", "row", "resume"} \cup Measuring
  /\ main' = "stopping"
  /\ paused' = (paused /\ main \in {"drain", "row"})      \* sample's finally
  /\ UNCHANGED <<workerVars, inflight, stop, sampleVars, prefix, serverVars, histVars>>

StopAll ==
  /\ At("stopping", "join")
  /\ stop' = TRUE /\ paused' = FALSE
  /\ UNCHANGED <<workerVars, inflight, sampleVars, prefix, serverVars, histVars>>

\* th.join(timeout=REQUEST_TIMEOUT), thread by thread.
Join ==
  /\ At("join", "final")
  /\ UNCHANGED <<workerVars, inflight, eventVars, sampleVars, prefix, serverVars, histVars>>

\* The final report; the daemon threads end with the process.
Final ==
  /\ At("final", "exited")
  /\ pc' = [w \in Workers |-> "ended"]
  /\ inflight' = 0 /\ active' = {}
  /\ UNCHANGED <<leg, out, drift, eventVars, sampleVars, prefix, zombies, cache, histVars>>

Main ==
  \/ Wait \/ Pause \/ Drain \/ Row \/ Metrics \/ Zombie \/ Hit \/ Flush \/ Miss \/ Probe
  \/ SampleError \/ Resume \/ StopAll \/ Join \/ Final

Next ==
  \/ \E w \in Workers : Worker(w)
  \/ Main \/ Interrupt
  \/ Reap \/ Evict

Spec == Init /\ [][Next]_vars

-----------------------------------------------------------------------------
(* What must be true of every state *)

\* The reference is a valid answer, the first one from an empty cache, unless some
\* sample began with a request in flight or about to be counted.
ReferenceClean == ~noisy /\ reference # None => reference \in Valid

\* What the A3 detectors report has a cause in the server: a corrupted prefix that was
\* asked, or two valid greedy answers to the one question (RESEARCH_LOG.md:2860-2870,
\* which the detectors cannot tell from it); never an eviction, a refused flush, a lost
\* request or a missing reference.
AlarmHasCause ==
  LET Flips == \E a, b \in said : a # b IN
  ~noisy => /\ fixed => "hit" \in exposed \/ Flips
            /\ drift => "probe" \in exposed \/ Flips

\* A4 is only reported where a disconnected request kept running: no request of
\* this client's own workers is taken for one.
ZombieIsReal == ~noisy /\ idleRunning => leaked

\* The pause covers the measurement and never outlasts it: no worker is held while
\* the main thread waits for the next sample or for the workers to end.
PauseMeasures ==
  /\ main \in Measuring => paused
  /\ main \in {"wait", "join", "final"} => ~paused
=============================================================================
