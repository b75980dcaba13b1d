--------------------------- MODULE LongSoakProofs ---------------------------
(***************************************************************************)
(* Theorems about the long soak for any finite number of workers, any      *)
(* number of samples and of disconnected requests.                         *)
(***************************************************************************)
EXTENDS LongSoak, FiniteSetTheorems, TLAPS

USE WorkerAssumption, BoundAssumption, AnswerAssumption
    DEF vars, workerVars, eventVars, sampleVars, mainVars, serverVars, histVars,
        Pass, Reply, Process, SecondAnswer

-----------------------------------------------------------------------------
(* The count of requests in flight *)

LEMMA WorkersFinite == IsFiniteSet(Workers)
  BY FS_AddElement DEF Workers

LEMMA BusyFinite == IsFiniteSet(Busy)
  BY WorkersFinite, FS_Subset DEF Busy

\* The count with a worker that has just been counted in ...
LEMMA CountIn ==
  ASSUME NEW w \in Workers, NEW to \in {"request", "served"}, DOMAIN pc = Workers,
         pc[w] \notin {"request", "served"}, pc' = [pc EXCEPT ![w] = to],
         inflight = Cardinality(Busy)
  PROVE  Busy' = Busy \cup {w} /\ Cardinality(Busy') = inflight + 1
<1>1. Busy' = Busy \cup {w} /\ w \notin Busy
  BY DEF Busy
<1>2. QED
  BY <1>1, BusyFinite, FS_AddElement

\* ... that has left Busy ...
LEMMA CountOut ==
  ASSUME NEW w \in Workers, NEW to, to \notin {"request", "served"}, DOMAIN pc = Workers,
         pc[w] \in {"request", "served"}, pc' = [pc EXCEPT ![w] = to],
         inflight = Cardinality(Busy)
  PROVE  Busy' = Busy \ {w} /\ Cardinality(Busy') = inflight - 1
<1>1. Busy' = Busy \ {w} /\ w \in Busy
  BY DEF Busy
<1>2. QED
  BY <1>1, BusyFinite, FS_RemoveElement

\* ... and that has moved on one side of it.
LEMMA CountSame ==
  ASSUME NEW w \in Workers, NEW to, DOMAIN pc = Workers,
         pc[w] \in {"request", "served"} <=> to \in {"request", "served"},
         pc' = [pc EXCEPT ![w] = to]
  PROVE  Busy' = Busy
  BY DEF Busy

-----------------------------------------------------------------------------
(* Type correctness *)

\* No step moves a worker across Busy's boundary without the count.
LEMMA CountedStep == TypeOK /\ [Next]_vars => Counted'
<1> SUFFICES ASSUME TypeOK, [Next]_vars PROVE Counted'
  OBVIOUS
<1> USE DEF Goto, At, Counted, TypeOK, Values
<1>1. ASSUME UNCHANGED <<pc, inflight, active>> PROVE Counted'
  BY <1>1 DEF Busy
<1>2. ASSUME NEW w \in Workers, NEW from, NEW to, Goto(w, from, to),
             from \in {"request", "served"} <=> to \in {"request", "served"},
             UNCHANGED <<inflight, active>>
      PROVE  Counted'
  BY <1>2, CountSame
<1>3. ASSUME ReadDocuments \/ Rest PROVE Counted'
  BY <1>2, <1>3 DEF ReadDocuments, Rest, Workers
<1>4. ASSUME NEW w \in Workers, Turn(w) \/ Gate(w) \/ Tally(w) PROVE Counted'
  BY <1>2, <1>4 DEF Turn, Gate, Tally
<1>5. ASSUME NEW w \in Workers, Count(w) PROVE Counted'
  BY <1>5, CountIn DEF Count
<1>6. ASSUME NEW w \in Workers, Send(w) PROVE Counted'
  <2>1. Busy' = Busy /\ w \in Busy
    BY <1>6, CountSame DEF Send, Busy
  <2>2. QED
    BY <1>6, <2>1 DEF Send
<1>7. ASSUME NEW w \in Workers, Answered(w) \/ Closed(w) \/ Failed(w) PROVE Counted'
  <2>1. Busy' = Busy \ {w} /\ inflight' = Cardinality(Busy')
    BY <1>7, CountOut DEF Answered, Closed, Failed
  <2>2. QED
    BY <1>7, <2>1 DEF Answered, Closed, Failed
<1>8. CASE Final
  <2>1. Busy' = {}
    BY <1>8 DEF Final, Busy
  <2>2. QED
    BY <1>8, <2>1, FS_EmptySet DEF Final
<1>9. CASE \/ Wait \/ Pause \/ Drain \/ Row \/ Metrics \/ Zombie \/ Hit \/ Flush \/ Miss \/ Probe
           \/ SampleError \/ Resume \/ Interrupt \/ StopAll \/ Join \/ Reap \/ Evict
           \/ UNCHANGED vars
  BY <1>1, <1>9 DEF Wait, Pause, Drain, Row, Metrics, Zombie, Hit, Flush, Miss, Probe,
     SampleError, Resume, Interrupt, StopAll, Join, Reap, Evict
<1>10. QED
  BY <1>3, <1>4, <1>5, <1>6, <1>7, <1>8, <1>9 DEF Next, Worker, Main

\* The flags stay Boolean, ...
LEMMA FlagsStep == TypeOK /\ [Next]_vars => Flags'
<1> SUFFICES ASSUME TypeOK, [Next]_vars PROVE Flags'
  OBVIOUS
<1> USE DEF TypeOK, Flags, Goto, At, Running
<1>1. ASSUME UNCHANGED <<drift, eventVars, drained, idleRunning, flushed, fixed, prefix,
                         noisy, leaked>>
      PROVE  Flags'
  BY <1>1
<1>2. CASE ReadDocuments \/ Rest
  BY <1>1, <1>2, ZenonT(60) DEF ReadDocuments, Rest
<1>3. ASSUME NEW w \in Workers, Turn(w) \/ Gate(w) \/ Count(w) \/ Send(w) \/ Answered(w)
      PROVE  Flags'
  <2>1. UNCHANGED <<drift, eventVars, drained, idleRunning, flushed, fixed, prefix, noisy, leaked>>
    BY <1>3 DEF Turn, Gate, Count, Send, Answered
  <2>2. QED
    BY <1>1, <2>1
<1>4. ASSUME NEW w \in Workers, Closed(w) \/ Failed(w) PROVE Flags'
  <2>1. UNCHANGED <<drift, eventVars, drained, idleRunning, flushed, fixed, prefix, noisy>>
    BY <1>4 DEF Closed, Failed
  <2>2. leaked' = leaked \/ leaked' = TRUE
    BY <1>4, Zenon DEF Closed, Failed, Disconnect
  <2>3. leaked' \in BOOLEAN
    BY <2>2, Zenon
  <2>4. QED
    BY <2>1, <2>3, Zenon
<1>5. ASSUME NEW w \in Workers, Tally(w) PROVE Flags'
  <2>1. UNCHANGED <<eventVars, drained, idleRunning, flushed, fixed, prefix, noisy, leaked>>
    BY <1>5 DEF Tally
  <2>2. drift' = drift \/ drift' = (drift \/ (reference # None /\ out # reference))
    BY <1>5, Zenon DEF Tally
  <2>3. drift' \in BOOLEAN
    BY <2>2, Zenon
  <2>4. QED
    BY <2>1, <2>3, Zenon
<1>6. CASE Final \/ Wait \/ Drain \/ Zombie \/ Probe \/ Join \/ Hit \/ Reap \/ Evict \/ UNCHANGED vars
  <2>1. UNCHANGED <<drift, eventVars, drained, idleRunning, flushed, fixed, prefix, noisy, leaked>>
    BY <1>6 DEF Final, Wait, Drain, Zombie, Probe, Join, Hit, Reap, Evict
  <2>2. QED
    BY <1>1, <2>1
<1>7. CASE Pause \/ Resume \/ StopAll
  BY <1>7, ZenonT(60) DEF Pause, Resume, StopAll
<1>8. CASE Interrupt
  <2>1. paused' \in BOOLEAN
    BY <1>8, Zenon DEF Interrupt
  <2>2. UNCHANGED <<drift, stop, drained, idleRunning, flushed, fixed, prefix, noisy, leaked>>
    BY <1>8 DEF Interrupt
  <2>3. QED
    BY <2>1, <2>2, Zenon
<1>9. CASE Row
  <2>1. drained' \in BOOLEAN /\ noisy' \in BOOLEAN
    BY <1>9, Zenon DEF Row
  <2>2. UNCHANGED <<drift, eventVars, idleRunning, flushed, fixed, prefix, leaked>>
    BY <1>9 DEF Row
  <2>3. QED
    BY <2>1, <2>2, Zenon
<1>10. CASE Metrics
  <2>1. idleRunning' \in BOOLEAN
    BY <1>10, Zenon DEF Metrics
  <2>2. UNCHANGED <<drift, eventVars, drained, flushed, fixed, prefix, noisy, leaked>>
    BY <1>10 DEF Metrics
  <2>3. QED
    BY <2>1, <2>2, Zenon
<1>11. CASE Flush
  BY <1>11, ZenonT(60) DEF Flush
<1>12. CASE Miss
  <2>1. fixed' \in BOOLEAN /\ flushed' = FALSE
    BY <1>12, Zenon DEF Miss
  <2>2. UNCHANGED <<drift, eventVars, drained, idleRunning, prefix, noisy, leaked>>
    BY <1>12 DEF Miss
  <2>3. QED
    BY <2>1, <2>2, Zenon
<1>13. CASE SampleError
  <2>1. leaked' \in BOOLEAN
    BY <1>13, Zenon DEF SampleError, Disconnect
  <2>2. UNCHANGED <<drift, eventVars, drained, idleRunning, flushed, fixed, prefix, noisy>>
    BY <1>13 DEF SampleError
  <2>3. QED
    BY <2>1, <2>2, Zenon
<1>14. QED
  BY <1>2, <1>3, <1>4, <1>5, <1>6, <1>7, <1>8, <1>9, <1>10, <1>11, <1>12, <1>13
     DEF Next, Worker, Main

\* ... the other values stay in their sets, ...
LEMMA ValuesStep == TypeOK /\ [Next]_vars => Values'
<1> SUFFICES ASSUME TypeOK, [Next]_vars PROVE Values'
  OBVIOUS
<1> USE DEF TypeOK, Values, Answer, Measuring, Goto, At
<1>1. CASE ReadDocuments \/ Rest
  BY <1>1, ZenonT(60) DEF ReadDocuments, Rest, Workers
<1>2. ASSUME NEW w \in Workers, Turn(w) \/ Gate(w) \/ Count(w) \/ Send(w) PROVE Values'
  BY <1>2, ZenonT(60) DEF Turn, Gate, Count, Send
<1>3. ASSUME NEW w \in Workers, Answered(w) PROVE Values'
  BY <1>3 DEF Answered, FromCache, Cached, Exposed, Said
<1>4. ASSUME NEW w \in Workers, Closed(w) \/ Failed(w) PROVE Values'
  BY <1>4, ZenonT(60) DEF Closed, Failed, Disconnect, Spoiled
<1>5. ASSUME NEW w \in Workers, Tally(w) PROVE Values'
  BY <1>5 DEF Tally
<1>6. CASE Final \/ UNCHANGED vars
  BY <1>6, ZenonT(60) DEF Final
<1>7. CASE Wait \/ Pause \/ Drain \/ Zombie \/ Probe \/ Resume
  BY <1>7, ZenonT(60) DEF Wait, Pause, Drain, Zombie, Probe, Resume, AfterMetrics
<1>8. CASE Interrupt \/ StopAll \/ Join
  BY <1>8 DEF Interrupt, StopAll, Join
<1>9. CASE Row \/ Metrics \/ Flush
  BY <1>9 DEF Row, Metrics, Flush, AfterMetrics
<1>10. CASE Hit \/ Miss
  BY <1>10 DEF Hit, Miss, FromCache, Cached, Exposed, Said
<1>11. CASE SampleError
  BY <1>11 DEF SampleError, Disconnect, Spoiled
<1>12. CASE Reap \/ Evict
  BY <1>12, ZenonT(60) DEF Reap, Evict, Spoiled
<1>13. QED
  BY <1>1, <1>2, <1>3, <1>4, <1>5, <1>6, <1>7, <1>8, <1>9, <1>10, <1>11, <1>12 DEF Next, Worker, Main

\* ... and rows and zombies within their bounds.
LEMMA BoundsStep == TypeOK /\ [Next]_vars => Bounds'
<1> SUFFICES ASSUME TypeOK, [Next]_vars PROVE Bounds'
  OBVIOUS
<1> USE DEF TypeOK, Values, Bounds, Answer, Measuring, Goto, At, AfterMetrics
<1>1. CASE ReadDocuments \/ Rest
  BY <1>1 DEF ReadDocuments, Rest
<1>2. ASSUME NEW w \in Workers, Turn(w) \/ Gate(w) \/ Count(w) \/ Send(w) PROVE Bounds'
  BY <1>2 DEF Turn, Gate, Count, Send
<1>3. ASSUME NEW w \in Workers, Answered(w) PROVE Bounds'
  BY <1>3 DEF Answered
<1>4. ASSUME NEW w \in Workers, Closed(w) \/ Failed(w) PROVE Bounds'
  BY <1>4 DEF Closed, Failed, Disconnect
<1>5. ASSUME NEW w \in Workers, Tally(w) PROVE Bounds'
  BY <1>5 DEF Tally
<1>6. CASE Final \/ UNCHANGED vars
  BY <1>6 DEF Final
<1>7. CASE Wait \/ Pause \/ Drain \/ Zombie \/ Probe \/ Resume
  BY <1>7 DEF Wait, Pause, Drain, Zombie, Probe, Resume
<1>8. CASE Interrupt \/ StopAll \/ Join
  BY <1>8 DEF Interrupt, StopAll, Join
<1>9. CASE Row \/ Metrics \/ Flush
  BY <1>9 DEF Row, Metrics, Flush
<1>10. CASE Hit \/ Miss
  BY <1>10 DEF Hit, Miss
<1>11. CASE SampleError
  BY <1>11 DEF SampleError, Disconnect
<1>12. CASE Reap \/ Evict
  BY <1>12 DEF Reap, Evict
<1>13. QED
  BY <1>1, <1>2, <1>3, <1>4, <1>5, <1>6, <1>7, <1>8, <1>9, <1>10, <1>11, <1>12 DEF Next, Worker, Main

\* Every variable keeps its type, and inflight[0] is the number of workers between
\* Busy.__enter__'s increment and Busy.__exit__'s decrement, however a request ends.
THEOREM TypeCorrect == Spec => []TypeOK
<1>1. Init => TypeOK
  <2> SUFFICES ASSUME Init PROVE TypeOK
    OBVIOUS
  <2>1. Busy = {}
    BY DEF Init, Busy
  <2>2. Counted
    BY <2>1, FS_EmptySet DEF Init, Counted
  <2>3. Flags
    BY Zenon DEF Init, Flags
  <2>4. Values /\ Bounds
    BY DEF Init, Values, Bounds, Answer, Measuring
  <2>5. QED
    BY <2>2, <2>3, <2>4 DEF TypeOK
<1>2. TypeOK /\ [Next]_vars => TypeOK'
  BY CountedStep, FlagsStep, ValuesStep, BoundsStep DEF TypeOK
<1>3. QED
  BY <1>1, <1>2, PTL DEF Spec

-----------------------------------------------------------------------------
(* The pause *)

\* paused is set from Pause to the end of sample, stop from main's finally on, ...
Events ==
  /\ main \in {"drain", "row"} \cup Measuring => paused
  /\ main \in {"wait", "pause", "join", "final"} => ~paused
  /\ stop => main \in {"join", "final", "exited"}

\* ... so that a sample that began with no worker past Gate stays without one.
Quiet ==
  ~noisy /\ main \in Measuring =>
    \A w \in Workers : pc[w] \notin {"count", "request", "served"}

\* The answers the detectors compare: each wrong one has a bad cache behind it, each
\* valid one has been given.
Heard ==
  ~noisy => /\ hit = Wrong => "hit" \in exposed
            /\ out = Wrong => "probe" \in exposed
            /\ {hit, out, reference} \cap Valid \subseteq said

\* Each disconnected request has a client that has gone, and sample's locals are fresh.
Evidence ==
  /\ zombies > 0 => leaked
  /\ main \in {"flush", "miss"} => hit # None
  /\ pc[Prefix] = "tally" /\ leg = "probe" => out # None
  /\ main \in {"wait", "pause", "drain", "row", "metrics", "zombie", "hit", "flush"} => ~flushed

\* After a flush that worked, nothing fills the cache before the second answer.
Emptied == ~noisy /\ main = "miss" /\ flushed => cache = "none" /\ zombies = 0

LEMMA EventsStep == TypeOK /\ Events /\ [Next]_vars => Events'
<1> SUFFICES ASSUME TypeOK, Events, [Next]_vars PROVE Events'
  OBVIOUS
<1> USE DEF TypeOK, Flags, Values, Events, Measuring, At
<1>1. ASSUME UNCHANGED <<main, eventVars>> PROVE Events'
  BY <1>1
<1>2. ASSUME NEW w \in Workers, Worker(w) PROVE Events'
  <2>1. UNCHANGED <<main, eventVars>>
    BY <1>2 DEF Worker, ReadDocuments, Rest, Turn, Gate, Count, Send, Answered, Closed,
       Failed, Tally
  <2>2. QED
    BY <1>1, <2>1
<1>3. CASE Reap \/ Evict \/ UNCHANGED vars
  BY <1>1, <1>3 DEF Reap, Evict
<1>4. CASE Wait \/ Pause \/ Drain \/ Row
  BY <1>4 DEF Wait, Pause, Drain, Row
<1>5. CASE Metrics \/ Zombie \/ Hit \/ Flush \/ Miss \/ Probe \/ SampleError
  BY <1>5 DEF Metrics, Zombie, AfterMetrics, Hit, Flush, Miss, Probe, SampleError
<1>6. CASE Resume
  BY <1>6 DEF Resume
<1>7. CASE Interrupt \/ StopAll \/ Join \/ Final
  BY <1>7 DEF Interrupt, StopAll, Join, Final
<1>8. QED
  BY <1>2, <1>3, <1>4, <1>5, <1>6, <1>7 DEF Next, Main

\* At Row the count is zero and nobody is about to raise it; from then on the gate is
\* closed.
LEMMA QuietStep == TypeOK /\ Events /\ Quiet /\ [Next]_vars => Quiet'
<1> SUFFICES ASSUME TypeOK, Events, Quiet, [Next]_vars PROVE Quiet'
  OBVIOUS
<1> USE DEF TypeOK, Flags, Values, Events, Quiet, Measuring, At, Goto
<1>1. ASSUME UNCHANGED <<pc, noisy>>, main' \in Measuring => main \in Measuring PROVE Quiet'
  BY <1>1
<1>2. ASSUME NEW w \in Workers, Worker(w) PROVE Quiet'
  <2>1. SUFFICES ASSUME ~noisy, main \in Measuring
                 PROVE  pc'[w] \notin {"count", "request", "served"}
    BY <1>2 DEF Worker, ReadDocuments, Rest, Turn, Gate, Count, Send, Answered, Closed,
       Failed, Tally
  <2>2. ~Gate(w) /\ ~Count(w) /\ ~Send(w)
    BY <2>1 DEF Gate, Count, Send
  <2>3. QED
    BY <1>2, <2>2 DEF Worker, ReadDocuments, Rest, Turn, Answered, Closed, Failed, Tally
<1>3. CASE Row
  <2>1. SUFFICES ASSUME ~noisy' PROVE \A w \in Workers : pc[w] \notin {"count", "request", "served"}
    BY <1>3 DEF Row
  <2>2. inflight = 0 /\ \A w \in Workers : pc[w] # "count"
    BY <1>3, <2>1 DEF Row
  <2>3. Busy = {}
    BY <2>2, BusyFinite, FS_EmptySet DEF Counted
  <2>4. QED
    BY <2>2, <2>3 DEF Busy
<1>4. CASE Metrics \/ Zombie \/ Hit \/ Flush \/ Miss \/ Probe \/ SampleError
  BY <1>1, <1>4 DEF Metrics, Zombie, Hit, Flush, Miss, Probe, SampleError
<1>5. CASE Wait \/ Pause \/ Drain \/ Resume \/ Interrupt \/ StopAll \/ Join \/ Final
  BY <1>5 DEF Wait, Pause, Drain, Resume, Interrupt, StopAll, Join, Final
<1>6. CASE Reap \/ Evict \/ UNCHANGED vars
  BY <1>1, <1>6 DEF Reap, Evict
<1>7. QED
  BY <1>2, <1>3, <1>4, <1>5, <1>6 DEF Next, Main

\* What has happened stays so, and what was answered stays recorded in a quiet soak.
Remembered ==
  /\ noisy => noisy'
  /\ leaked => leaked'
  /\ ~noisy' => exposed \subseteq exposed' /\ said \subseteq said'

LEMMA HistoryGrows == [Next]_vars => Remembered
<1> SUFFICES ASSUME [Next]_vars PROVE Remembered
  OBVIOUS
<1>1. ASSUME UNCHANGED histVars PROVE Remembered
  BY <1>1, Zenon DEF Remembered
<1>2. CASE \/ ReadDocuments \/ Rest \/ Wait \/ Pause \/ Drain \/ Metrics \/ Zombie \/ Flush
           \/ Probe \/ Resume \/ Interrupt \/ StopAll \/ Join \/ Final \/ Reap \/ Evict
           \/ UNCHANGED vars
  BY <1>1, <1>2, Zenon DEF ReadDocuments, Rest, Wait, Pause, Drain, Metrics, Zombie, Flush,
     Probe, Resume, Interrupt, StopAll, Join, Final, Reap, Evict
<1>3. ASSUME NEW w \in Workers, Turn(w) \/ Gate(w) \/ Count(w) \/ Send(w) \/ Tally(w)
      PROVE  UNCHANGED histVars
  BY <1>3, Zenon DEF Turn, Gate, Count, Send, Tally
<1>4. ASSUME Disconnect PROVE leaked => leaked'
  BY <1>4, Zenon DEF Disconnect
<1>5. ASSUME UNCHANGED <<noisy, exposed, said>>, leaked => leaked' PROVE Remembered
  BY <1>5, Zenon DEF Remembered
<1>6. ASSUME UNCHANGED <<noisy, leaked>>, exposed \subseteq exposed', said \subseteq said'
      PROVE  Remembered
  BY <1>6, Zenon DEF Remembered
<1>7. \A question : exposed \subseteq Exposed(question)
  BY DEF Exposed
<1>8. \A answer : said \subseteq Said(answer)
  BY DEF Said
<1>9. ASSUME NEW w \in Workers, Answered(w) PROVE Remembered
  <2>1. UNCHANGED <<noisy, leaked>>
    BY <1>9, Zenon DEF Answered
  <2>2. \/ exposed' = Exposed("probe") /\ said' = Said(out')
        \/ UNCHANGED <<exposed, said>>
    BY <1>9, Zenon DEF Answered
  <2>3. exposed \subseteq exposed' /\ said \subseteq said'
    BY <2>2, <1>7, <1>8
  <2>4. QED
    BY <1>6, <2>1, <2>3
<1>10. ASSUME NEW w \in Workers, Closed(w) \/ Failed(w) PROVE Remembered
  <2>1. UNCHANGED <<noisy, exposed, said>>
    BY <1>10 DEF Closed, Failed
  <2>2. Disconnect \/ leaked' = leaked
    BY <1>10 DEF Closed, Failed
  <2>3. leaked => leaked'
    BY <1>4, <2>2, Zenon
  <2>4. QED
    BY <1>5, <2>1, <2>3
<1>11. CASE SampleError
  <2>1. UNCHANGED <<noisy, exposed, said>>
    BY <1>11, Zenon DEF SampleError
  <2>2. leaked => leaked'
    BY <1>4, <1>11, Zenon DEF SampleError
  <2>3. QED
    BY <1>5, <2>1, <2>2
<1>12. CASE Row
  <2>1. leaked' = leaked /\ (noisy => noisy')
    BY <1>12, Zenon DEF Row
  <2>2. ~noisy' => exposed' = exposed /\ said' = said
    BY <1>12, Zenon DEF Row
  <2>3. QED
    BY <2>1, <2>2, Zenon DEF Remembered
<1>13. CASE Hit
  <2>1. UNCHANGED <<noisy, leaked>> /\ exposed' = Exposed("hit") /\ said' = Said(hit')
    BY <1>13, Zenon DEF Hit
  <2>2. QED
    BY <1>6, <1>7, <1>8, <2>1
<1>14. CASE Miss
  <2>1. UNCHANGED <<noisy, leaked, exposed>>
    BY <1>14, Zenon DEF Miss
  <2>2. PICK answer : said' = Said(answer)
    BY <1>14, Zenon DEF Miss
  <2>3. exposed \subseteq exposed' /\ said \subseteq said'
    BY <2>1, <2>2, <1>8
  <2>4. QED
    BY <1>6, <2>1, <2>3
<1>15. ASSUME NEW w \in Workers, Worker(w) PROVE Remembered
  <2>1. CASE Turn(w) \/ Gate(w) \/ Count(w) \/ Send(w) \/ Tally(w)
    BY <1>1, <1>3, <2>1, Zenon
  <2>2. QED
    BY <1>2, <1>9, <1>10, <1>15, <2>1 DEF Worker
<1>16. QED
  BY <1>2, <1>11, <1>12, <1>13, <1>14, <1>15, Zenon DEF Next, Main

LEMMA ServerIdle ==
  ASSUME TypeOK, Quiet, ~noisy, main \in Measuring PROVE active = {}
  BY DEF TypeOK, Counted, Quiet, Busy

\* No step leaves an answer without its cause ...
LEMMA HeardStep == TypeOK /\ Heard /\ [Next]_vars => Heard'
<1> SUFFICES ASSUME TypeOK, Heard, [Next]_vars, ~noisy'
             PROVE  /\ hit' = Wrong => "hit" \in exposed'
                    /\ out' = Wrong => "probe" \in exposed'
                    /\ {hit', out', reference'} \cap Valid \subseteq said'
  BY DEF Heard
<1>1. ~noisy /\ exposed \subseteq exposed' /\ said \subseteq said'
  BY HistoryGrows DEF Remembered
<1>2. /\ hit = Wrong => "hit" \in exposed
      /\ out = Wrong => "probe" \in exposed
      /\ {hit, out, reference} \cap Valid \subseteq said
  BY <1>1 DEF Heard
<1>3. CASE Hit
  <2>1. hit' \in FromCache /\ exposed' = Exposed("hit") /\ said' = Said(hit')
    BY <1>3, Zenon DEF Hit
  <2>2. out' = out /\ reference' = reference
    BY <1>3, Zenon DEF Hit
  <2>3. hit' = Wrong => "hit" \in exposed'
    BY <1>1, <2>1 DEF FromCache, Exposed
  <2>4. {hit'} \cap Valid \subseteq said'
    BY <1>1, <2>1 DEF Said
  <2>5. QED
    BY <1>1, <1>2, <2>2, <2>3, <2>4
<1>4. CASE Miss
  <2>1. PICK miss : said' = Said(miss) /\ (reference' = miss \/ reference' = reference)
    BY <1>4, Zenon DEF Miss
  <2>2. out' = out /\ hit' = None
    BY <1>4, Zenon DEF Miss
  <2>3. {reference'} \cap Valid \subseteq said'
    BY <1>1, <1>2, <2>1 DEF Said
  <2>4. QED
    BY <1>1, <1>2, <2>2, <2>3
<1>5. ASSUME NEW w \in Workers, Answered(w)
      PROVE  /\ hit' = Wrong => "hit" \in exposed'
             /\ out' = Wrong => "probe" \in exposed'
             /\ {hit', out', reference'} \cap Valid \subseteq said'
  <2>1. \/ out' \in FromCache /\ exposed' = Exposed("probe") /\ said' = Said(out')
        \/ out' = out
    BY <1>5, Zenon DEF Answered
  <2>2. hit' = hit /\ reference' = reference
    BY <1>5, Zenon DEF Answered
  <2>3. out' = Wrong => "probe" \in exposed'
    BY <1>1, <1>2, <2>1 DEF FromCache, Exposed
  <2>4. {out'} \cap Valid \subseteq said'
    BY <1>1, <1>2, <2>1 DEF Said
  <2>5. QED
    BY <1>1, <1>2, <2>2, <2>3, <2>4
<1>6. CASE ~Hit /\ ~Miss /\ ~(\E w \in Workers : Answered(w))
  <2>1. hit' \in {hit, None} /\ out' \in {out, None} /\ reference' = reference
    BY <1>6, ZenonT(60) DEF Next, Worker, Main, ReadDocuments, Rest, Turn, Gate, Count, Send,
       Closed, Failed, Tally, Wait, Pause, Drain, Row, Metrics, Zombie, Flush,
       Probe, SampleError, Resume, StopAll, Join, Final, Interrupt, Reap, Evict
  <2>2. QED
    BY <1>1, <1>2, <2>1
<1>7. QED
  BY <1>3, <1>4, <1>5, <1>6

\* ... or a disconnected request without a client that went.
LEMMA EvidenceStep == TypeOK /\ Evidence /\ [Next]_vars => Evidence'
<1> SUFFICES ASSUME TypeOK, Evidence, [Next]_vars PROVE Evidence'
  OBVIOUS
<1> USE DEF TypeOK, Values, Bounds, Evidence, Measuring, Answer, At, Goto
<1>1. ASSUME UNCHANGED <<pc, leg, out, hit, flushed, zombies, leaked>>,
             main' = main \/ main' \notin {"hit", "flush", "miss"},
             main' # main => main \in {"wait", "pause", "drain", "row", "metrics", "zombie"}
                             \/ main' \in {"resume", "probe", "stopping", "join", "final", "exited"}
      PROVE  Evidence'
  BY <1>1
<1>2. CASE ReadDocuments \/ Rest
  BY <1>2 DEF ReadDocuments, Rest, Workers
<1>3. ASSUME NEW w \in Workers, Turn(w) \/ Gate(w) \/ Count(w) \/ Send(w)
      PROVE  Evidence'
  BY <1>3 DEF Turn, Gate, Count, Send, Workers
<1>4. ASSUME NEW w \in Workers, Answered(w) PROVE Evidence'
  BY <1>4 DEF Answered, FromCache, Workers
<1>5. ASSUME NEW w \in Workers, Closed(w) PROVE Evidence'
  BY <1>5 DEF Closed, Disconnect, Workers
<1>6. ASSUME NEW w \in Workers, Failed(w) PROVE Evidence'
  BY <1>6 DEF Failed, Disconnect, Workers
<1>7. ASSUME NEW w \in Workers, Tally(w) PROVE Evidence'
  BY <1>7 DEF Tally, Workers
<1>8. CASE Wait \/ Pause \/ Drain \/ Row \/ Probe \/ Interrupt \/ StopAll \/ Join
           \/ UNCHANGED vars
  BY <1>1, <1>8 DEF Wait, Pause, Drain, Row, Probe, Interrupt, StopAll, Join
<1>9. CASE Metrics \/ Zombie
  BY <1>9 DEF Metrics, Zombie, AfterMetrics
<1>10. CASE Hit
  BY <1>10 DEF Hit, FromCache
<1>11. CASE Flush
  BY <1>11 DEF Flush
<1>12. CASE Miss
  BY <1>12 DEF Miss
<1>13. CASE SampleError
  BY <1>13 DEF SampleError, Disconnect
<1>14. CASE Resume
  BY <1>14 DEF Resume
<1>15. CASE Final
  BY <1>15 DEF Final, Workers
<1>16. CASE Reap \/ Evict
  BY <1>16 DEF Reap, Evict
<1>17. QED
  BY <1>2, <1>3, <1>4, <1>5, <1>6, <1>7, <1>8, <1>9, <1>10, <1>11, <1>12, <1>13, <1>14, <1>15,
     <1>16 DEF Next, Worker, Main

\* While the sampler waits for its second answer the server runs nothing else.
LEMMA EmptiedStep ==
  TypeOK /\ Quiet /\ Evidence /\ Emptied /\ [Next]_vars => Emptied'
<1> SUFFICES ASSUME TypeOK, Quiet, Evidence, Emptied, [Next]_vars,
                    ~noisy', main' = "miss", flushed'
             PROVE  cache' = "none" /\ zombies' = 0
  BY DEF Emptied
<1> USE DEF TypeOK, Bounds, Emptied, At, Goto
<1>1. ~noisy
  BY HistoryGrows DEF Remembered
<1>2. CASE Flush
  <2>1. main = "flush" /\ ~flushed /\ zombies' = zombies
    BY <1>2, Zenon DEF Flush, Evidence
  <2>2. ~Running /\ cache' = "none"
    BY <1>2, <2>1, Zenon DEF Flush
  <2>3. zombies = 0
    BY <2>2 DEF Running
  <2>4. QED
    BY <2>1, <2>2, <2>3
<1>3. ASSUME NEW w \in Workers, Worker(w) PROVE cache' = "none" /\ zombies' = 0
  <2>1. main = "miss" /\ flushed
    BY <1>3 DEF Worker, ReadDocuments, Rest, Turn, Gate, Count, Send, Answered, Closed,
       Failed, Tally
  <2>2. pc[w] \notin {"count", "request", "served"}
    BY <1>1, <2>1 DEF Quiet, Measuring
  <2>3. UNCHANGED <<cache, zombies>>
    BY <1>3, <2>2 DEF Worker, ReadDocuments, Rest, Turn, Gate, Count, Send, Answered, Closed,
       Failed, Tally
  <2>4. QED
    BY <1>1, <2>1, <2>3
<1>4. CASE Reap \/ Evict
  <2>1. main = "miss" /\ flushed
    BY <1>4 DEF Reap, Evict
  <2>2. active = {}
    BY <1>1, <2>1, ServerIdle DEF Measuring
  <2>3. cache = "none" /\ zombies = 0
    BY <1>1, <2>1
  <2>4. ~Reap /\ ~Evict
    BY <2>2, <2>3 DEF Reap, Evict
  <2>5. QED
    BY <1>4, <2>4
<1>5. CASE UNCHANGED vars
  BY <1>1, <1>5
<1>6. ~(\/ Wait \/ Pause \/ Drain \/ Row \/ Metrics \/ Zombie \/ Hit \/ Miss \/ Probe
        \/ SampleError \/ Resume \/ StopAll \/ Join \/ Final \/ Interrupt)
  BY DEF Wait, Pause, Drain, Row, Metrics, Zombie, AfterMetrics, Hit, Miss, Probe, SampleError,
     Resume, StopAll, Join, Final, Interrupt
<1>7. QED
  BY <1>2, <1>3, <1>4, <1>5, <1>6 DEF Next, Main

-----------------------------------------------------------------------------
(* What a sample reports *)

LEMMA SoakInit == Init => Events /\ Quiet /\ Heard /\ Evidence /\ Emptied
<1> SUFFICES ASSUME Init PROVE Events /\ Quiet /\ Heard /\ Evidence /\ Emptied
  OBVIOUS
<1>1. Events /\ Quiet /\ Emptied
  BY DEF Init, Events, Quiet, Emptied, Measuring
<1>2. Heard /\ Evidence
  BY DEF Init, Heard, Evidence
<1>3. QED
  BY <1>1, <1>2

LEMMA SoakAlways == Spec => [](TypeOK /\ Events /\ Quiet /\ Heard /\ Evidence /\ Emptied)
<1>1. TypeOK /\ Events /\ Quiet /\ Heard /\ Evidence /\ Emptied /\ [Next]_vars
        => Events' /\ Quiet' /\ Heard' /\ Evidence' /\ Emptied'
  BY EventsStep, QuietStep, HeardStep, EvidenceStep, EmptiedStep
<1>2. QED
  BY <1>1, SoakInit, TypeCorrect, PTL DEF Spec

\* The pause covers the whole measurement and is over whenever the main thread waits
\* for the next sample or for the workers.
THEOREM PauseMeasuresHolds == Spec => []PauseMeasures
<1>1. Events => PauseMeasures
  BY DEF Events, PauseMeasures
<1>2. QED
  BY <1>1, SoakAlways, PTL

\* Unless a sample began with a request in flight or about to be counted, an idle
\* server that runs something runs a disconnected request.
THEOREM ZombieIsRealHolds == Spec => []ZombieIsReal
<1>1. Init => ZombieIsReal
  BY DEF Init, ZombieIsReal
<1>2. TypeOK /\ Quiet /\ Evidence /\ ZombieIsReal /\ [Next]_vars => ZombieIsReal'
  <2> SUFFICES ASSUME TypeOK, Quiet, Evidence, ZombieIsReal, [Next]_vars,
                      ~noisy', idleRunning'
               PROVE  leaked'
    BY DEF ZombieIsReal
  <2>1. ~noisy /\ (leaked => leaked')
    BY HistoryGrows DEF Remembered
  <2>2. CASE Metrics
    <3>1. active = {}
      BY <2>1, <2>2, ServerIdle DEF Metrics, At, Measuring
    <3>2. Running
      BY <2>2, Zenon DEF Metrics
    <3>3. zombies > 0
      BY <3>1, <3>2 DEF Running
    <3>4. QED
      BY <2>1, <3>3 DEF Evidence
  <2>3. CASE ~Metrics
    <3>1. idleRunning
      BY <2>3, ZenonT(60) DEF Next, Worker, Main, ReadDocuments, Rest, Turn, Gate, Count, Send,
         Answered, Closed, Failed, Tally, Wait, Pause, Drain, Row, Zombie, Hit, Flush, Miss,
         Probe, SampleError, Resume, StopAll, Join, Final, Interrupt, Reap, Evict
    <3>2. QED
      BY <2>1, <3>1 DEF ZombieIsReal
  <2>4. QED
    BY <2>2, <2>3
<1>3. QED
  BY <1>1, <1>2, SoakAlways, PTL DEF Spec

\* The reference is a valid answer unless some sample was disturbed: the answer it is
\* taken from was computed from an empty cache.
THEOREM ReferenceCleanHolds == Spec => []ReferenceClean
<1>1. Init => ReferenceClean
  BY DEF Init, ReferenceClean
<1>2. Emptied /\ ReferenceClean /\ [Next]_vars => ReferenceClean'
  <2> SUFFICES ASSUME Emptied, ReferenceClean, [Next]_vars, ~noisy', reference' # None
               PROVE  reference' \in Valid
    BY DEF ReferenceClean
  <2>1. ~noisy
    BY HistoryGrows DEF Remembered
  <2>2. CASE Miss
    <3>1. CASE reference = None
      <4>1. main = "miss" /\ flushed /\ reference' \in FromCache
        BY <2>2, <3>1, Zenon DEF Miss, At
      <4>2. QED
        BY <2>1, <4>1 DEF Emptied, FromCache
    <3>2. CASE reference # None
      <4>1. reference' = reference
        BY <2>2, <3>2, Zenon DEF Miss
      <4>2. QED
        BY <2>1, <4>1, <3>2 DEF ReferenceClean
    <3>3. QED
      BY <3>1, <3>2
  <2>3. CASE ~Miss
    <3>1. reference' = reference
      BY <2>3, ZenonT(60) DEF Next, Worker, Main, ReadDocuments, Rest, Turn, Gate, Count, Send,
         Answered, Closed, Failed, Tally, Wait, Pause, Drain, Row, Metrics, Zombie, Hit, Flush,
         Probe, SampleError, Resume, StopAll, Join, Final, Interrupt, Reap, Evict
    <3>2. QED
      BY <2>1, <3>1 DEF ReferenceClean
  <2>4. QED
    BY <2>2, <2>3
<1>3. QED
  BY <1>1, <1>2, SoakAlways, PTL DEF Spec

Flips == \E a, b \in said : a # b

\* Both A3 detectors compare an answer with a valid one: the other one is then wrong,
\* which only a bad cache gives, or valid too, and the question has got two answers.
THEOREM AlarmHasCauseHolds == Spec => []AlarmHasCause
<1>1. Init => AlarmHasCause
  BY DEF Init, AlarmHasCause
<1>2. /\ TypeOK /\ Heard /\ Evidence /\ Emptied /\ ReferenceClean /\ AlarmHasCause
      /\ [Next]_vars
      => AlarmHasCause'
  <2> SUFFICES ASSUME TypeOK, Heard, Evidence, Emptied, ReferenceClean, AlarmHasCause,
                      [Next]_vars, ~noisy'
               PROVE  /\ fixed' => "hit" \in exposed' \/ Flips'
                      /\ drift' => "probe" \in exposed' \/ Flips'
    BY Zenon DEF AlarmHasCause, Flips
  <2>1. ~noisy /\ exposed \subseteq exposed' /\ said \subseteq said'
    BY HistoryGrows DEF Remembered
  <2>2. Flips => Flips'
    BY <2>1 DEF Flips
  <2>3. (fixed => "hit" \in exposed \/ Flips) /\ (drift => "probe" \in exposed \/ Flips)
    BY <2>1, Zenon DEF AlarmHasCause, Flips
  <2>4. (fixed => "hit" \in exposed' \/ Flips') /\ (drift => "probe" \in exposed' \/ Flips')
    BY <2>1, <2>2, <2>3
  <2>5. CASE Miss
    <3>1. main = "miss" /\ drift' = drift
      BY <2>5, Zenon DEF Miss, At
    <3>2. PICK miss \in FromCache :
            /\ fixed' = (fixed \/ (flushed /\ hit # miss /\ miss = reference'))
            /\ said' = Said(miss)
      BY <2>5, Zenon DEF Miss
    <3>3. ASSUME flushed, hit # miss PROVE "hit" \in exposed \/ Flips'
      <4>1. miss \in Valid /\ miss \in said'
        BY <2>1, <3>1, <3>2, <3>3 DEF Emptied, FromCache, Said
      <4>2. hit = Wrong \/ hit \in Valid
        BY <3>1 DEF Evidence, TypeOK, Values, Answer
      <4>3. CASE hit = Wrong
        BY <2>1, <4>3 DEF Heard
      <4>4. CASE hit \in Valid
        <5>1. hit \in said'
          BY <2>1, <4>4 DEF Heard
        <5>2. QED
          BY <3>3, <4>1, <5>1 DEF Flips
      <4>5. QED
        BY <4>2, <4>3, <4>4
    <3>4. "hit" \in exposed => "hit" \in exposed'
      BY <2>1
    <3>5. QED
      BY <2>4, <3>1, <3>2, <3>3, <3>4, Zenon
  <2>6. ASSUME NEW w \in Workers, Tally(w)
        PROVE  /\ fixed' => "hit" \in exposed' \/ Flips'
               /\ drift' => "probe" \in exposed' \/ Flips'
    <3>1. fixed' = fixed
      BY <2>6, Zenon DEF Tally
    <3>2. \/ drift' = drift
          \/ /\ pc[Prefix] = "tally" /\ leg = "probe"
             /\ drift' = (drift \/ (reference # None /\ out # reference))
      BY <2>6, Zenon DEF Tally, Goto
    <3>3. ASSUME pc[Prefix] = "tally", leg = "probe", reference # None, out # reference
          PROVE  "probe" \in exposed \/ Flips
      <4>1. reference \in Valid /\ reference \in said
        BY <2>1, <3>3 DEF ReferenceClean, Heard
      <4>2. out = Wrong \/ out \in Valid
        BY <3>3 DEF Evidence, TypeOK, Values, Answer
      <4>3. CASE out = Wrong
        BY <2>1, <4>3 DEF Heard
      <4>4. CASE out \in Valid
        BY <2>1, <3>3, <4>1, <4>4 DEF Heard, Flips
      <4>5. QED
        BY <4>2, <4>3, <4>4
    <3>4. drift' => drift \/ "probe" \in exposed \/ Flips
      BY <3>2, <3>3, Zenon
    <3>5. "probe" \in exposed => "probe" \in exposed'
      BY <2>1
    <3>6. QED
      BY <2>2, <2>4, <3>1, <3>4, <3>5, Zenon
  <2>7. CASE ~Miss /\ ~(\E w \in Workers : Tally(w))
    <3>1. fixed' = fixed /\ drift' = drift
      BY <2>7, Zenon DEF Next, Worker, Main, ReadDocuments, Rest, Turn, Gate, Count, Send,
         Answered, Closed, Failed, Wait, Pause, Drain, Row, Metrics, Zombie, Hit, Flush,
         Probe, SampleError, Resume, StopAll, Join, Final, Interrupt, Reap, Evict
    <3>2. QED
      BY <2>4, <3>1, Zenon
  <2>8. QED
    BY <2>5, <2>6, <2>7
<1>3. QED
  BY <1>1, <1>2, SoakAlways, ReferenceCleanHolds, PTL DEF Spec

=============================================================================
