----------------------- MODULE HybridSnapshotProofs -----------------------
(***************************************************************************)
(* Theorems about the hybrid snapshot for any shards and destinations. The *)
(* ones about the bytes assume that each destination is built in one mode. *)
(***************************************************************************)
EXTENDS HybridSnapshot, TLAPS

USE ShardAssumption, ModeAssumption, NameAssumption DEF runVars, vars

-----------------------------------------------------------------------------
(* Type correctness *)

LEMMA JsonFiles == Jsons \subseteq Files /\ Shards \subseteq Files /\ Index \in Jsons
                   /\ Quant \in Jsons /\ Config \in Jsons
  BY DEF Files, Jsons

\* What a stage writes are files.
LEMMA StageFiles ==
  ASSUME mode \in AllModes, NEW st \in {"link", "shard", "index", "quant"}
  PROVE  After(st) \in Stages /\ FilesOf(After(st)) \subseteq Files
  BY JsonFiles DEF After, FilesOf, ToConvert, Rewritten, Stages

LEMMA WriteType ==
  ASSUME TypeOK, NEW f \in Files, NEW c, c = "torn" \/ c \in (IF f \in Shards THEN {"fp8"} ELSE AllModes),
         Write(f, c)
  PROVE  /\ source' \in [Shards -> {"source", "fp8", "torn"}]
         /\ dst' \in [Dirs -> [Files -> Contents \cup {"link", "absent"}]]
         /\ \A d \in Dirs, g \in Jsons : dst'[d][g] \in AllModes \cup {"torn", "absent"}
<1> USE DEF TypeOK
<1>1. f \in Jsons => f \notin Shards
  OBVIOUS
<1>2. c \in Contents
  BY DEF Contents
<1>3. CASE f \in Shards /\ dst[dir][f] = "link"
  BY <1>3 DEF Write
<1>4. CASE ~(f \in Shards /\ dst[dir][f] = "link")
  <2>1. dst' = [dst EXCEPT ![dir][f] = c] /\ UNCHANGED source
    BY <1>4 DEF Write
  <2>2. dst' \in [Dirs -> [Files -> Contents \cup {"link", "absent"}]]
    BY <2>1, <1>2
  <2>3. \A d \in Dirs, g \in Jsons : dst'[d][g] \in AllModes \cup {"torn", "absent"}
    BY <2>1, <1>1, JsonFiles
  <2>4. QED
    BY <2>1, <2>2, <2>3
<1>5. QED
  BY <1>3, <1>4

LEMMA TypeStep == TypeOK /\ [Next]_vars => TypeOK'
<1> SUFFICES ASSUME TypeOK, [Next]_vars PROVE TypeOK'
  OBVIOUS
<1>1. ASSUME NEW d \in Dirs, NEW m \in AllModes, Begin(d, m) PROVE TypeOK'
  BY <1>1 DEF TypeOK, Begin, Linked, Files, Stages
<1>2. ASSUME NEW s \in Shards, Link(s) PROVE TypeOK'
  <2> USE <1>2 DEF TypeOK
  <2>1. dst' \in [Dirs -> [Files -> Contents \cup {"link", "absent"}]]
    BY JsonFiles DEF Link
  <2>2. \A d \in Dirs, g \in Jsons : dst'[d][g] = dst[d][g]
    BY JsonFiles DEF Link
  <2>3. UNCHANGED <<source, stage, dir, mode, finished>> /\ todo' \subseteq Files
    BY DEF Link
  <2>4. QED
    BY <2>1, <2>2, <2>3
<1>3. ASSUME NEW f \in Files, Truncate(f) PROVE TypeOK'
  <2>1. Write(f, "torn") /\ UNCHANGED <<runVars, finished>>
    BY <1>3 DEF Truncate
  <2>2. QED
    BY <2>1, WriteType DEF TypeOK
<1>4. ASSUME NEW f \in Files, Fill(f) PROVE TypeOK'
  <2>1. /\ Write(f, IF f \in Shards THEN "fp8" ELSE mode)
        /\ todo' = todo \ {f} /\ UNCHANGED <<stage, dir, mode, finished>>
    BY <1>4 DEF Fill
  <2>2. QED
    BY <2>1, WriteType DEF TypeOK
<1>5. CASE Advance
  <2>1. stage \in {"link", "shard", "index", "quant"}
    BY <1>5 DEF Advance, TypeOK, Stages
  <2>2. stage' \in Stages /\ todo' \subseteq Files
    BY <1>5, <2>1, StageFiles DEF Advance, TypeOK
  <2>3. QED
    BY <1>5, <2>2 DEF Advance, TypeOK
<1>6. CASE Return
  BY <1>6 DEF Return, TypeOK, Stages
<1>7. CASE Crash
  BY <1>7 DEF Crash, TypeOK, Stages
<1>8. CASE UNCHANGED vars
  BY <1>8 DEF TypeOK
<1>9. QED
  BY <1>1, <1>2, <1>3, <1>4, <1>5, <1>6, <1>7, <1>8 DEF Next

\* The state keeps its type; no JSON file of a destination becomes a link.
THEOREM TypeCorrect == Spec => []TypeOK
<1>1. Init => TypeOK
  BY DEF Init, TypeOK, Contents, Stages, Jsons, Files
<1>2. QED
  BY <1>1, TypeStep, PTL DEF Spec

-----------------------------------------------------------------------------
(* The bytes, when each destination is built in one mode *)

OneMode == \A d \in Dirs : \A m \in Modes[d], n \in Modes[d] : m = n

\* A shard that the mode rewrites is never a link; one that it does not, nothing else.
Kept ==
  \A d \in Dirs, m \in AllModes, s \in Shards :
    m \in Modes[d] =>
      IF s \in Rewritten(m) THEN dst[d][s] \in {"absent", "torn", "fp8"}
                            ELSE dst[d][s] \in {"absent", "link"}

\* What a finished file of a destination built in mode m is.
Good(d, m, f) ==
  dst[d][f] = IF f \in Jsons THEN m ELSE IF f \in Rewritten(m) THEN "fp8" ELSE "link"

\* The files of the stages before st, and those of st.
Before(st, m) ==
  CASE st = "link" -> {} [] st = "shard" -> Linked(m) [] st = "index" -> Shards
    [] st = "quant" -> Shards \cup {Index} [] st = "config" -> Shards \cup {Index, Quant}
Of(st, m) ==
  CASE st = "link" -> Linked(m) [] st = "shard" -> Rewritten(m) [] st = "index" -> {Index}
    [] st = "quant" -> {Quant} [] st = "config" -> {Config}

\* A run is in a mode of its destination and has done the files that are not left.
Running ==
  stage # "none" =>
    /\ mode \in Modes[dir] /\ finished[dir] = "none" /\ todo \subseteq Of(stage, mode)
    /\ \A f \in Before(stage, mode) \cup (Of(stage, mode) \ todo) : Good(dir, mode, f)

AllDone ==
  \A d \in Dirs : finished[d] # "none" =>
    finished[d] \in Modes[d] /\ \A f \in Files : Good(d, finished[d], f)

IInv == SourceUntouched /\ Kept /\ Running /\ AllDone

LEMMA InvInit == Init => IInv
  BY DEF Init, IInv, SourceUntouched, Kept, Running, AllDone, Files, AllModes

\* A write of a file of the stage changes this file of this destination and no other.
LEMMA WriteOwn ==
  ASSUME TypeOK, IInv, stage \in {"shard", "index", "quant", "config"},
         NEW f \in todo, NEW c, Write(f, c)
  PROVE  /\ f \in Files /\ f \in Of(stage, mode)
         /\ dst' = [dst EXCEPT ![dir][f] = c] /\ UNCHANGED source
         /\ f \in Shards => f \in Rewritten(mode)
<1>1. f \in Of(stage, mode) /\ mode \in Modes[dir] /\ f \in Files
  BY DEF IInv, Running, TypeOK
<1>2. f \in Shards => f \in Rewritten(mode)
  BY <1>1, JsonFiles DEF Of
<1>3. f \in Shards => dst[dir][f] # "link"
  BY <1>1, <1>2 DEF IInv, Kept, TypeOK
<1>4. QED
  BY <1>1, <1>2, <1>3 DEF Write

LEMMA OfApart ==
  ASSUME NEW m \in AllModes, NEW st \in Stages \ {"none"}
  PROVE  Before(st, m) \cap Of(st, m) = {} /\ Before(st, m) \subseteq Files /\ Of(st, m) \subseteq Files
<1>1. Rewritten(m) \subseteq Shards /\ Linked(m) = Shards \ Rewritten(m)
  BY DEF Rewritten, Linked
<1>2. Index \notin Shards /\ Quant \notin Shards /\ Config \notin Shards
      /\ Index # Quant /\ Index # Config /\ Quant # Config
  BY DEF Jsons, Index, Quant, Config
<1>3. QED
  BY <1>1, <1>2, JsonFiles DEF Before, Of, Stages

\* Truncate and Fill.
LEMMA WriteStep ==
  ASSUME OneMode, TypeOK, IInv, stage \in {"shard", "index", "quant", "config"},
         NEW f \in todo, NEW c, Write(f, c), UNCHANGED <<stage, dir, mode, finished>>,
         \/ c = "torn" /\ todo' = todo
         \/ c = (IF f \in Shards THEN "fp8" ELSE mode) /\ todo' = todo \ {f}
  PROVE  IInv'
<1>1. /\ f \in Files /\ f \in Of(stage, mode)
      /\ dst' = [dst EXCEPT ![dir][f] = c] /\ UNCHANGED source
      /\ f \in Shards => f \in Rewritten(mode)
  BY WriteOwn
<1>2. /\ mode \in Modes[dir] /\ finished[dir] = "none" /\ todo \subseteq Of(stage, mode)
      /\ \A g \in Before(stage, mode) \cup (Of(stage, mode) \ todo) : Good(dir, mode, g)
  BY DEF IInv, Running
<1>3. \A d \in Dirs, g \in Files : d # dir \/ g # f => dst'[d][g] = dst[d][g]
  BY <1>1 DEF TypeOK
<1>4. dst'[dir][f] = c
  BY <1>1 DEF TypeOK
<1>5. mode \in AllModes /\ dir \in Dirs /\ stage \in Stages \ {"none"}
  BY DEF TypeOK
<1>6. SourceUntouched'
  BY <1>1 DEF IInv, SourceUntouched
<1>7. Kept'
  <2>1. SUFFICES ASSUME NEW d \in Dirs, NEW m \in AllModes, NEW s \in Shards, m \in Modes[d]
                 PROVE  IF s \in Rewritten(m) THEN dst'[d][s] \in {"absent", "torn", "fp8"}
                                              ELSE dst'[d][s] \in {"absent", "link"}
    BY DEF Kept, Rewritten
  <2>2. CASE d = dir /\ s = f
    <3>1. m = mode
      BY <1>2, <2>1, <2>2, <1>5 DEF OneMode
    <3>2. s \in Rewritten(m) /\ c \in {"torn", "fp8"}
      BY <1>1, <2>2, <3>1
    <3>3. QED
      BY <3>2, <2>2, <1>4
  <2>3. CASE ~(d = dir /\ s = f)
    <3>1. dst'[d][s] = dst[d][s]
      BY <1>3, <2>3 DEF Files
    <3>2. QED
      BY <3>1, <2>1 DEF IInv, Kept
  <2>4. QED
    BY <2>2, <2>3
<1>8. Running'
  <2>1. SUFFICES ASSUME NEW g \in Before(stage, mode) \cup (Of(stage, mode) \ todo')
                 PROVE  Good(dir, mode, g)'
    BY <1>2 DEF Running, Before, Of, Linked, Rewritten
  <2>2. CASE g = f
    <3>1. g \notin Before(stage, mode)
      BY <1>1, <1>5, <2>2, OfApart
    <3>2. c = IF f \in Shards THEN "fp8" ELSE mode
      BY <2>1, <2>2, <3>1
    <3>3. f \in Jsons <=> f \notin Shards
      BY <1>1 DEF Files
    <3>4. QED
      BY <2>2, <3>2, <3>3, <1>1, <1>4 DEF Good, Rewritten
  <2>3. CASE g # f
    <3>1. g \in Before(stage, mode) \cup (Of(stage, mode) \ todo)
      BY <2>1, <2>3
    <3>2. g \in Files
      BY <3>1, OfApart, <1>5
    <3>3. dst'[dir][g] = dst[dir][g]
      BY <3>2, <2>3, <1>3, <1>5
    <3>4. QED
      BY <3>1, <3>3, <1>2 DEF Good, Rewritten
  <2>4. QED
    BY <2>2, <2>3
<1>9. AllDone'
  <2>1. SUFFICES ASSUME NEW d \in Dirs, finished[d] # "none"
                 PROVE  finished[d] \in Modes[d] /\ \A g \in Files : Good(d, finished[d], g)'
    BY DEF AllDone, Good, Rewritten
  <2>2. d # dir
    BY <2>1, <1>2
  <2>3. QED
    BY <2>1, <2>2, <1>3 DEF IInv, AllDone, Good, Rewritten
<1>10. QED
  BY <1>6, <1>7, <1>8, <1>9 DEF IInv

LEMMA LinkStep ==
  ASSUME OneMode, TypeOK, IInv, NEW s \in Shards, Link(s)
  PROVE  IInv'
<1>1. /\ mode \in Modes[dir] /\ finished[dir] = "none" /\ todo \subseteq Linked(mode)
      /\ \A f \in Linked(mode) \ todo : Good(dir, mode, f)
      /\ s \in Linked(mode) /\ mode \in AllModes /\ dir \in Dirs
  BY DEF Link, IInv, Running, Of, Before, TypeOK
<1>2. /\ UNCHANGED <<source, stage, dir, mode, finished>> /\ stage = "link"
      /\ todo' = todo \ {s}
  BY DEF Link
<1>3. \A d \in Dirs, f \in Files : d # dir \/ f # s => dst'[d][f] = dst[d][f]
  BY DEF Link, TypeOK
<1>4. s \notin Rewritten(mode) /\ dst[dir][s] \in {"absent", "link"}
  BY <1>1 DEF Linked, IInv, Kept
<1>5. dst'[dir][s] = "link"
  BY <1>1, <1>4, JsonFiles DEF Link, TypeOK
<1>6. SourceUntouched'
  BY <1>2 DEF IInv, SourceUntouched
<1>7. Kept'
  <2>1. SUFFICES ASSUME NEW d \in Dirs, NEW m \in AllModes, NEW g \in Shards, m \in Modes[d]
                 PROVE  IF g \in Rewritten(m) THEN dst'[d][g] \in {"absent", "torn", "fp8"}
                                              ELSE dst'[d][g] \in {"absent", "link"}
    BY DEF Kept, Rewritten
  <2>2. CASE d = dir /\ g = s
    <3>1. m = mode
      BY <1>1, <2>1, <2>2 DEF OneMode
    <3>2. QED
      BY <3>1, <2>2, <1>4, <1>5
  <2>3. CASE ~(d = dir /\ g = s)
    <3>1. dst'[d][g] = dst[d][g]
      BY <1>3, <2>3 DEF Files
    <3>2. QED
      BY <3>1, <2>1 DEF IInv, Kept
  <2>4. QED
    BY <2>2, <2>3
<1>8. Running'
  <2>1. SUFFICES ASSUME NEW g \in Linked(mode) \ (todo \ {s}) PROVE Good(dir, mode, g)'
    BY <1>1, <1>2 DEF Running, Before, Of, Linked, Rewritten
  <2>2. CASE g = s
    BY <2>2, <1>2, <1>4, <1>5 DEF Good, Rewritten
  <2>3. CASE g # s
    BY <2>1, <2>3, <1>1, <1>2, <1>3, JsonFiles DEF Good, Rewritten, Linked
  <2>4. QED
    BY <2>2, <2>3
<1>9. AllDone'
  <2>1. SUFFICES ASSUME NEW d \in Dirs, finished[d] # "none"
                 PROVE  finished[d] \in Modes[d] /\ \A g \in Files : Good(d, finished[d], g)'
    BY <1>2 DEF AllDone, Good, Rewritten
  <2>2. d # dir
    BY <2>1, <1>1
  <2>3. finished[d] \in Modes[d] /\ \A g \in Files : Good(d, finished[d], g)
    BY <2>1 DEF IInv, AllDone
  <2>4. \A g \in Files : dst'[d][g] = dst[d][g]
    BY <2>2, <1>3
  <2>5. QED
    BY <1>2, <2>3, <2>4 DEF Good, Rewritten
<1>10. QED
  BY <1>6, <1>7, <1>8, <1>9 DEF IInv

\* What is done when a stage is over is what the next one finds done.
LEMMA StageOver ==
  ASSUME NEW m \in AllModes, NEW st \in {"link", "shard", "index", "quant"}
  PROVE  Before(After(st), m) = Before(st, m) \cup Of(st, m)
  BY DEF Before, After, Of, Linked, Rewritten

LEMMA AdvanceStep ==
  ASSUME TypeOK, IInv, Advance
  PROVE  IInv'
<1>1. stage \in {"link", "shard", "index", "quant"} /\ mode \in AllModes
  BY DEF Advance, TypeOK, Stages
<1>2. /\ mode \in Modes[dir] /\ finished[dir] = "none"
      /\ \A f \in Before(stage, mode) \cup Of(stage, mode) : Good(dir, mode, f)
  BY <1>1 DEF Advance, IInv, Running
<1>3. /\ stage' = After(stage) /\ UNCHANGED <<source, dst, dir, mode, finished>>
      /\ todo' = Of(After(stage), mode)
  BY <1>1 DEF Advance, FilesOf, Of, After, ToConvert
<1>4. Running'
  <2>1. \A f \in Before(After(stage), mode) : Good(dir, mode, f)
    BY <1>1, <1>2, StageOver
  <2>2. \A f : Good(dir, mode, f)' = Good(dir, mode, f)
    BY <1>3 DEF Good, Rewritten
  <2>3. Before(stage', mode') = Before(After(stage), mode) /\ Of(stage', mode') = todo'
    BY <1>3
  <2>4. QED
    BY <2>1, <2>2, <2>3, <1>2, <1>3 DEF Running, Before, Of, Linked, Rewritten
<1>5. SourceUntouched' /\ Kept' /\ AllDone'
  BY <1>3 DEF IInv, SourceUntouched, Kept, AllDone, Good, Rewritten
<1>6. QED
  BY <1>4, <1>5 DEF IInv

LEMMA InvStep == OneMode => (TypeOK /\ IInv /\ [Next]_vars => IInv')
<1> SUFFICES ASSUME OneMode, TypeOK, IInv, [Next]_vars PROVE IInv'
  OBVIOUS
<1>1. ASSUME NEW d \in Dirs, NEW m \in AllModes, Begin(d, m) PROVE IInv'
  <2>1. /\ UNCHANGED <<source, dst>> /\ m \in Modes[d] /\ stage' = "link" /\ dir' = d
        /\ mode' = m /\ todo' = Linked(m) /\ finished' = [finished EXCEPT ![d] = "none"]
    BY <1>1 DEF Begin
  <2>2. finished'[d] = "none"
    BY <2>1 DEF TypeOK
  <2>3. Running'
    BY <2>1, <2>2 DEF Running, Before, Of, Linked, Rewritten
  <2>4. AllDone'
    BY <2>1 DEF IInv, AllDone, Good, Rewritten, TypeOK
  <2>5. SourceUntouched' /\ Kept'
    BY <2>1 DEF IInv, SourceUntouched, Kept, Rewritten
  <2>6. QED
    BY <2>3, <2>4, <2>5 DEF IInv
<1>2. ASSUME NEW s \in Shards, Link(s) PROVE IInv'
  BY <1>2, LinkStep
<1>3. ASSUME NEW f \in Files, Truncate(f) PROVE IInv'
  BY <1>3, WriteStep DEF Truncate
<1>4. ASSUME NEW f \in Files, Fill(f) PROVE IInv'
  BY <1>4, WriteStep DEF Fill
<1>5. CASE Advance
  BY <1>5, AdvanceStep
<1>6. CASE Return
  <2>1. /\ UNCHANGED <<source, dst, dir, mode, todo>> /\ stage' = "none"
        /\ finished' = [finished EXCEPT ![dir] = mode]
    BY <1>6 DEF Return
  <2>2. /\ mode \in Modes[dir]
        /\ \A f \in Shards \cup {Index, Quant, Config} : Good(dir, mode, f)
    BY <1>6 DEF Return, IInv, Running, Before, Of
  <2>3. AllDone'
    <3>1. SUFFICES ASSUME NEW d \in Dirs, finished'[d] # "none"
                   PROVE  /\ finished'[d] \in Modes[d]
                          /\ \A g \in Files : Good(d, finished'[d], g)
      BY <2>1 DEF AllDone, Good, Rewritten
    <3>2. CASE d = dir
      BY <3>2, <2>1, <2>2 DEF TypeOK, Files, Jsons
    <3>3. CASE d # dir
      BY <3>1, <3>3, <2>1 DEF TypeOK, IInv, AllDone
    <3>4. QED
      BY <3>2, <3>3
  <2>4. SourceUntouched' /\ Kept' /\ Running'
    BY <2>1 DEF IInv, SourceUntouched, Kept, Running, Rewritten
  <2>5. QED
    BY <2>3, <2>4 DEF IInv
<1>7. CASE Crash
  BY <1>7 DEF Crash, IInv, SourceUntouched, Kept, Running, AllDone, Good, Rewritten
<1>8. CASE UNCHANGED vars
  BY <1>8 DEF IInv, SourceUntouched, Kept, Running, AllDone, Good, Before, Of, Linked, Rewritten
<1>9. QED
  BY <1>1, <1>2, <1>3, <1>4, <1>5, <1>6, <1>7, <1>8 DEF Next

LEMMA Invariance == ASSUME OneMode PROVE Spec => [](TypeOK /\ IInv)
<1>1. TypeOK /\ IInv /\ [Next]_vars => IInv'
  BY InvStep
<1>2. QED
  BY <1>1, InvInit, TypeCorrect, PTL DEF Spec

-----------------------------------------------------------------------------
(* The properties *)

\* When each destination is built in one mode, no run, killed or not, writes the source.
THEOREM SourceIsUntouched == ASSUME OneMode PROVE Spec => []SourceUntouched
<1>1. IInv => SourceUntouched
  BY DEF IInv
<1>2. QED
  BY Invariance, <1>1, PTL

\* When each destination is built in one mode, a finished run leaves what its configuration
\* describes.
THEOREM FinishedRunsMatch == ASSUME OneMode PROVE Spec => []FinishedMatches
<1>1. TypeOK /\ IInv => FinishedMatches
  <2>1. SUFFICES ASSUME TypeOK, IInv, NEW d \in Dirs, finished[d] # "none"
                 PROVE  /\ \A f \in Jsons : dst[d][f] = finished[d]
                        /\ \A s \in Shards : Resolved(d, s) =
                             IF s \in Rewritten(finished[d]) THEN "fp8" ELSE "source"
    BY DEF FinishedMatches
  <2>2. \A f \in Files : Good(d, finished[d], f)
    BY <2>1 DEF IInv, AllDone
  <2>3. QED
    BY <2>1, <2>2, JsonFiles DEF Good, Resolved, IInv, SourceUntouched, Files
<1>2. QED
  BY Invariance, <1>1, PTL
=============================================================================
