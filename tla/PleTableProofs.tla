--------------------------- MODULE PleTableProofs ---------------------------
(***************************************************************************)
(* Theorems about the PLE table for every set of checkpoints, shards,      *)
(* windows and samples, and every number of boots and faults.              *)
(***************************************************************************)
EXTENDS PleTable, TLAPS

USE SampleAssumption, ContentAssumption, NoneAssumption, BoundAssumption
    DEF vars, fileVars, jobVars, loadVars, boundVars

-----------------------------------------------------------------------------
(* Type correctness *)

\* A server only ever maps a file of the right size.
THEOREM TypeCorrect == Spec => []TypeOK
<1> USE DEF TypeOK
<1>1. Init => TypeOK
  <2> SUFFICES ASSUME Init PROVE TypeOK
    OBVIOUS
  <2>1. Blank \in [Cells -> Bytes]
    BY DEF Blank
  <2>2. page \in [Names -> [Cells -> Bytes]]
    <3>1. PICK c \in [Names -> Ckpt] :
            page = [n \in Names |-> IF size[n] = "right" THEN Content[c[n]] ELSE Blank]
      BY DEF Init
    <3>2. ASSUME NEW n \in Names PROVE Content[c[n]] \in [Cells -> Bytes]
      OBVIOUS
    <3>3. QED
      BY <2>1, <3>1, <3>2
  <2>3. registry \in [Names \cup {"dir"} -> Ckpt \cup {None, Torn}]
    BY DEF Init, NoRecord
  <2>4. /\ bound \in BOOLEAN /\ first \in BOOLEAN /\ reuse \in BOOLEAN
        /\ present \in BOOLEAN
    BY DEF Init
  <2>5. backing \in Names /\ path \in Names
    BY DEF Init, Names
  <2>6. boots \in 0..MaxBoots /\ faults \in 0..MaxFaults
    BY DEF Init
  <2>7. QED
    BY <2>2, <2>3, <2>4, <2>5, <2>6 DEF Init
<1>2. TypeOK /\ [Next]_vars => TypeOK'
  <2> SUFFICES ASSUME TypeOK, [Next]_vars PROVE TypeOK'
    OBVIOUS
  <2>1. ASSUME NEW c \in Ckpt, NEW b \in BOOLEAN, ManualBoot(c, b) PROVE TypeOK'
    <3>1. reuse' = b
      BY <2>1 DEF ManualBoot
    <3>2. reuse' \in BOOLEAN
      BY <3>1, Zenon
    <3>3. bound' \in BOOLEAN /\ first' \in BOOLEAN /\ present' \in BOOLEAN
      BY <2>1 DEF ManualBoot
    <3>4. QED
      BY <2>1, <3>2, <3>3 DEF ManualBoot
  <2>2. ASSUME NEW c \in Ckpt, NEW b \in BOOLEAN, Identify(c, b) PROVE TypeOK'
    <3>1. first' \in BOOLEAN /\ present' \in BOOLEAN /\ backing' \in Names
      BY <2>2 DEF Identify, Backing, RightSized, Names
    <3>2. QED
      BY <2>2, <3>1 DEF Identify
  <2>3. ASSUME NEW from, NEW to \in {"bindDir", "launch", "down"},
               NEW k \in Names \cup {"dir"}, Bind(from, to, k)
        PROVE  TypeOK'
    BY <2>3, SMTT(60) DEF Bind
  <2>4. CASE BindPath
    BY <2>3, <2>4 DEF BindPath
  <2>5. CASE BindDir
    BY <2>3, <2>5 DEF BindDir
  <2>6. CASE TearRecord
    BY <2>6 DEF TearRecord
  <2>7. CASE Alloc
    BY <2>7 DEF Alloc, Mapped, Blank, Names
  <2>8. ASSUME NEW s \in Shards, CheckShard(s) PROVE TypeOK'
    BY <2>8 DEF CheckShard, Cells
  <2>9. ASSUME NEW x \in Cells, CopyWindow(x) PROVE TypeOK'
    BY <2>9 DEF CopyWindow
  <2>10. CASE Loaded \/ UNCHANGED vars
    BY <2>10 DEF Loaded
  <2>11. CASE Stop
    BY <2>11 DEF Stop
  <2>12. ASSUME NEW n \in Names, NEW x \in Cells, Writeback(n, x) PROVE TypeOK'
    BY <2>12 DEF Writeback
  <2>13. CASE HostCrash
    BY <2>13 DEF HostCrash
  <2>14. QED
    BY <2>1, <2>2, <2>4, <2>5, <2>6, <2>7, <2>8, <2>9, <2>10, <2>11, <2>12, <2>13, ZenonT(60)
       DEF Next
<1>3. QED
  BY <1>1, <1>2, PTL DEF Spec

-----------------------------------------------------------------------------
(* What an experiment's boot is allowed to do *)

\* What ple_identity saw is still so when the server maps a file: the one it settled on,
\* unless the engine does not know its name.
Admitted ==
  bound =>
    /\ pc \in {"bindPath", "bindDir", "launch"} =>
         /\ present <=> size[backing] = "right"
         /\ backing \in Backing
         /\ ~present => first
    /\ pc = "launch" => ~(first /\ present)
    /\ pc \in {"launch", "load", "serving"} => registry["dir"] = ck
    /\ present /\ pc \in {"load", "serving"} =>
         path = backing \/ (backing = "other" /\ path = "native")

\* Every step keeps what an experiment's boot was admitted with.
THEOREM AdmittedAlways == Spec => []Admitted
<1> USE DEF TypeOK, Admitted, Backing, RightSized, Mapped, Names
<1>1. Init => Admitted
  BY DEF Init
<1>2. TypeOK /\ Admitted /\ [Next]_vars => Admitted'
  <2> SUFFICES ASSUME TypeOK, Admitted, [Next]_vars PROVE Admitted'
    OBVIOUS
  <2>1. ASSUME NEW c \in Ckpt, NEW b \in BOOLEAN, ManualBoot(c, b) \/ Identify(c, b)
        PROVE  Admitted'
    <3>1. CASE ManualBoot(c, b)
      BY <3>1 DEF ManualBoot
    <3>2. CASE Identify(c, b)
      <4>1. /\ pc' = "bindPath" /\ backing' \in Backing /\ size' = size /\ first' = b
            /\ present' <=> size[backing'] = "right"
            /\ size[backing'] = "right" \/ b
        BY <3>2, Zenon DEF Identify, fileVars
      <4>2. Backing' = Backing
        BY <4>1
      <4>3. ~present' => first'
        BY <4>1, Zenon
      <4> HIDE DEF Backing
      <4>4. QED
        BY <4>1, <4>2, <4>3
    <3>3. QED
      BY <2>1, <3>1, <3>2
  <2>2. CASE BindPath
    BY <2>2 DEF BindPath, Bind
  <2>3. CASE BindDir
    BY <2>3 DEF BindDir, Bind
  <2>4. CASE TearRecord \/ Stop \/ HostCrash
    BY <2>4 DEF TearRecord, Stop, HostCrash
  <2>5. CASE Alloc
    <3>1. /\ UNCHANGED <<bound, present, backing, first, registry, ck>>
          /\ pc = "launch" /\ pc' = "load" /\ path' = Mapped
      BY <2>5 DEF Alloc
    <3>2. bound /\ present => size[backing] = "right" /\ backing \in Backing
      BY <3>1
    <3>3. bound /\ present => Mapped = backing \/ (backing = "other" /\ Mapped = "native")
      BY <3>2
    <3>4. QED
      BY <3>1, <3>3
  <2>6. ASSUME NEW s \in Shards, CheckShard(s) PROVE Admitted'
    BY <2>6 DEF CheckShard
  <2>7. ASSUME NEW x \in Cells, CopyWindow(x) PROVE Admitted'
    BY <2>7 DEF CopyWindow
  <2>8. ASSUME NEW n \in Names, NEW x \in Cells, Writeback(n, x) PROVE Admitted'
    BY <2>8 DEF Writeback
  <2>9. CASE Loaded
    BY <2>9 DEF Loaded
  <2>10. CASE UNCHANGED vars
    <3>1. Backing' = Backing
      BY <2>10
    <3> HIDE DEF Backing
    <3>2. QED
      BY <2>10, <3>1
  <2>11. QED
    BY <2>1, <2>2, <2>3, <2>4, <2>5, <2>6, <2>7, <2>8, <2>9, <2>10, ZenonT(60) DEF Next
<1>3. QED
  BY <1>1, <1>2, TypeCorrect, PTL DEF Spec

\* Experiments on one directory use the one checkpoint it is bound to.
THEOREM ExperimentBoundHolds == Spec => []ExperimentBound
<1>1. Admitted => ExperimentBound
  BY DEF Admitted, ExperimentBound
<1>2. QED
  BY <1>1, AdmittedAlways, PTL

-----------------------------------------------------------------------------
(* What the loader has established *)

\* Windows of shard s that the copy under way has not written.
Unwritten(s) == {w \in Windows : <<s, w>> \in left}

\* A shard the loader has passed is right but for the windows being copied, or it
\* was skipped and its samples agree.
Passed(s) ==
  \/ \A w \in Windows \ Unwritten(s) : page[path][<<s, w>>] = Content[ck][<<s, w>>]
  \/ Unwritten(s) = {} /\ Agree(path, ck, s, ReuseSample)

Progress ==
  /\ pc # "load" => left = {}
  /\ pc = "serving" => todo = {}
  /\ \A s \in todo : Unwritten(s) = {}
  /\ \A s, t \in Shards : Unwritten(s) # {} /\ Unwritten(t) # {} => s = t
  /\ pc \in {"load", "serving"} => \A s \in Shards \ todo : Passed(s)

\* Every step of a boot keeps what the loader has established.
THEOREM ProgressAlways == Spec => []Progress
<1> USE DEF TypeOK, Progress, Passed, Unwritten, Agree, Cells
<1>1. Init => Progress
  BY DEF Init
<1>2. TypeOK /\ Progress /\ [Next]_vars => Progress'
  <2> SUFFICES ASSUME TypeOK, Progress, [Next]_vars PROVE Progress'
    OBVIOUS
  <2>1. ASSUME NEW c \in Ckpt, NEW b \in BOOLEAN, ManualBoot(c, b) \/ Identify(c, b)
        PROVE  Progress'
    BY <2>1 DEF ManualBoot, Identify
  <2>2. CASE BindPath \/ BindDir \/ TearRecord
    BY <2>2 DEF BindPath, BindDir, Bind, TearRecord
  <2>3. CASE Stop \/ HostCrash
    BY <2>3 DEF Stop, HostCrash
  <2>4. CASE Alloc
    BY <2>4 DEF Alloc
  <2>5. ASSUME NEW s \in Shards, CheckShard(s) PROVE Progress'
    <3>1. CASE Matches(s)
      BY <2>5, <3>1, ZenonT(60) DEF CheckShard, Matches
    <3>2. CASE ~Matches(s)
      <4>1. left' = {s} \X Windows /\ left = {} /\ todo' = todo \ {s}
        BY <2>5, <3>2 DEF CheckShard
      <4>2. \A t \in Shards : Unwritten(t) = {} /\ Unwritten(t)' = IF t = s THEN Windows ELSE {}
        BY <4>1
      <4>3. ASSUME NEW t \in Shards \ todo PROVE Passed(t)'
        <5>1. Passed(t) /\ t # s /\ Unwritten(t) = {} /\ Unwritten(t)' = {}
          BY <2>5, <4>2, SMTT(60) DEF CheckShard
        <5>2. page' = page /\ path' = path /\ ck' = ck /\ reuse' = reuse
          BY <2>5 DEF CheckShard
        <5> HIDE DEF Unwritten
        <5>3. QED
          BY <5>1, <5>2
      <4>4. Passed(s)'
        BY <4>2
      <4>5. \A t \in Shards \ todo' : Passed(t)'
        BY <4>1, <4>3, <4>4
      <4>6. /\ \A t \in todo' : Unwritten(t)' = {}
            /\ \A t, u \in Shards : Unwritten(t)' # {} /\ Unwritten(u)' # {} => t = u
        <5> HIDE DEF Unwritten
        <5>1. QED
          BY <4>1, <4>2
      <4>7. pc' = "load"
        BY <2>5 DEF CheckShard
      <4>8. QED
        BY <4>5, <4>6, <4>7
    <3>3. QED
      BY <3>1, <3>2
  <2>6. ASSUME NEW s \in Shards, NEW v \in Windows, CopyWindow(<<s, v>>) PROVE Progress'
    <3>1. /\ v \in Unwritten(s) /\ s \notin todo
          /\ \A t \in Shards \ {s} : Unwritten(t) = {} /\ Unwritten(t)' = {}
          /\ Unwritten(s)' = Unwritten(s) \ {v}
      BY <2>6 DEF CopyWindow
    <3>2. page'[path] = [page[path] EXCEPT ![<<s, v>>] = Content[ck][<<s, v>>]]
      BY <2>6 DEF CopyWindow
    <3>3. /\ page'[path][<<s, v>>] = Content[ck][<<s, v>>]
          /\ \A t \in Shards, w \in Windows :
               <<t, w>> # <<s, v>> => page'[path][<<t, w>>] = page[path][<<t, w>>]
      BY <3>2
    <3>4. \A t \in Shards \ todo : Passed(t)'
      <4> SUFFICES ASSUME NEW t \in Shards \ todo PROVE Passed(t)'
        OBVIOUS
      <4>1. Passed(t) /\ path' = path /\ ck' = ck /\ reuse' = reuse
        BY <2>6 DEF CopyWindow
      <4>2. CASE t = s
        BY <3>1, <3>3, <4>1, <4>2, ZenonT(60)
      <4>3. CASE t # s
        BY <3>1, <3>3, <4>1, <4>3
      <4>4. QED
        BY <4>2, <4>3
    <3>5. QED
      BY <2>6, <3>1, <3>4, ZenonT(60) DEF CopyWindow
  <2>7. ASSUME NEW n \in Names, NEW x \in Cells, Writeback(n, x) PROVE Progress'
    BY <2>7, ZenonT(60) DEF Writeback
  <2>8. CASE Loaded \/ UNCHANGED vars
    BY <2>8, ZenonT(60) DEF Loaded
  <2>9. ASSUME NEW x \in Cells, CopyWindow(x) PROVE Progress'
    <3>1. PICK s \in Shards, v \in Windows : x = <<s, v>>
      OBVIOUS
    <3>2. CopyWindow(<<s, v>>)
      BY <2>9, <3>1
    <3>3. QED
      BY <2>6, <3>2
  <2> HIDE DEF Progress
  <2>10. QED
    BY <2>1, <2>2, <2>3, <2>4, <2>5, <2>7, <2>8, <2>9 DEF Next
<1>3. QED
  BY <1>1, <1>2, TypeCorrect, PTL DEF Spec

\* Every shard served agrees with the checkpoint in every sampled window.
THEOREM ServedAsCheckedHolds == Spec => []ServedAsChecked
<1>1. Progress => ServedAsChecked
  BY DEF Progress, Passed, Unwritten, Agree, ServedAsChecked
<1>2. QED
  BY <1>1, ProgressAlways, PTL

-----------------------------------------------------------------------------
(* A table that the engine builds beside the one ple_identity compared *)

\* A shard the loader has not reached is a hole; one it has passed is right but for the
\* windows being copied, or looks like a hole in the checkpoint.
New(s) ==
  IF s \in todo THEN \A w \in Windows : page[path][<<s, w>>] = Hole
  ELSE \/ \A w \in Windows \ Unwritten(s) : page[path][<<s, w>>] = Content[ck][<<s, w>>]
       \/ \A w \in ReuseSample : Content[ck][<<s, w>>] = Hole

Fresh ==
  bound /\ present /\ backing = "other" /\ pc \in {"load", "serving"} =>
    \A s \in Shards : New(s)

\* Every step of a boot keeps a file new that this boot has created.
THEOREM FreshAlways == Spec => []Fresh
<1> USE DEF TypeOK, Fresh
<1>1. Init => Fresh
  BY DEF Init
<1>2. TypeOK /\ Admitted /\ Progress /\ Fresh /\ [Next]_vars => Fresh'
  <2> SUFFICES ASSUME TypeOK, Admitted, Progress, Fresh, [Next]_vars PROVE Fresh'
    OBVIOUS
  <2>1. ASSUME UNCHANGED <<page, path, ck, todo, left, bound, present, backing>>,
               pc \in {"load", "serving"} \/ pc' \notin {"load", "serving"}
        PROVE  Fresh'
    BY <2>1 DEF New, Unwritten
  <2>2. ASSUME pc' \notin {"load", "serving"} PROVE Fresh'
    BY <2>2
  <2>3. ASSUME NEW c \in Ckpt, NEW b \in BOOLEAN, ManualBoot(c, b) \/ Identify(c, b)
        PROVE  Fresh'
    BY <2>2, <2>3 DEF ManualBoot, Identify
  <2>4. CASE BindPath \/ BindDir \/ TearRecord
    BY <2>1, <2>2, <2>4 DEF BindPath, BindDir, Bind, TearRecord
  <2>5. CASE Stop \/ HostCrash
    BY <2>2, <2>5 DEF Stop, HostCrash
  <2>6. CASE Alloc
    <3> SUFFICES ASSUME bound, present, backing = "other", NEW s \in Shards PROVE New(s)'
      BY <2>6 DEF Alloc
    <3>1. path' = "native" /\ size["native"] # "right"
      BY <2>6 DEF Alloc, Admitted, Backing, RightSized, Mapped, Names
    <3>2. page'[path'] = Blank
      BY <2>6, <3>1 DEF Alloc, Mapped, Names
    <3>3. todo' = Shards
      BY <2>6 DEF Alloc
    <3>4. QED
      BY <3>2, <3>3 DEF New, Blank, Cells
  <2>7. ASSUME NEW s \in Shards, CheckShard(s) PROVE Fresh'
    <3> SUFFICES ASSUME Fresh, bound, present, backing = "other", NEW t \in Shards
                 PROVE  New(t)'
      BY <2>7 DEF CheckShard
    <3>1. /\ New(t) /\ left = {} /\ todo' = todo \ {s} /\ s \in todo
          /\ page' = page /\ path' = path /\ ck' = ck
      BY <2>7 DEF CheckShard
    <3>2. CASE t # s
      <4>1. t \in todo' <=> t \in todo
        BY <3>1, <3>2
      <4>2. Unwritten(t) = {} /\ Unwritten(t)' = {}
        BY <2>7, <3>1, <3>2 DEF CheckShard, Unwritten
      <4>3. QED
        BY <3>1, <4>1, <4>2 DEF New
    <3>3. CASE t = s
      <4>1. \A w \in Windows : page[path][<<s, w>>] = Hole
        BY <3>1, <3>3 DEF New
      <4>2. CASE Matches(s)
        BY <3>1, <3>3, <4>1, <4>2 DEF Matches, Agree, New
      <4>3. CASE ~Matches(s)
        <5>1. Unwritten(s)' = Windows
          BY <2>7, <4>3 DEF CheckShard, Unwritten
        <5>2. QED
          BY <3>1, <3>3, <5>1 DEF New
      <4>4. QED
        BY <4>2, <4>3
    <3>4. QED
      BY <3>2, <3>3
  <2>8. ASSUME NEW s \in Shards, NEW v \in Windows, CopyWindow(<<s, v>>) PROVE Fresh'
    <3> SUFFICES ASSUME Fresh, bound, present, backing = "other", NEW t \in Shards
                 PROVE  New(t)'
      BY <2>8 DEF CopyWindow
    <3>1. /\ v \in Unwritten(s) /\ s \notin todo /\ New(t)
          /\ Unwritten(s)' = Unwritten(s) \ {v}
          /\ t # s => Unwritten(t)' = Unwritten(t)
          /\ path' = path /\ ck' = ck /\ todo' = todo
      BY <2>8 DEF CopyWindow, Progress, Unwritten
    <3>2. /\ page'[path][<<s, v>>] = Content[ck][<<s, v>>]
          /\ \A w \in Windows :
               <<t, w>> # <<s, v>> => page'[path][<<t, w>>] = page[path][<<t, w>>]
      BY <2>8 DEF CopyWindow, Cells
    <3>3. CASE t = s
      BY <3>1, <3>2, <3>3, ZenonT(60) DEF New
    <3>4. CASE t # s
      BY <3>1, <3>2, <3>4 DEF New
    <3>5. QED
      BY <3>3, <3>4
  <2>9. ASSUME NEW x \in Cells, CopyWindow(x) PROVE Fresh'
    <3>1. PICK s \in Shards, v \in Windows : x = <<s, v>>
      BY DEF Cells
    <3>2. CopyWindow(<<s, v>>)
      BY <2>9, <3>1
    <3>3. QED
      BY <2>8, <3>2
  <2>10. ASSUME NEW n \in Names, NEW x \in Cells, Writeback(n, x) PROVE Fresh'
    BY <2>1, <2>10 DEF Writeback
  <2>11. CASE Loaded \/ UNCHANGED vars
    BY <2>1, <2>11 DEF Loaded
  <2>12. QED
    BY <2>3, <2>4, <2>5, <2>6, <2>7, <2>9, <2>10, <2>11 DEF Next
<1>3. QED
  BY <1>1, <1>2, TypeCorrect, AdmittedAlways, ProgressAlways, PTL DEF Spec

\* An experiment is served from the table ple_identity compared, or from one that its own
\* boot has built aright beside it.
THEOREM IdentityIsMappedHolds == Spec => []IdentityIsMapped
<1>1. TypeOK /\ Admitted /\ Progress /\ Fresh => IdentityIsMapped
  <2> SUFFICES ASSUME TypeOK, Admitted, Progress, Fresh, bound, present, pc = "serving",
                      path # backing
               PROVE  backing = "other" /\ (Distinguishable => page[path] = Content[ck])
    BY Zenon DEF IdentityIsMapped
  <2>1. backing = "other"
    BY DEF Admitted
  <2> SUFFICES ASSUME Distinguishable PROVE page[path] = Content[ck]
    BY <2>1
  <2>2. ASSUME NEW s \in Shards
        PROVE  \A w \in Windows : page[path][<<s, w>>] = Content[ck][<<s, w>>]
    <3>1. New(s) /\ s \notin todo /\ Unwritten(s) = {}
      BY <2>1 DEF Fresh, Progress, Unwritten
    <3>2. \E w \in ReuseSample : Content[ck][<<s, w>>] # Hole
      BY DEF Distinguishable, TypeOK
    <3>3. QED
      BY <3>1, <3>2 DEF New
  <2>3. page[path] \in [Cells -> Bytes] /\ Content[ck] \in [Cells -> Bytes]
    BY DEF TypeOK
  <2>4. \A x \in Cells : page[path][x] = Content[ck][x]
    BY <2>2 DEF Cells
  <2>5. QED
    BY <2>3, <2>4
<1>2. QED
  BY <1>1, TypeCorrect, AdmittedAlways, ProgressAlways, FreshAlways, PTL

-----------------------------------------------------------------------------
(* What sampling is enough for *)

\* A shard of a file is a hole, or wholly some checkpoint's.
Settled(n, s) ==
  \/ \A w \in Windows : page[n][<<s, w>>] = Hole
  \/ \E c \in Ckpt : \A w \in Windows : page[n][<<s, w>>] = Content[c][<<s, w>>]

\* Without a fault only the shard being copied is neither.
WholeShards == faults = 0 => \A n \in Names, s \in Shards :
  (n = path /\ Unwritten(s) # {}) \/ Settled(n, s)

\* The bytes of a shard alone decide whether it is settled.
LEMMA SettledStays ==
  ASSUME NEW n \in Names, NEW s \in Shards, Settled(n, s),
         \A w \in Windows : page'[n][<<s, w>>] = page[n][<<s, w>>]
  PROVE  Settled(n, s)'
BY DEF Settled

\* A step that writes no page and starts no copy, and that cuts one short only as
\* a fault.
LEMMA QuietStep ==
  ASSUME TypeOK, WholeShards, page' = page, path' = path, faults' \in Nat,
         faults' = 0 => faults = 0 /\ left' = left
  PROVE  WholeShards'
<1> SUFFICES ASSUME faults' = 0, NEW n \in Names, NEW s \in Shards
             PROVE  (n = path' /\ Unwritten(s)' # {}) \/ Settled(n, s)'
  BY DEF WholeShards
<1>1. (n = path /\ Unwritten(s) # {}) \/ Settled(n, s)
  BY DEF WholeShards
<1>2. Unwritten(s)' = Unwritten(s)
  BY DEF Unwritten
<1>3. Settled(n, s) => Settled(n, s)'
  BY SettledStays
<1>4. QED
  BY <1>1, <1>2, <1>3

\* Boots, stops between shards and changes of checkpoint leave whole shards.
THEOREM WholeShardsAlways == Spec => []WholeShards
<1>1. Init => WholeShards
  <2> SUFFICES ASSUME Init, NEW n \in Names, NEW s \in Shards PROVE Settled(n, s)
    BY DEF WholeShards
  <2>1. PICK c \in [Names -> Ckpt] :
          page = [k \in Names |-> IF size[k] = "right" THEN Content[c[k]] ELSE Blank]
    BY DEF Init
  <2>2. CASE size[n] = "right"
    BY <2>1, <2>2 DEF Settled
  <2>3. CASE size[n] # "right"
    BY <2>1, <2>3 DEF Blank, Cells, Settled
  <2>4. QED
    BY <2>2, <2>3
<1>2. TypeOK /\ Progress /\ WholeShards /\ [Next]_vars => WholeShards'
  <2> SUFFICES ASSUME TypeOK, Progress, WholeShards, [Next]_vars PROVE WholeShards'
    OBVIOUS
  <2>1. ASSUME NEW c \in Ckpt, NEW b \in BOOLEAN, ManualBoot(c, b) \/ Identify(c, b)
        PROVE  WholeShards'
    BY <2>1, QuietStep DEF ManualBoot, Identify, TypeOK
  <2>2. CASE BindPath \/ BindDir
    BY <2>2, QuietStep DEF BindPath, BindDir, Bind, TypeOK
  <2>3. CASE TearRecord
    BY <2>3, QuietStep DEF TearRecord, TypeOK
  <2>4. CASE Stop
    BY <2>4, QuietStep DEF Stop, TypeOK
  <2>5. CASE HostCrash
    BY <2>5 DEF HostCrash, WholeShards, TypeOK
  <2>6. CASE Alloc
    <3> SUFFICES ASSUME faults = 0, NEW n \in Names, NEW s \in Shards
                 PROVE  Settled(n, s)'
      BY <2>6 DEF Alloc, WholeShards
    <3>1. Unwritten(s) = {}
      BY <2>6 DEF Alloc, Progress, Unwritten
    <3>2. Settled(n, s)
      BY <3>1 DEF WholeShards
    <3>3. page'[n] = page[n] \/ page'[n] = Blank
      BY <2>6 DEF Alloc, TypeOK
    <3>4. CASE page'[n] = page[n]
      BY <3>2, <3>4, SettledStays
    <3>5. CASE page'[n] = Blank
      BY <3>5 DEF Blank, Cells, Settled
    <3>6. QED
      BY <3>3, <3>4, <3>5
  <2>7. ASSUME NEW s \in Shards, CheckShard(s) PROVE WholeShards'
    <3>1. \A t \in Shards : Unwritten(t) = {}
      BY <2>7 DEF CheckShard, Unwritten
    <3>2. \A n \in Names, t \in Shards : faults = 0 => Settled(n, t)
      BY <3>1 DEF WholeShards
    <3>3. page' = page /\ faults' = faults
      BY <2>7 DEF CheckShard
    <3>4. \A n \in Names, t \in Shards : faults' = 0 => Settled(n, t)'
      BY <3>2, <3>3, SettledStays
    <3>5. QED
      BY <3>4 DEF WholeShards
  <2>8. ASSUME NEW s \in Shards, NEW v \in Windows, CopyWindow(<<s, v>>)
        PROVE  WholeShards'
    <3> SUFFICES ASSUME faults = 0, NEW n \in Names, NEW t \in Shards
                 PROVE  (n = path /\ Unwritten(t)' # {}) \/ Settled(n, t)'
      BY <2>8 DEF CopyWindow, WholeShards
    <3>1. /\ v \in Unwritten(s) /\ s \notin todo /\ pc = "load"
          /\ \A r \in Shards \ {s} : Unwritten(r) = {}
          /\ Unwritten(s)' = Unwritten(s) \ {v}
      BY <2>8 DEF CopyWindow, Progress, Unwritten
    <3>2. /\ page' = [page EXCEPT ![path][<<s, v>>] = Content[ck][<<s, v>>]]
          /\ <<s, v>> \in Cells
      BY <2>8 DEF CopyWindow, Cells
    <3>3. CASE n # path
      <4>1. page'[n] = page[n]
        BY <3>2, <3>3 DEF TypeOK
      <4>2. Settled(n, t)
        BY <3>3 DEF WholeShards
      <4>3. QED
        BY <4>1, <4>2, SettledStays
    <3>4. CASE n = path /\ t # s
      <4>1. \A w \in Windows : page'[n][<<t, w>>] = page[n][<<t, w>>]
        BY <3>2, <3>4 DEF Cells, TypeOK
      <4>2. Settled(n, t)
        BY <3>1, <3>4 DEF WholeShards
      <4>3. QED
        BY <4>1, <4>2, SettledStays
    <3>5. CASE n = path /\ t = s /\ Unwritten(s)' = {}
      <4>1. \A w \in Windows \ {v} : page[path][<<s, w>>] = Content[ck][<<s, w>>]
        BY <3>1, <3>5 DEF Progress, Passed
      <4>2. /\ page'[path][<<s, v>>] = Content[ck][<<s, v>>]
            /\ \A w \in Windows \ {v} : page'[path][<<s, w>>] = page[path][<<s, w>>]
        BY <3>2 DEF Cells, TypeOK
      <4>3. \A w \in Windows : page'[path][<<s, w>>] = Content[ck][<<s, w>>]
        BY <4>1, <4>2
      <4>4. ck \in Ckpt
        BY DEF TypeOK
      <4>5. QED
        BY <3>5, <4>3, <4>4 DEF Settled
    <3>6. QED
      BY <3>3, <3>4, <3>5
  <2>9. ASSUME NEW x \in Cells, CopyWindow(x) PROVE WholeShards'
    <3>1. PICK s \in Shards, v \in Windows : x = <<s, v>>
      BY DEF Cells
    <3>2. CopyWindow(<<s, v>>)
      BY <2>9, <3>1
    <3>3. QED
      BY <2>8, <3>2
  <2>10. ASSUME NEW n \in Names, NEW x \in Cells, Writeback(n, x) PROVE WholeShards'
    BY <2>10, QuietStep DEF Writeback, TypeOK
  <2>11. CASE Loaded \/ UNCHANGED vars
    BY <2>11, QuietStep DEF Loaded, TypeOK
  <2>12. QED
    BY <2>1, <2>2, <2>3, <2>4, <2>5, <2>6, <2>7, <2>9, <2>10, <2>11 DEF Next
<1>3. QED
  BY <1>1, <1>2, TypeCorrect, ProgressAlways, PTL DEF Spec

\* If the samples tell the checkpoints apart, an undisturbed table is served right.
THEOREM UndisturbedRightHolds == Spec => []UndisturbedRight
<1>1. TypeOK /\ Progress /\ WholeShards => UndisturbedRight
  <2> SUFFICES ASSUME TypeOK, Progress, WholeShards, Distinguishable,
                      faults = 0, pc = "serving"
               PROVE  page[path] = Content[ck]
    BY DEF UndisturbedRight
  <2>1. ASSUME NEW s \in Shards
        PROVE  \A w \in Windows : page[path][<<s, w>>] = Content[ck][<<s, w>>]
    <3>1. Unwritten(s) = {} /\ Passed(s)
      BY DEF Progress, Unwritten
    <3>2. CASE Agree(path, ck, s, ReuseSample)
      <4>1. PICK u \in ReuseSample : Content[ck][<<s, u>>] # Hole
        BY DEF Distinguishable, TypeOK
      <4>2. page[path][<<s, u>>] # Hole
        BY <3>2, <4>1 DEF Agree
      <4>3. Settled(path, s)
        BY <3>1 DEF WholeShards, TypeOK
      <4>4. PICK c \in Ckpt : Agree(path, c, s, Windows)
        BY <4>2, <4>3 DEF Settled, Agree
      <4>5. \A w \in ReuseSample : Content[ck][<<s, w>>] = Content[c][<<s, w>>]
        BY <3>2, <4>4 DEF Agree
      <4>6. QED
        BY <4>4, <4>5, SMTT(60) DEF Distinguishable, TypeOK, Agree
    <3>3. QED
      BY <3>1, <3>2 DEF Passed
  <2>2. page[path] \in [Cells -> Bytes] /\ Content[ck] \in [Cells -> Bytes]
    BY DEF TypeOK
  <2>3. \A x \in Cells : page[path][x] = Content[ck][x]
    BY <2>1 DEF Cells
  <2>4. QED
    BY <2>2, <2>3
<1>2. QED
  BY <1>1, TypeCorrect, ProgressAlways, WholeShardsAlways, PTL
=============================================================================
