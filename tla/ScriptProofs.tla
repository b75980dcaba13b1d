---------------------------- MODULE ScriptProofs ----------------------------
(***************************************************************************)
(* Theorems about the two scripts on either side of the server's launch:   *)
(* prepare.sh, which makes the files that it mounts, for every set of      *)
(* images, and host_proxy.py, which agents in containers reach it by, for  *)
(* any number of pieces. They share nothing, nor do the two parts here.    *)
(***************************************************************************)
EXTENDS Prepare, HostProxy, TLAPS

USE DEF vars, runVars

(***************************************************************************)
(* PREPARE.SH                                                              *)
(***************************************************************************)

-----------------------------------------------------------------------------
(* What a run has done before its line pc *)

\* A file of the image as it was extracted, but for the marks.
Patched(marks) == [from |-> image.name, marks |-> marks]

\* The marks of the QSA backend when the Triton route is in.
Routed == Triton(DropSdpa(image.marks["qsa"]))

\* The line that makes a file of this run.
Maker ==
  [f \in Files |->
     CASE f = "paths" -> 1 [] f = "loader" -> 2 [] f = "mtp" -> 3 [] f = "qwen4" -> 4
       [] f = "qsa" -> 5 [] f = "spec" -> 6 [] f = "kernel" -> 10 [] f = "metadata" -> 11
       [] f = "indexer" -> 12 [] f = "table" -> 14 [] f = "varlen" -> 30 [] f = "kda" -> 32]

\* The marks that a file of the image has before line n.
MarksAt(f, n) ==
  CASE f = "loader" -> IF n > 21 THEN {"filter"} ELSE {}
    [] f = "mtp" -> IF n > 22 THEN {"filter"} ELSE {}
    [] f = "qwen4" -> IF n > 17 THEN Reuse(Mmap(image.marks["qwen4"]))
                      ELSE IF n > 16 THEN Mmap(image.marks["qwen4"])
                      ELSE image.marks["qwen4"]
    [] f = "qsa" -> IF n > 24 THEN With(option, Routed)
                    ELSE IF n > 19 THEN Routed
                    ELSE IF n > 18 THEN DropSdpa(image.marks["qsa"])
                    ELSE image.marks["qsa"]
    [] f = "spec" -> IF n > 20 THEN Rolls(image.spec) ELSE {}
    [] f = "kernel" -> IF n > 25 THEN With(option, {}) ELSE {}
    [] f = "metadata" -> IF n > 26 THEN With(option, {}) ELSE {}
    [] f = "indexer" -> IF n > 29 THEN Clamp(With(option, image.marks["indexer"]))
                        ELSE IF n > 27 THEN With(option, image.marks["indexer"])
                        ELSE image.marks["indexer"]
    [] f = "table" -> IF n > 15 THEN {"compat"} ELSE {}
    [] OTHER -> {}

FileAt(f, n) ==
  CASE f \in {"varlen", "kda"} -> Ours
    [] f = "table" -> IF found THEN Patched(MarksAt(f, n)) ELSE Absent
    [] OTHER -> Patched(MarksAt(f, n))

\* What the run has made is what its lines so far make of this image.
Progress ==
  /\ \A f \in Files : pc > Maker[f] => build[f] = FileAt(f, pc)
  /\ pc > 23 => (on <=> pc > 28 /\ option)

\* What line n asks of the image.
Ask(n) ==
  /\ n = 15 /\ found => Fits("compat", "table")
  /\ n = 16 => HasTable(image.marks["qwen4"])
               \/ ("pinned" \in image.marks["qwen4"] /\ Fits("mmap", "qwen4"))
  /\ n = 17 => "reuse" \in image.marks["qwen4"] \/ Fits("reuse", "qwen4")
  /\ n = 18 => Fits("sdpa", "qsa")
  /\ n = 19 => /\ "kda" \notin image.marks["qsa"]
               /\ \/ "varlen" \in image.marks["qsa"]
                  \/ "gate" \notin image.marks["qsa"] /\ Fits("triton", "qsa")
  /\ n = 20 => Rolls(image.spec) # {}
  /\ n = 21 => Fits("filter", "loader")
  /\ n = 22 => Fits("filter", "mtp")
  /\ n = 24 /\ option => /\ Fits("selection", "qsa")
                         /\ "selection" \notin image.marks["qsa"]
                         /\ "selection" \notin image.marks["indexer"]
  /\ n = 29 => "clamp" \in image.marks["indexer"] \/ Fits("clamp", "indexer")

\* The patches that have gone through asked nothing that the image has not.
Passed == (\A n \in 1..(pc - 1) : Ask(n)) /\ (pc > 33 => Accepts)

\* build/ has every file.
IsBuild == build = [f \in Files |-> build[f]]

\* The invariant of the running script.
RunInv ==
  /\ pc \in 1..34 /\ IsBuild
  /\ status = "running" => Progress /\ Passed

\* The lines of the script by their numbers: what they do ...
LEMMA Whats ==
  /\ DOMAIN Script = 1..34
  /\ Script[1][1] = "extract" /\ Script[2][1] = "extract" /\ Script[3][1] = "extract"
  /\ Script[4][1] = "extract" /\ Script[5][1] = "extract" /\ Script[6][1] = "extract"
  /\ Script[7][1] = "remove" /\ Script[8][1] = "remove" /\ Script[9][1] = "remove"
  /\ Script[10][1] = "extract" /\ Script[11][1] = "extract" /\ Script[12][1] = "extract"
  /\ Script[13][1] = "probe" /\ Script[14][1] = "table" /\ Script[15][1] = "compat"
  /\ Script[16][1] = "mmap" /\ Script[17][1] = "reuse" /\ Script[18][1] = "sdpa"
  /\ Script[19][1] = "triton" /\ Script[20][1] = "roll" /\ Script[21][1] = "filter"
  /\ Script[22][1] = "filter" /\ Script[23][1] = "unmark" /\ Script[24][1] = "selection"
  /\ Script[25][1] = "selection" /\ Script[26][1] = "selection" /\ Script[27][1] = "selection"
  /\ Script[28][1] = "mark" /\ Script[29][1] = "clamp" /\ Script[30][1] = "copy"
  /\ Script[31][1] = "remove" /\ Script[32][1] = "copy" /\ Script[33][1] = "check"
  /\ Script[34][1] = "fetch"
  BY DEF Script, Do

\* ... and to which file.
LEMMA Whose ==
  /\ Script[1][2] = "paths" /\ Script[2][2] = "loader" /\ Script[3][2] = "mtp"
  /\ Script[4][2] = "qwen4" /\ Script[5][2] = "qsa" /\ Script[6][2] = "spec"
  /\ Script[7][2] = "kernel" /\ Script[8][2] = "metadata" /\ Script[9][2] = "indexer"
  /\ Script[10][2] = "kernel" /\ Script[11][2] = "metadata" /\ Script[12][2] = "indexer"
  /\ Script[13][2] = "table" /\ Script[14][2] = "table" /\ Script[15][2] = "table"
  /\ Script[16][2] = "qwen4" /\ Script[17][2] = "qwen4" /\ Script[18][2] = "qsa"
  /\ Script[19][2] = "qsa" /\ Script[20][2] = "spec" /\ Script[21][2] = "loader"
  /\ Script[22][2] = "mtp" /\ Script[23][2] = "on" /\ Script[24][2] = "qsa"
  /\ Script[25][2] = "kernel" /\ Script[26][2] = "metadata" /\ Script[27][2] = "indexer"
  /\ Script[28][2] = "on" /\ Script[29][2] = "indexer" /\ Script[30][2] = "varlen"
  /\ Script[31][2] = "kda" /\ Script[32][2] = "kda" /\ Script[33][2] = "build"
  /\ Script[34][2] = "snapshot"
  BY DEF Script, Do

\* The lines of each kind.
LEMMA Kinds ==
  ASSUME pc \in 1..34
  PROVE  /\ Line[1] = "extract" => pc \in (1..6) \cup (10..12)
         /\ Line[1] = "remove" => pc \in {7, 8, 9, 31}
         /\ Line[1] = "copy" => pc \in {30, 32}
         /\ Line[1] = "probe" => pc = 13
         /\ Line[1] = "table" => pc = 14
         /\ Line[1] = "unmark" => pc = 23
         /\ Line[1] = "mark" => pc = 28
         /\ Line[1] = "check" => pc = 33
         /\ Line[1] = "fetch" => pc = 34
         /\ Line[1] \in Patches => pc \in (15..22) \cup (24..27) \cup {29}
  BY Whats DEF Line, Patches

\* One file is written.
LEMMA PutFile ==
  ASSUME IsBuild, NEW f \in Files, NEW c, Put(f, c)
  PROVE  /\ IsBuild' /\ build'[f] = c /\ \A g \in Files : g # f => build'[g] = build[g]
         /\ on' = on
  BY DEF IsBuild, Put

\* The lines of each file.
LEMMA Own ==
  ASSUME pc \in 1..33, NEW f \in Files, f # Line[2]
  PROVE  /\ f = "paths" => pc # 1
         /\ f = "loader" => pc \notin {2, 21}
         /\ f = "mtp" => pc \notin {3, 22}
         /\ f = "qwen4" => pc \notin {4, 16, 17}
         /\ f = "qsa" => pc \notin {5, 18, 19, 24}
         /\ f = "spec" => pc \notin {6, 20}
         /\ f = "kernel" => pc \notin {10, 25}
         /\ f = "metadata" => pc \notin {11, 26}
         /\ f = "indexer" => pc \notin {12, 27, 29}
         /\ f = "table" => pc \notin {14, 15}
         /\ f = "varlen" => pc # 30
         /\ f = "kda" => pc # 32
  BY Whose DEF Line

\* A line changes what is to become of its own file only.
LEMMA OtherFiles ==
  ASSUME pc \in 1..33, NEW f \in Files, f # Line[2]
  PROVE  /\ Maker[f] \in 1..32 /\ (pc + 1 > Maker[f] => pc > Maker[f])
         /\ FileAt(f, pc + 1) = FileAt(f, pc)
<1> USE Own
<1>1. Maker[f] \in 1..32 /\ (pc + 1 > Maker[f] => pc > Maker[f])
  <2>1. Maker[f] = CASE f = "paths" -> 1 [] f = "loader" -> 2 [] f = "mtp" -> 3 [] f = "qwen4" -> 4
       [] f = "qsa" -> 5 [] f = "spec" -> 6 [] f = "kernel" -> 10 [] f = "metadata" -> 11
       [] f = "indexer" -> 12 [] f = "table" -> 14 [] f = "varlen" -> 30 [] f = "kda" -> 32
    BY DEF Maker
  <2>2. QED
    BY <2>1 DEF Files, Marked
<1>2. FileAt(f, pc + 1) = FileAt(f, pc)
  <2>1. CASE f \in {"paths", "varlen", "kda"}
    BY <2>1 DEF FileAt, MarksAt
  <2>2. CASE f \in {"loader", "mtp"}
    BY <2>2 DEF FileAt, MarksAt
  <2>3. CASE f = "qwen4"
    BY <2>3 DEF FileAt, MarksAt
  <2>4. CASE f = "qsa"
    BY <2>4 DEF FileAt, MarksAt
  <2>5. CASE f \in {"spec", "table"}
    BY <2>5 DEF FileAt, MarksAt
  <2>6. CASE f \in {"kernel", "metadata"}
    BY <2>6 DEF FileAt, MarksAt
  <2>7. CASE f = "indexer"
    BY <2>7 DEF FileAt, MarksAt
  <2>8. QED
    BY <2>1, <2>2, <2>3, <2>4, <2>5, <2>6, <2>7 DEF Files, Marked
<1>3. QED
  BY <1>1, <1>2

\* What a file is to be depends on the run, which no line but the probe changes.
LEMMA SameFiles ==
  ASSUME pc' = pc + 1, UNCHANGED <<image, option, found>>, NEW f \in Files
  PROVE  FileAt(f, pc)' = FileAt(f, pc + 1)
  BY DEF FileAt, MarksAt, Patched, Routed

\* A line that writes what is to become of its file makes progress.
LEMMA Progressing ==
  ASSUME RunInv, status = "running", pc \in (1..33) \ {23, 28}, Onward,
         NEW f \in Files, f = Line[2], NEW c, Put(f, c),
         pc + 1 > Maker[f] => c = FileAt(f, pc + 1)
  PROVE  IsBuild' /\ Progress'
<1>1. /\ IsBuild' /\ build'[f] = c /\ \A g \in Files : g # f => build'[g] = build[g]
      /\ on' = on
  BY PutFile DEF RunInv
<1>2. pc' = pc + 1 /\ UNCHANGED <<image, option, found>>
  BY DEF Onward
<1>3. ASSUME NEW g \in Files, pc' > Maker[g] PROVE build'[g] = FileAt(g, pc)'
  <2>1. FileAt(g, pc)' = FileAt(g, pc + 1)
    BY <1>2, SameFiles
  <2>2. CASE g = f
    BY <1>1, <1>2, <1>3, <2>1, <2>2
  <2>3. CASE g # f
    BY <1>1, <1>2, <1>3, <2>1, <2>3, OtherFiles DEF RunInv, Progress
  <2>4. QED
    BY <2>2, <2>3
<1>4. pc' > 23 => (on' <=> pc' > 28 /\ option')
  BY <1>1, <1>2 DEF RunInv, Progress
<1>5. Maker' = Maker
  BY DEF Maker
<1>6. QED
  BY <1>1, <1>3, <1>4, <1>5 DEF Progress

\* So does a line that leaves build/ as it is to be.
LEMMA Idle ==
  ASSUME RunInv, status = "running", pc \in 1..33, pc' = pc + 1,
         UNCHANGED <<build, image, option, found>>,
         \A f \in Files : f = Line[2] => (pc + 1 > Maker[f] => pc > Maker[f])
                                          /\ FileAt(f, pc + 1) = FileAt(f, pc),
         pc' > 23 => (on' <=> pc' > 28 /\ option)
  PROVE  IsBuild' /\ Progress'
<1>1. IsBuild'
  BY DEF RunInv, IsBuild
<1>2. ASSUME NEW g \in Files, pc' > Maker[g] PROVE build'[g] = FileAt(g, pc)'
  <2>1. FileAt(g, pc)' = FileAt(g, pc + 1)
    BY SameFiles
  <2>2. pc > Maker[g] /\ FileAt(g, pc + 1) = FileAt(g, pc)
    BY <1>2, OtherFiles
  <2>3. QED
    BY <2>1, <2>2 DEF RunInv, Progress
<1>3. Maker' = Maker
  BY DEF Maker
<1>4. QED
  BY <1>1, <1>2, <1>3 DEF Progress

\* A line that asks nothing passes.
LEMMA Passing ==
  ASSUME RunInv, status = "running", pc \in 1..32, Onward, Ask(pc)
  PROVE  Passed'
<1>1. pc' = pc + 1 /\ UNCHANGED <<image, option, found>>
  BY DEF Onward
<1>2. ASSUME NEW n \in 1..(pc' - 1) PROVE Ask(n)'
  <2>1. Ask(n)
    <3>1. CASE n = pc
      BY <3>1
    <3>2. CASE n # pc
      BY <1>1, <1>2, <3>2 DEF RunInv, Passed
    <3>3. QED
      BY <3>1, <3>2
  <2>2. QED
    BY <1>1, <2>1 DEF Ask, Fits
<1>3. QED
  BY <1>1, <1>2 DEF Passed

-----------------------------------------------------------------------------
(* The steps *)

\* A file is extracted anew.
LEMMA ExtractStep == RunInv /\ Extract => RunInv'
<1> SUFFICES ASSUME RunInv, Extract PROVE RunInv'
  OBVIOUS
<1>1. pc \in (1..6) \cup (10..12) /\ status = "running"
  BY Kinds DEF RunInv, Extract, At, Running
<1>2. Line[2] \in Files /\ Pristine(Line[2]) = FileAt(Line[2], pc + 1)
  <2>1. <<pc, Line[2]>> \in {<<1, "paths">>, <<2, "loader">>, <<3, "mtp">>, <<4, "qwen4">>,
                             <<5, "qsa">>, <<6, "spec">>, <<10, "kernel">>,
                             <<11, "metadata">>, <<12, "indexer">>}
    BY <1>1, Whose DEF Line
  <2>2. QED
    BY <2>1 DEF Files, Marked, Pristine, FileAt, MarksAt, Patched
<1>3. IsBuild' /\ Progress'
  BY <1>1, <1>2, Progressing DEF Extract
<1>4. Passed'
  BY <1>1, Passing DEF Ask, Extract
<1>5. QED
  BY <1>1, <1>3, <1>4 DEF RunInv, Extract, Onward

\* A file of ours is copied.
LEMMA CopyStep == RunInv /\ Copy => RunInv'
<1> SUFFICES ASSUME RunInv, Copy PROVE RunInv'
  OBVIOUS
<1>1. pc \in {30, 32} /\ status = "running"
  BY Kinds DEF RunInv, Copy, At, Running
<1>2. Line[2] \in Files /\ Ours = FileAt(Line[2], pc + 1)
  <2>1. <<pc, Line[2]>> \in {<<30, "varlen">>, <<32, "kda">>}
    BY <1>1, Whose DEF Line
  <2>2. QED
    BY <2>1 DEF Files, FileAt
<1>3. IsBuild' /\ Progress'
  BY <1>1, <1>2, Progressing DEF Copy
<1>4. Passed'
  BY <1>1, Passing DEF Ask, Copy
<1>5. QED
  BY <1>1, <1>3, <1>4 DEF RunInv, Copy, Onward

\* Files are removed before they are made.
LEMMA RemoveStep == RunInv /\ Remove => RunInv'
<1> SUFFICES ASSUME RunInv, Remove PROVE RunInv'
  OBVIOUS
<1>1. pc \in {7, 8, 9, 31} /\ status = "running"
  BY Kinds DEF RunInv, Remove, At, Running
<1>2. Line[2] \in Files /\ ~(pc + 1 > Maker[Line[2]])
  <2>1. <<pc, Line[2]>> \in {<<7, "kernel">>, <<8, "metadata">>, <<9, "indexer">>,
                             <<31, "kda">>}
    BY <1>1, Whose DEF Line
  <2>2. QED
    BY <2>1 DEF Files, Marked, Maker
<1>3. IsBuild' /\ Progress'
  BY <1>1, <1>2, Progressing DEF Remove
<1>4. Passed'
  BY <1>1, Passing DEF Ask, Remove
<1>5. QED
  BY <1>1, <1>3, <1>4 DEF RunInv, Remove, Onward

\* The probe decides what the table module is to be.
LEMMA ProbeStep == RunInv /\ Probe => RunInv'
<1> SUFFICES ASSUME RunInv, Probe PROVE RunInv'
  OBVIOUS
<1>1. pc = 13 /\ status = "running"
  BY Kinds DEF RunInv, Probe, At, Running
<1>2. pc' = 14 /\ UNCHANGED <<build, on, status, image, option>>
  BY <1>1 DEF Probe
<1>3. ASSUME NEW f \in Files, 14 > Maker[f] PROVE build'[f] = FileAt(f, pc)'
  <2>1. f \in {"paths", "loader", "mtp", "qwen4", "qsa", "spec",
              "kernel", "metadata", "indexer"}
    BY <1>3 DEF Files, Marked, Maker
  <2>2. FileAt(f, pc)' = FileAt(f, 13)
    BY <1>2, <2>1 DEF FileAt, MarksAt, Patched, Routed
  <2>3. Maker[f] < 13
    BY <2>1 DEF Files, Marked, Maker
  <2>4. QED
    BY <1>1, <1>2, <2>2, <2>3 DEF RunInv, Progress
<1>4. Maker' = Maker
  BY DEF Maker
<1>5. Progress'
  BY <1>2, <1>3, <1>4 DEF Progress
<1>6. Passed'
  BY <1>1, <1>2 DEF RunInv, Passed, Ask, Fits
<1>7. QED
  BY <1>2, <1>5, <1>6 DEF RunInv, IsBuild

\* An earlier image's table module goes.
LEMMA TableStep == RunInv /\ Table => RunInv'
<1> SUFFICES ASSUME RunInv, Table PROVE RunInv'
  OBVIOUS
<1>1. pc = 14 /\ status = "running" /\ Line[2] = "table"
  BY Kinds, Whose DEF RunInv, Table, At, Line, Running
<1>2. (IF found THEN Pristine("table") ELSE NoTable) = FileAt("table", pc + 1)
  BY <1>1 DEF FileAt, MarksAt, Pristine, Patched, NoTable, Marked
<1>3. IsBuild' /\ Progress'
  BY <1>1, <1>2, Progressing DEF Table, Files
<1>4. Passed'
  BY <1>1, Passing DEF Ask, Table
<1>5. QED
  BY <1>1, <1>3, <1>4 DEF RunInv, Table, Onward

\* A line of a branch not taken has nothing to do.
LEMMA SkipStep == RunInv /\ Skip => RunInv'
<1> SUFFICES ASSUME RunInv, Skip PROVE RunInv'
  OBVIOUS
<1>1. /\ status = "running"
      /\ \/ pc = 15 /\ Line[2] = "table" /\ ~found
         \/ pc = 24 /\ Line[2] = "qsa" /\ ~option
         \/ pc = 25 /\ Line[2] = "kernel" /\ ~option
         \/ pc = 26 /\ Line[2] = "metadata" /\ ~option
         \/ pc = 27 /\ Line[2] = "indexer" /\ ~option
         \/ pc = 28 /\ Line[2] = "on" /\ ~option
  <2>1. /\ Line[1] = "compat" => pc = 15
        /\ Line[1] = "selection" => pc \in 24..27
        /\ Line[1] = "mark" => pc = 28
    BY Whats DEF RunInv, Line
  <2>2. pc \in {15, 28} \cup (24..27)
    BY <2>1 DEF Skip, Skipped
  <2>3. <<pc, Line[2]>> \in {<<15, "table">>, <<24, "qsa">>, <<25, "kernel">>,
                             <<26, "metadata">>, <<27, "indexer">>, <<28, "on">>}
    BY <2>2, Whose DEF Line
  <2>4. QED
    BY <2>1, <2>2, <2>3 DEF Skip, Skipped, Running
<1>2. pc' = pc + 1 /\ UNCHANGED <<build, on, status, image, option, found>>
  BY DEF Skip, Onward
<1>3. \A f \in Files : f = Line[2] => (pc + 1 > Maker[f] => pc > Maker[f])
                                       /\ FileAt(f, pc + 1) = FileAt(f, pc)
  <2> SUFFICES ASSUME NEW f \in Files, f = Line[2]
               PROVE  pc > Maker[f] /\ FileAt(f, pc + 1) = FileAt(f, pc)
    OBVIOUS
  <2>1. f \in {"table", "qsa", "kernel", "metadata", "indexer"}
    BY <1>1 DEF Files, Marked
  <2>2. Maker[f] \in 1..14
    BY <2>1 DEF Maker, Files, Marked
  <2>3. CASE f = "table"
    BY <1>1, <2>2, <2>3 DEF FileAt
  <2>4. CASE f # "table"
    BY <1>1, <2>1, <2>2, <2>4 DEF FileAt, MarksAt, With
  <2>5. QED
    BY <2>3, <2>4
<1>4. pc' > 23 => (on' <=> pc' > 28 /\ option)
  <2>1. pc \in {24, 25, 26, 27, 28} => ~on
    BY <1>1 DEF RunInv, Progress
  <2>2. pc # 15 => ~option
    BY <1>1
  <2>3. QED
    BY <1>1, <1>2, <2>1, <2>2
<1>5. IsBuild' /\ Progress'
  BY <1>1, <1>2, <1>3, <1>4, Idle
<1>6. Passed'
  BY <1>1, Passing DEF Ask, Skip
<1>7. QED
  BY <1>1, <1>2, <1>5, <1>6 DEF RunInv

\* The lines of the patches.
LEMMA PatchLines ==
  ASSUME RunInv, Line[1] \in Patches
  PROVE  <<pc, Line[1], Line[2]>> \in
           {<<15, "compat", "table">>, <<16, "mmap", "qwen4">>, <<17, "reuse", "qwen4">>,
            <<18, "sdpa", "qsa">>, <<19, "triton", "qsa">>, <<20, "roll", "spec">>,
            <<21, "filter", "loader">>, <<22, "filter", "mtp">>, <<24, "selection", "qsa">>,
            <<25, "selection", "kernel">>, <<26, "selection", "metadata">>,
            <<27, "selection", "indexer">>, <<29, "clamp", "indexer">>}
<1>1. pc \in (15..22) \cup (24..27) \cup {29}
  BY Kinds DEF RunInv
<1>2. QED
  BY <1>1, Whats, Whose DEF Line

\* A patch refuses a file that the run has made so far if and only if the image lacks what
\* its line asks.
LEMMA Refusal ==
  ASSUME RunInv, status = "running", Line[1] \in Patches, ~Skipped
  PROVE  /\ Line[2] \in Files /\ pc > Maker[Line[2]]
         /\ build[Line[2]] = Patched(MarksAt(Line[2], pc))
         /\ Refuses(Line[1], Line[2]) <=> ~Ask(pc)
<1>1. <<pc, Line[1], Line[2]>> \in
        {<<15, "compat", "table">>, <<16, "mmap", "qwen4">>, <<17, "reuse", "qwen4">>,
         <<18, "sdpa", "qsa">>, <<19, "triton", "qsa">>, <<20, "roll", "spec">>,
         <<21, "filter", "loader">>, <<22, "filter", "mtp">>, <<24, "selection", "qsa">>,
         <<25, "selection", "kernel">>, <<26, "selection", "metadata">>,
         <<27, "selection", "indexer">>, <<29, "clamp", "indexer">>}
  BY PatchLines
<1>2. Line[2] \in Files /\ pc > Maker[Line[2]]
  BY <1>1 DEF Files, Marked, Maker
<1>3. build[Line[2]] = Patched(MarksAt(Line[2], pc))
  <2>1. build[Line[2]] = FileAt(Line[2], pc)
    BY <1>2 DEF RunInv, Progress
  <2>2. Line[2] = "table" => found
    BY <1>1 DEF Skipped
  <2>3. Line[2] \notin {"varlen", "kda"}
    BY <1>1
  <2>4. QED
    BY <2>1, <2>2, <2>3 DEF FileAt
<1>4. Refuses(Line[1], Line[2]) <=> ~Ask(pc)
  <2> DEFINE marks == MarksAt(Line[2], pc)
  <2>1. build[Line[2]].marks = marks
    BY <1>3 DEF Patched
  <2> HIDE DEF marks
  <2>2. CASE pc = 15
    <3>1. found /\ marks = {}
      BY <1>1, <2>2 DEF Skipped, MarksAt, marks
    <3>2. Refuses(Line[1], Line[2]) <=> CompatRefuses({})
      BY <1>1, <2>1, <2>2, <3>1 DEF Refuses
    <3>3. QED
      BY <2>2, <3>1, <3>2 DEF CompatRefuses, Ask
  <2>3. CASE pc = 16
    <3>1. marks = image.marks["qwen4"]
      BY <1>1, <2>3 DEF MarksAt, marks
    <3>2. Refuses(Line[1], Line[2]) <=> MmapRefuses(image.marks["qwen4"])
      BY <1>1, <2>1, <2>3, <3>1 DEF Refuses
    <3>3. QED
      BY <2>3, <3>2 DEF MmapRefuses, Ask
  <2>4. CASE pc = 17
    <3>1. marks = Mmap(image.marks["qwen4"])
      BY <1>1, <2>4 DEF MarksAt, marks
    <3>2. Refuses(Line[1], Line[2]) <=> ReuseRefuses(Mmap(image.marks["qwen4"]))
      BY <1>1, <2>1, <2>4, <3>1 DEF Refuses
    <3>3. QED
      BY <2>4, <3>2 DEF ReuseRefuses, Ask, Mmap, HasTable
  <2>5. CASE pc = 18
    BY <1>1, <2>5 DEF Refuses, DropSdpaRefuses, Ask
  <2>6. CASE pc = 19
    <3>1. marks = DropSdpa(image.marks["qsa"])
      BY <1>1, <2>6 DEF MarksAt, marks
    <3>2. Refuses(Line[1], Line[2]) <=> TritonRefuses(DropSdpa(image.marks["qsa"]))
      BY <1>1, <2>1, <2>6, <3>1 DEF Refuses
    <3>3. QED
      BY <2>6, <3>2 DEF TritonRefuses, Ask, DropSdpa
  <2>7. CASE pc = 20
    <3>1. marks = {}
      BY <1>1, <2>7 DEF MarksAt, marks
    <3>2. Refuses(Line[1], Line[2]) <=> RollRefuses({})
      BY <1>1, <2>1, <2>7, <3>1 DEF Refuses
    <3>3. QED
      BY <2>7, <3>2 DEF RollRefuses, Ask
  <2>8. CASE pc \in {21, 22}
    <3>1. marks = {}
      BY <1>1, <2>8 DEF MarksAt, marks
    <3>2. Refuses(Line[1], Line[2]) <=> FilterRefuses(Line[2], {})
      BY <1>1, <2>1, <2>8, <3>1 DEF Refuses
    <3>3. QED
      BY <1>1, <2>8, <3>2 DEF FilterRefuses, Ask
  <2>9. CASE pc = 24
    <3>1. option
      BY <1>1, <2>9 DEF Skipped
    <3>2. /\ build["qsa"].marks = Routed /\ build["kernel"].marks = {}
          /\ build["metadata"].marks = {} /\ build["indexer"].marks = image.marks["indexer"]
      <4>1. \A f \in {"qsa", "kernel", "metadata", "indexer"} :
              f \in Files /\ pc > Maker[f] /\ FileAt(f, pc) = Patched(MarksAt(f, pc))
        BY <2>9 DEF Files, Marked, Maker, FileAt
      <4>2. \A f \in {"qsa", "kernel", "metadata", "indexer"} :
              build[f].marks = MarksAt(f, pc)
        BY <4>1 DEF RunInv, Progress, Patched
      <4>3. QED
        BY <2>9, <4>2 DEF MarksAt
    <3>3. Refuses(Line[1], Line[2]) <=> SelectionRefuses("qsa")
      BY <1>1, <2>9 DEF Refuses
    <3>4. "selection" \in Routed <=> "selection" \in image.marks["qsa"]
      BY DEF Routed, Triton, DropSdpa
    <3>5. QED
      BY <2>9, <3>1, <3>2, <3>3, <3>4 DEF SelectionRefuses, Selected, Ask
  <2>10. CASE pc \in 25..27
    BY <1>1, <2>10 DEF Refuses, SelectionRefuses, Ask
  <2>11. CASE pc = 29
    <3>1. marks = With(option, image.marks["indexer"])
      BY <1>1, <2>11 DEF MarksAt, marks
    <3>2. Refuses(Line[1], Line[2]) <=> ClampRefuses(With(option, image.marks["indexer"]))
      BY <1>1, <2>1, <2>11, <3>1 DEF Refuses
    <3>3. QED
      BY <2>11, <3>2 DEF ClampRefuses, Ask, With
  <2>12. QED
    BY <1>1, <2>2, <2>3, <2>4, <2>5, <2>6, <2>7, <2>8, <2>9, <2>10, <2>11
<1>5. QED
  BY <1>2, <1>3, <1>4

\* A patch that goes through leaves the marks that the next line expects.
LEMMA Patching ==
  ASSUME RunInv, status = "running", Line[1] \in Patches, ~Skipped
  PROVE  [build[Line[2]] EXCEPT !.marks = Result(Line[1], build[Line[2]].marks)]
           = FileAt(Line[2], pc + 1)
<1>1. <<pc, Line[1], Line[2]>> \in
        {<<15, "compat", "table">>, <<16, "mmap", "qwen4">>, <<17, "reuse", "qwen4">>,
         <<18, "sdpa", "qsa">>, <<19, "triton", "qsa">>, <<20, "roll", "spec">>,
         <<21, "filter", "loader">>, <<22, "filter", "mtp">>, <<24, "selection", "qsa">>,
         <<25, "selection", "kernel">>, <<26, "selection", "metadata">>,
         <<27, "selection", "indexer">>, <<29, "clamp", "indexer">>}
  BY PatchLines
<1> DEFINE marks == MarksAt(Line[2], pc)
           result == Result(Line[1], marks)
<1>2. [build[Line[2]] EXCEPT !.marks = Result(Line[1], build[Line[2]].marks)]
        = Patched(result)
  BY Refusal DEF Patched
<1>3. result = MarksAt(Line[2], pc + 1)
  <2>1. CASE pc = 15
    BY <1>1, <2>1 DEF Result, MarksAt, Compat
  <2>2. CASE pc = 16
    BY <1>1, <2>2 DEF Result, MarksAt
  <2>3. CASE pc = 17
    BY <1>1, <2>3 DEF Result, MarksAt
  <2>4. CASE pc = 18
    BY <1>1, <2>4 DEF Result, MarksAt
  <2>5. CASE pc = 19
    BY <1>1, <2>5 DEF Result, MarksAt, Routed
  <2>6. CASE pc = 20
    BY <1>1, <2>6 DEF Result, MarksAt, Roll
  <2>7. CASE pc \in {21, 22}
    BY <1>1, <2>7 DEF Result, MarksAt, Filter
  <2>8. CASE pc \in 24..27
    <3>1. option
      BY <1>1, <2>8 DEF Skipped
    <3>2. QED
      BY <1>1, <2>8, <3>1 DEF Result, MarksAt, With
  <2>9. CASE pc = 29
    BY <1>1, <2>9 DEF Result, MarksAt
  <2>10. QED
    BY <1>1, <2>1, <2>2, <2>3, <2>4, <2>5, <2>6, <2>7, <2>8, <2>9
<1>4. Patched(MarksAt(Line[2], pc + 1)) = FileAt(Line[2], pc + 1)
  <2>1. Line[2] = "table" => found
    BY <1>1 DEF Skipped
  <2>2. QED
    BY <1>1, <2>1 DEF FileAt
<1>5. QED
  BY <1>2, <1>3, <1>4

\* What an image that is accepted has, its lines ask.
LEMMA AcceptedAsks == ASSUME Accepts, NEW n \in 1..34 PROVE Ask(n)
  BY DEF Accepts, Ask

\* A patch goes through, or the image lacks what it asks.
LEMMA PatchStep ==
  ASSUME RunInv, Patch
  PROVE  /\ RunInv'
         /\ status' = "refused" => ~Accepts'
         /\ status' # "complete"
<1>1. status = "running" /\ Line[1] \in Patches /\ ~Skipped
  BY DEF Patch, Running
<1>2. pc \in (15..22) \cup (24..27) \cup {29}
  BY <1>1, Kinds DEF RunInv
<1>3. CASE Refuses(Line[1], Line[2])
  <2>1. UNCHANGED <<build, on, image, option, found>> /\ status' = "refused" /\ pc' = 1
    BY <1>3 DEF Patch, EndIn
  <2>2. ~Ask(pc)
    BY <1>1, <1>3, Refusal
  <2>3. ~Accepts
    BY <1>2, <2>2, AcceptedAsks
  <2>4. ~Accepts'
    BY <2>1, <2>3 DEF Accepts, Fits
  <2>5. QED
    BY <2>1, <2>4 DEF RunInv, IsBuild
<1>4. CASE ~Refuses(Line[1], Line[2])
  <2> DEFINE f == Line[2]
             c == [build[f] EXCEPT !.marks = Result(Line[1], build[f].marks)]
  <2>1. Onward /\ Put(f, c)
    BY <1>4 DEF Patch
  <2>2. f \in Files /\ c = FileAt(f, pc + 1) /\ Ask(pc)
    BY <1>1, <1>4, Refusal, Patching
  <2> HIDE DEF c
  <2>3. IsBuild' /\ Progress'
    BY <1>1, <1>2, <2>1, <2>2, Progressing
  <2>4. Passed'
    BY <1>1, <1>2, <2>1, <2>2, Passing
  <2>5. QED
    BY <1>1, <1>2, <2>1, <2>3, <2>4 DEF RunInv, Onward
<1>5. QED
  BY <1>3, <1>4

\* The marker of an earlier run goes ...
LEMMA UnmarkStep == RunInv /\ Unmark => RunInv'
<1> SUFFICES ASSUME RunInv, Unmark PROVE RunInv'
  OBVIOUS
<1>1. pc = 23 /\ status = "running" /\ Line[2] = "on"
  BY Kinds, Whose DEF RunInv, Unmark, At, Line, Running
<1>2. pc' = 24 /\ on' = FALSE /\ UNCHANGED <<build, status, image, option, found>>
  BY <1>1 DEF Unmark, Unmarked, Onward
<1>3. \A f \in Files : f # Line[2]
  BY <1>1 DEF Files, Marked
<1>4. IsBuild' /\ Progress'
  <2>1. pc' > 23 => (on' <=> pc' > 28 /\ option)
    BY <1>2
  <2>2. pc \in 1..33 /\ pc' = pc + 1
    BY <1>1, <1>2
  <2>3. QED
    BY <1>1, <1>2, <1>3, <2>1, <2>2, Idle
<1>5. Passed'
  BY <1>1, Passing DEF Ask, Unmark
<1>6. QED
  BY <1>2, <1>4, <1>5 DEF RunInv

\* ... and comes back with the option.
LEMMA MarkStep == RunInv /\ Mark => RunInv'
<1> SUFFICES ASSUME RunInv, Mark PROVE RunInv'
  OBVIOUS
<1>1. pc = 28 /\ status = "running" /\ Line[2] = "on"
  BY Kinds, Whose DEF RunInv, Mark, At, Line, Running
<1>2. pc' = 29 /\ on' = TRUE /\ UNCHANGED <<build, status, image, option, found>>
  BY <1>1 DEF Mark, Onward
<1>3. \A f \in Files : f # Line[2]
  BY <1>1 DEF Files, Marked
<1>4. option
  BY DEF Mark, At, Skipped
<1>5. IsBuild' /\ Progress'
  <2>1. pc' > 23 => (on' <=> pc' > 28 /\ option)
    BY <1>2, <1>4
  <2>2. pc \in 1..33 /\ pc' = pc + 1
    BY <1>1, <1>2
  <2>3. QED
    BY <1>1, <1>2, <1>3, <2>1, <2>2, Idle
<1>6. Passed'
  BY <1>1, Passing DEF Ask, Mark
<1>7. QED
  BY <1>2, <1>5, <1>6 DEF RunInv

\* What every file is when the script is through with build/.
LEMMA Through ==
  ASSUME RunInv, status = "running", pc \in {33, 34}
  PROVE  /\ \A f \in Files : build[f] = FileAt(f, pc)
         /\ on <=> option
         /\ \A n \in 1..32 : Ask(n)
<1>1. \A f \in Files : pc > Maker[f]
  BY DEF Maker, Files, Marked
<1>2. QED
  BY <1>1 DEF RunInv, Progress, Passed

\* The assertions hold of what a run made if and only if a first run is accepted.
LEMMA Assertions ==
  ASSUME RunInv, status = "running", pc = 33
  PROVE  Asserted <=> Accepts
<1>1. /\ \A f \in Files : build[f] = FileAt(f, 33)
      /\ on <=> option
      /\ \A n \in 1..32 : Ask(n)
  BY Through
<1>2. /\ build["qwen4"].marks = Reuse(Mmap(image.marks["qwen4"]))
      /\ build["qsa"].marks = With(option, Routed)
      /\ build["spec"].marks = Rolls(image.spec)
  BY <1>1 DEF Files, Marked, FileAt, MarksAt, Patched
<1>3. /\ build["kernel"].marks = With(option, {})
      /\ build["loader"].marks = {"filter"} /\ build["mtp"].marks = {"filter"}
      /\ build["indexer"].marks = Clamp(With(option, image.marks["indexer"]))
  BY <1>1 DEF Files, Marked, FileAt, MarksAt, Patched
<1>4. build["table"] # Absent => "compat" \in build["table"].marks
  BY <1>1 DEF Files, Marked, FileAt, MarksAt, Patched
<1>5. /\ HasTable(Reuse(Mmap(image.marks["qwen4"])))
      /\ "reuse" \in Reuse(Mmap(image.marks["qwen4"]))
  BY DEF HasTable, Mmap, Reuse
<1>6. Rolls(image.spec) # {}
  BY <1>1 DEF Ask
<1>7. on <=> "selection" \in With(option, {})
  BY <1>1 DEF With
<1>8. "clamp" \in Clamp(With(option, image.marks["indexer"]))
  BY DEF Clamp
<1>9. Asserted <=> /\ With(option, Routed) \cap {"sdpa", "gate", "kda", "bundled"} = {}
                   /\ "varlen" \in With(option, Routed)
                   /\ on <=> "selection" \in With(option, Routed)
  BY <1>2, <1>3, <1>4, <1>5, <1>6, <1>7, <1>8 DEF Asserted
<1>10. "varlen" \in With(option, Routed)
  BY DEF With, Routed, Triton
<1>11. (on <=> "selection" \in With(option, Routed))
         <=> "selection" \notin image.marks["qsa"] \/ option
  BY <1>1 DEF With, Routed, Triton, DropSdpa
<1>12. With(option, Routed) \cap {"sdpa", "gate", "kda", "bundled"} = {}
       <=> /\ image.marks["qsa"] \cap {"kda", "gate"} = {}
           /\ "varlen" \in image.marks["qsa"] => "bundled" \notin image.marks["qsa"]
  BY DEF With, Routed, Triton, DropSdpa
<1>13. QED
  BY <1>1, <1>9, <1>10, <1>11, <1>12 DEF Accepts, Ask

\* The assertions end the run exactly if the image is not accepted.
LEMMA CheckStep ==
  ASSUME RunInv, Check
  PROVE  /\ RunInv'
         /\ status' = "refused" => ~Accepts'
         /\ status' # "complete"
<1>1. pc = 33 /\ status = "running"
  BY Kinds DEF RunInv, Check, At, Running
<1>2. UNCHANGED <<build, on, image, option, found>>
  BY DEF Check, Onward, EndIn
<1>3. Accepts' <=> Accepts
  BY <1>2 DEF Accepts, Fits
<1>4. CASE ~Asserted
  BY <1>1, <1>2, <1>3, <1>4, Assertions DEF Check, EndIn, RunInv, IsBuild
<1>5. CASE Asserted
  <2>1. pc' = pc + 1 /\ status' = "running"
    BY <1>1, <1>5 DEF Check, Onward
  <2>2. \A f \in Files : f # Line[2]
    BY <1>1, Whose DEF Line, Files, Marked
  <2>3. pc' > 23 => (on' <=> pc' > 28 /\ option)
    BY <1>1, <1>2, <2>1, Through
  <2>4. IsBuild' /\ Progress'
    BY <1>1, <1>2, <2>1, <2>2, <2>3, Idle
  <2>5. \A n \in 1..33 : Ask(n)'
    BY <1>1, <1>2, <1>5, Assertions, AcceptedAsks DEF Ask, Fits
  <2>6. Passed'
    BY <1>1, <1>3, <1>5, <2>1, <2>5, Assertions DEF Passed
  <2>7. QED
    BY <1>1, <2>1, <2>4, <2>6 DEF RunInv
<1>6. QED
  BY <1>4, <1>5

\* The last line finds build/ as a first run would leave it.
LEMMA Finished ==
  ASSUME TypeOK, RunInv, status = "running", pc = 34
  PROVE  build = Clean /\ on = option /\ Accepts
<1>1. (\A f \in Files : build[f] = FileAt(f, 34)) /\ (on <=> option)
  BY Through
<1>2. ASSUME NEW f \in Files PROVE FileAt(f, 34) = Clean[f]
  <2>1. CASE f \in {"paths", "loader", "mtp"}
    BY <2>1 DEF Clean, FileAt, MarksAt, Patched
  <2>2. CASE f \in {"varlen", "kda", "table"}
    BY <2>2 DEF Clean, FileAt, MarksAt, Patched
  <2>3. CASE f \in {"qwen4", "qsa", "indexer"}
    BY <2>3 DEF Clean, FileAt, MarksAt, Patched, Routed
  <2>4. CASE f \in {"spec", "kernel", "metadata"}
    BY <2>4 DEF Clean, FileAt, MarksAt, Patched
  <2>5. QED
    BY <2>1, <2>2, <2>3, <2>4 DEF Files, Marked
<1>3. build = Clean
  <2>1. build = [f \in Files |-> build[f]] /\ Clean = [f \in Files |-> Clean[f]]
    BY DEF RunInv, IsBuild, Clean
  <2>2. QED
    BY <1>1, <1>2, <2>1
<1>4. on = option
  BY <1>1 DEF TypeOK
<1>5. QED
  BY <1>3, <1>4 DEF RunInv, Passed

-----------------------------------------------------------------------------
(* Type correctness *)

\* A file is from an image, torn, ours or not there; the marks in spec_utils.py are in
\* front of the returns of its image.
FileOK(f, content) ==
  /\ content.from \in {"none", "torn", "ours"} \cup {im.name : im \in Images}
  /\ f \in {"paths", "varlen", "kda"} => content.marks = {}
  /\ f = "spec" => \A im \in Images : content.from = im.name =>
                     \A i \in content.marks : i \in DOMAIN im.spec /\ im.spec[i] = "return"

\* What a run makes of a file is in order.
LEMMA MadeOK ==
  ASSUME image \in Images, NEW f \in Files, NEW n \in 1..34
  PROVE  FileOK(f, FileAt(f, n))
<1>1. CASE f \in {"varlen", "kda"}
  BY <1>1, ImageAssumption DEF FileAt, FileOK, Ours
<1>2. CASE f = "spec"
  <2>1. FileAt(f, n).from = image.name /\ FileAt(f, n).marks \in {{}, Rolls(image.spec)}
    BY <1>2 DEF FileAt, MarksAt, Patched
  <2>2. ASSUME NEW im \in Images, im.name = image.name,
               NEW i \in Rolls(image.spec)
        PROVE  i \in DOMAIN im.spec /\ im.spec[i] = "return"
    BY <2>2, ImageAssumption DEF Rolls
  <2>3. QED
    BY <1>2, <2>1, <2>2 DEF FileOK
<1>3. CASE f = "table" /\ ~found
  BY <1>3 DEF FileAt, FileOK, Absent
<1>4. CASE f = "paths"
  BY <1>4 DEF FileAt, MarksAt, FileOK, Patched
<1>5. CASE f \notin {"paths", "spec", "varlen", "kda"} /\ (f = "table" => found)
  BY <1>5 DEF FileAt, FileOK, Patched
<1>6. QED
  BY <1>1, <1>2, <1>3, <1>4, <1>5

\* A file that is not there or torn is in order.
LEMMA AbsentOK == ASSUME NEW f \in Files PROVE FileOK(f, Absent) /\ FileOK(f, Torn)
  BY ImageAssumption DEF FileOK, Absent, Torn

\* Type correctness, file by file.
FilesOK == \A f \in Files : FileOK(f, build[f])
LoopOK ==
  /\ on \in BOOLEAN /\ snapshot \in {"none", "incomplete", "ready"}
  /\ status \in {"idle", "running", "complete", "refused", "failed"}
  /\ pc \in 1..34
  /\ image \in Images /\ option \in BOOLEAN /\ found \in BOOLEAN /\ runs \in 0..MaxRuns

\* The two halves of TypeOK.
LEMMA Types == TypeOK <=> FilesOK /\ LoopOK
<1>1. DOMAIN Script = 1..34
  BY Whats
<1>2. FilesOK <=> /\ \A f \in Files : build[f].from \in {"none", "torn", "ours"}
                                                        \cup {im.name : im \in Images}
                  /\ \A f \in {"paths", "varlen", "kda"} : build[f].marks = {}
                  /\ \A im \in Images : build["spec"].from = im.name =>
                       \A i \in build["spec"].marks :
                         i \in DOMAIN im.spec /\ im.spec[i] = "return"
  BY DEF FilesOK, FileOK, Files, Marked
<1>3. QED
  BY <1>1, <1>2 DEF TypeOK, LoopOK

\* A line that writes a file writes one of build/.
LEMMA FileLines ==
  ASSUME pc \in 1..34, Line[1] \in {"extract", "copy", "remove", "table"}
  PROVE  Line[2] \in Files
<1>1. pc \in (1..12) \cup {14} \cup (30..32)
  BY Kinds
<1>2. Line[2] \in {"paths", "loader", "mtp", "qwen4", "qsa", "spec", "kernel", "metadata",
                   "indexer", "table", "varlen", "kda"}
  BY <1>1, Whose DEF Line
<1>3. QED
  BY <1>2 DEF Files, Marked

\* One file more is in order.
LEMMA PutOK ==
  ASSUME FilesOK, IsBuild, LoopOK, image' \in Images, NEW f \in Files, NEW c, FileOK(f, c),
         build' = [build EXCEPT ![f] = c]
  PROVE  FilesOK' /\ IsBuild'
  BY DEF FilesOK, IsBuild, FileOK

\* Every step keeps the types.
LEMMA TypeStep ==
  ASSUME TypeOK, RunInv, [Next]_vars
  PROVE  TypeOK'
<1>1. FilesOK /\ LoopOK /\ IsBuild
  BY Types DEF RunInv
<1>2. UNCHANGED build => FilesOK'
  BY <1>1 DEF FilesOK, FileOK
<1>3. LoopOK' /\ FilesOK'
  <2>1. ASSUME NEW im \in Images, NEW opt \in BOOLEAN, Start(im, opt)
        PROVE  LoopOK' /\ FilesOK'
    <3>1. found' \in BOOLEAN /\ option' \in BOOLEAN
      BY <2>1, Zenon DEF Start
    <3>2. QED
      BY <1>1, <1>2, <2>1, <3>1, MaxRunsAssumption DEF Start, LoopOK
  <2>2. CASE Extract
    <3>1. pc \in 1..12 /\ Line[2] \in Files
      BY <1>1, <2>2, Kinds, FileLines DEF LoopOK, Extract, At
    <3>2. LoopOK'
      BY <1>1, <2>2, <3>1 DEF LoopOK, Extract, Onward, Put
    <3>3. FileOK(Line[2], Pristine(Line[2]))
      BY <1>1, <3>1 DEF FileOK, Pristine, LoopOK, Marked
    <3>4. QED
      BY <1>1, <2>2, <3>1, <3>2, <3>3, PutOK DEF Extract, Put, LoopOK
  <2>3. CASE Copy
    <3>1. pc \in 1..32 /\ Line[2] \in Files
      BY <1>1, <2>3, Kinds, FileLines DEF LoopOK, Copy, At
    <3>2. LoopOK'
      BY <1>1, <2>3, <3>1 DEF LoopOK, Copy, Onward, Put
    <3>3. FileOK(Line[2], Ours)
      BY ImageAssumption DEF FileOK, Ours
    <3>4. QED
      BY <1>1, <2>3, <3>1, <3>2, <3>3, PutOK DEF Copy, Put, LoopOK
  <2>4. CASE Remove
    <3>1. pc \in 1..31 /\ Line[2] \in Files
      BY <1>1, <2>4, Kinds, FileLines DEF LoopOK, Remove, At
    <3>2. LoopOK'
      BY <1>1, <2>4, <3>1 DEF LoopOK, Remove, Onward, Put
    <3>3. QED
      BY <1>1, <2>4, <3>1, <3>2, AbsentOK, PutOK DEF Remove, Put, LoopOK
  <2>5. CASE Probe
    <3>1. pc = 13
      BY <1>1, <2>5, Kinds DEF LoopOK, Probe, At
    <3>2. found' \in BOOLEAN
      BY <1>1, <2>5, ImageAssumption, Zenon DEF Probe, LoopOK
    <3>3. QED
      BY <1>1, <1>2, <2>5, <3>1, <3>2 DEF Probe, LoopOK
  <2>6. CASE Table
    <3>1. pc = 14 /\ Line[2] = "table" /\ "table" \in Files
      BY <1>1, <2>6, Kinds, Whose DEF LoopOK, Table, At, Line, Files
    <3>2. LoopOK'
      BY <1>1, <2>6, <3>1 DEF LoopOK, Table, Onward, Put
    <3>3. FileOK("table", IF found THEN Pristine("table") ELSE NoTable)
      BY <1>1 DEF FileOK, Pristine, NoTable, Absent, LoopOK
    <3>4. QED
      BY <1>1, <2>6, <3>1, <3>2, <3>3, PutOK DEF Table, Put, LoopOK
  <2>7. CASE Skip
    <3>1. pc # 34
      BY <2>7, Whats DEF Skip, Skipped, Line
    <3>2. QED
      BY <1>1, <1>2, <2>7, <3>1 DEF Skip, Onward, LoopOK
  <2>8. CASE Patch
    <3>1. status = "running" /\ Line[1] \in Patches /\ ~Skipped /\ pc \in 1..29
      BY <1>1, <2>8, Kinds DEF Patch, Running, LoopOK
    <3>2. CASE Refuses(Line[1], Line[2])
      BY <1>1, <1>2, <2>8, <3>2 DEF Patch, EndIn, LoopOK
    <3>3. CASE ~Refuses(Line[1], Line[2])
      <4> DEFINE f == Line[2]
                 c == [build[f] EXCEPT !.marks = Result(Line[1], build[f].marks)]
      <4>1. Onward /\ Put(f, c)
        BY <2>8, <3>3 DEF Patch
      <4>2. f \in Files /\ FileOK(f, c)
        BY <1>1, <3>1, Refusal, Patching, MadeOK DEF LoopOK
      <4> HIDE DEF c
      <4>3. LoopOK'
        BY <1>1, <3>1, <4>1 DEF LoopOK, Onward, Put
      <4>4. QED
        BY <1>1, <4>1, <4>2, <4>3, PutOK DEF Put, LoopOK
    <3>4. QED
      BY <3>2, <3>3
  <2>9. CASE Unmark \/ Mark
    <3>1. pc \in {23, 28}
      BY <1>1, <2>9, Kinds DEF Unmark, Mark, At, LoopOK
    <3>2. on' \in BOOLEAN
      BY <2>9, Zenon DEF Unmark, Unmarked, Mark
    <3>3. QED
      BY <1>1, <1>2, <2>9, <3>1, <3>2 DEF Unmark, Mark, Onward, LoopOK
  <2>10. CASE Check
    <3>1. pc = 33
      BY <1>1, <2>10, Kinds DEF Check, At, LoopOK
    <3>2. QED
      BY <1>1, <1>2, <2>10, <3>1 DEF Check, Onward, EndIn, LoopOK
  <2>11. CASE Fetch
    BY <1>1, <1>2, <2>11 DEF Fetch, EndIn, LoopOK
  <2>12. CASE Kill
    <3>1. LoopOK'
      BY <1>1, <2>12 DEF Kill, EndIn, LoopOK
    <3>2. CASE UNCHANGED build
      BY <1>2, <3>1, <3>2
    <3>3. CASE Line[2] \in Files /\ build' = [build EXCEPT ![Line[2]] = Torn]
      BY <1>1, <3>1, <3>3, AbsentOK, PutOK DEF LoopOK
    <3>4. QED
      BY <2>12, <3>1, <3>2, <3>3 DEF Kill
  <2>13. CASE UNCHANGED vars
    BY <1>1, <1>2, <2>13 DEF LoopOK
  <2>14. QED
    BY <2>1, <2>2, <2>3, <2>4, <2>5, <2>6, <2>7, <2>8, <2>9, <2>10, <2>11, <2>12, <2>13
    DEF Next
<1>4. QED
  <2>1. TypeOK' <=> FilesOK' /\ LoopOK'
    BY Types, PTL
  <2>2. QED
    BY <1>3, <2>1

-----------------------------------------------------------------------------
(* The theorems *)

\* The inductive invariant.
Inv == TypeOK /\ RunInv /\ Converges /\ ImageDecides

\* An empty build/ satisfies the invariant.
LEMMA InitInv == Init => Inv
<1> SUFFICES ASSUME Init PROVE Inv
  OBVIOUS
<1>1. \A f \in Files : build[f] = Absent
  BY DEF Init
<1>2. FilesOK
  BY <1>1, AbsentOK DEF FilesOK
<1>3. LoopOK
  <2>1. on \in BOOLEAN /\ found \in BOOLEAN
    BY Zenon DEF Init
  <2>2. QED
    BY <2>1, MaxRunsAssumption DEF Init, LoopOK
<1>4. IsBuild
  BY DEF Init, IsBuild
<1>5. QED
  BY <1>2, <1>3, <1>4, Types DEF Init, Inv, RunInv, Converges, ImageDecides, LoopOK

\* A line other than a patch, the assertions or the download does not end the run, unless
\* it is killed.
LEMMA Unended ==
  ASSUME status' \in {"idle", "running", "failed"}
  PROVE  Converges' /\ ImageDecides'
  BY DEF Converges, ImageDecides

\* Every step keeps the invariant.
LEMMA InvStep == Inv /\ [Next]_vars => Inv'
<1> SUFFICES ASSUME Inv, [Next]_vars PROVE Inv'
  OBVIOUS
<1>1. TypeOK' /\ TypeOK /\ RunInv
  BY TypeStep DEF Inv
<1>2. RunInv' /\ Converges' /\ ImageDecides'
  <2>1. ASSUME NEW im \in Images, NEW opt \in BOOLEAN, Start(im, opt)
        PROVE  RunInv' /\ status' = "running"
    <3>1. pc' = 1 /\ status' = "running" /\ UNCHANGED build
      BY <2>1 DEF Start
    <3>2. \A f \in Files : ~(1 > Maker[f])
      BY DEF Maker, Files, Marked
    <3>3. Maker' = Maker
      BY DEF Maker
    <3>4. QED
      BY <1>1, <3>1, <3>2, <3>3 DEF RunInv, IsBuild, Progress, Passed
  <2>2. CASE Extract \/ Copy \/ Remove \/ Probe \/ Table \/ Skip \/ Unmark \/ Mark
    <3>1. RunInv'
      BY <1>1, <2>2, ExtractStep, CopyStep, RemoveStep, ProbeStep, TableStep, SkipStep,
         UnmarkStep, MarkStep
    <3>2. status' = "running"
      BY <2>2 DEF Extract, Copy, Remove, Probe, Table, Skip, Unmark, Mark, At, Running, Onward
    <3>3. QED
      BY <3>1, <3>2, Unended
  <2>3. CASE Patch
    BY <1>1, <2>3, PatchStep DEF Converges, ImageDecides
  <2>4. CASE Check
    BY <1>1, <2>4, CheckStep DEF Converges, ImageDecides
  <2>5. CASE Fetch
    <3>1. pc = 34 /\ status = "running"
      BY <1>1, <2>5, Kinds DEF Fetch, At, Running, RunInv
    <3>2. /\ UNCHANGED <<build, on, image, option, found>> /\ pc' = 1
          /\ status' \in {"complete", "failed"}
      BY <2>5 DEF Fetch, EndIn
    <3>3. build = Clean /\ on = option /\ Accepts
      BY <1>1, <3>1, Finished
    <3>4. Clean' = Clean
      BY <3>2 DEF Clean
    <3>5. Accepts'
      BY <3>2, <3>3 DEF Accepts, Fits
    <3>6. QED
      BY <1>1, <3>2, <3>3, <3>4, <3>5 DEF RunInv, IsBuild, Converges, ImageDecides
  <2>6. CASE Kill
    <3>1. pc' = 1 /\ status' = "failed"
      BY <2>6 DEF Kill, EndIn
    <3>2. IsBuild'
      BY <1>1, <2>6 DEF Kill, RunInv, IsBuild
    <3>3. QED
      BY <3>1, <3>2, Unended DEF RunInv
  <2>7. CASE UNCHANGED vars
    <3>1. Clean' = Clean /\ (Accepts' <=> Accepts)
      BY <2>7 DEF Clean, Accepts, Fits
    <3>2. RunInv'
      <4>1. Maker' = Maker
        BY DEF Maker
      <4>2. \A f \in Files : FileAt(f, pc)' = FileAt(f, pc)
        BY <2>7 DEF FileAt, MarksAt, Patched, Routed
      <4>3. \A n \in 1..(pc - 1) : Ask(n)' <=> Ask(n)
        BY <2>7 DEF Ask, Fits
      <4>4. QED
        BY <1>1, <2>7, <3>1, <4>1, <4>2, <4>3 DEF RunInv, IsBuild, Progress, Passed
    <3>3. QED
      BY <2>7, <3>1, <3>2 DEF Inv, Converges, ImageDecides
  <2>8. QED
    BY <2>1, <2>2, <2>3, <2>4, <2>5, <2>6, <2>7, Unended DEF Next
<1>3. QED
  BY <1>1, <1>2 DEF Inv

\* The invariant holds of every run of the scripts.
LEMMA Invariance == Spec => []Inv
  BY InitInv, InvStep, PTL DEF Spec

\* TypeOK of every reachable state, for every set of images (prepare.sh:16-108).
THEOREM PrepareTypeCorrect == Spec => []TypeOK
<1>1. Inv => TypeOK
  BY DEF Inv
<1>2. QED
  BY Invariance, <1>1, PTL

\* A run that completes leaves what a first run would, for every set of images, every history
\* of runs and kills, and every option (prepare.sh:51-108).
THEOREM ConvergesHolds == Spec => []Converges
<1>1. Inv => Converges
  BY DEF Inv
<1>2. QED
  BY Invariance, <1>1, PTL

\* Whether a run is refused is a matter of the image, the option and what the probe found, for
\* every set of images, supported or not: leftovers decide nothing (prepare.sh:61-171).
THEOREM ImageDecidesHolds == Spec => []ImageDecides
<1>1. Inv => ImageDecides
  BY DEF Inv
<1>2. QED
  BY Invariance, <1>1, PTL

\* Every branch of the GDN kernel rolls the PLE state and none of KDA's does, for every image
\* whose branches are each one kernel's own (replayssm_ple_commit.py:106-134).
THEOREM GdnRollsHolds == Spec => []GdnRolls
<1>1. Inv => GdnRolls
  <2> SUFFICES ASSUME Inv, status = "complete", Branched(image.spec),
                      NEW b \in DOMAIN image.spec, image.spec[b] \in {"gdn", "kda"}
               PROVE  \E r \in b..Len(image.spec) :
                        /\ image.spec[r] = "return"
                        /\ \A i \in b..(r - 1) : image.spec[i] # "return"
                        /\ r \in build["spec"].marks <=> image.spec[b] = "gdn"
    BY DEF GdnRolls
  <2> DEFINE body == image.spec
  <2>1. build["spec"].marks = Rolls(body)
    BY DEF Inv, Converges, Clean, Files, Marked
  <2>2. PICK r \in b..Len(body) : /\ body[r] = "return"
                                  /\ \A i \in b..(r - 1) : body[i] \in {body[b], "other"}
    BY DEF Branched
  <2>3. DOMAIN body = 1..Len(body) /\ Len(body) \in Nat
    BY ImageAssumption DEF Inv, TypeOK
  <2>4. r \in DOMAIN body /\ b < r /\ b \in 1..(r - 1)
    BY <2>2, <2>3
  <2>5. CASE body[b] = "gdn"
    <3>1. r \in Rolls(body)
      BY <2>2, <2>4, <2>5 DEF Rolls
    <3>2. QED
      BY <2>1, <2>2, <2>5, <3>1
  <2>6. CASE body[b] = "kda"
    <3>1. ASSUME r \in Rolls(body) PROVE FALSE
      <4>1. PICK g \in 1..(r - 1) :
              body[g] = "gdn" /\ \A i \in g..(r - 1) : body[i] \notin {"kda", "return"}
        BY <3>1 DEF Rolls
      <4>2. CASE g <= b
        BY <2>3, <2>4, <2>6, <4>1, <4>2
      <4>3. CASE b < g
        BY <2>2, <2>3, <2>4, <2>6, <4>1, <4>3
      <4>4. QED
        BY <2>3, <2>4, <4>1, <4>2, <4>3
    <3>2. QED
      BY <2>1, <2>2, <2>6, <3>1
  <2>7. QED
    BY <2>5, <2>6
<1>2. QED
  BY Invariance, <1>1, PTL

-----------------------------------------------------------------------------
(***************************************************************************)
(* HOST_PROXY.PY                                                           *)
(***************************************************************************)

USE DEF Dir, Party, From, To

(* The inductive invariant *)

\* The piece that a pump has received and not passed on.
Held(d) == IF pump[d] = "send" THEN 1 ELSE 0

\* A pump passes on no more than it received, and it received no more than was sent.
Counted ==
  \A d \in Dir : passed[d] + Held(d) <= got[d] /\ got[d] <= sent[d]

\* Before the connection nothing runs, and the server has nothing to say.
Unborn ==
  ~Connected =>
    /\ \A d \in Dir : pump[d] = "unborn" /\ passed[d] = 0
    /\ sent["down"] = 0 /\ told["up"] = "no"

\* A pump loses nothing that it received for a party that is there; the up pump may when the
\* handler has closed its socket.
Kept ==
  \A d \in Dir :
    Here(To(d)) /\ (d = "up" => handler # "closed") => got[d] = passed[d] + Held(d)

\* A pump between two parties that are there ends at the end of the stream.
EndsAtEnd ==
  \A d \in Dir :
    (/\ pump[d] \in {"finally", "ended"} /\ Here("client") /\ Here("server")
     /\ fin[d] # "reset" /\ (d = "up" => handler # "closed"))
    => fin[d] = "shut" /\ got[d] = sent[d]

\* Ends are told by a pump that ended or by the handler.
Telling ==
  /\ handler \in {"join", "closed"} => pump["down"] = "ended"
  /\ told["down"] = "yes" => pump["down"] = "ended" \/ handler = "refused"
  /\ told["up"] = "yes" => pump["up"] = "ended" \/ handler = "closed"

ProxyInv == ProxyTypeOK /\ Counted /\ Unborn /\ Kept /\ EndsAtEnd /\ Telling

LEMMA ProxyInvInit == ASSUME ProxyInit PROVE ProxyInv
  BY NAssumption DEF ProxyInit, ProxyInv, ProxyTypeOK, Counted, Unborn, Kept,
         EndsAtEnd, Telling, Held, Here, Connected

\* The steps of the parties.
LEMMA PartyStep ==
  ASSUME ProxyInv, NEW d \in Dir,
         Send(d) \/ HalfClose(d) \/ Leave(d)
  PROVE  ProxyInv'
<1> USE NAssumption DEF ProxyInv, proxyVars
<1>1. CASE Send(d)
  <2> USE <1>1 DEF Send, CanAct
  <2>1. ProxyTypeOK'
    BY DEF ProxyTypeOK
  <2>2. Counted'
    BY DEF ProxyTypeOK, Counted, Held
  <2>3. Unborn'
    BY DEF ProxyTypeOK, Unborn, Connected
  <2>4. Kept' /\ Telling'
    BY DEF Kept, Telling, Held, Here
  <2>5. EndsAtEnd'
    BY DEF ProxyTypeOK, EndsAtEnd, Here
  <2>6. QED
    BY <2>1, <2>2, <2>3, <2>4, <2>5
<1>2. CASE HalfClose(d)
  <2> USE <1>2 DEF HalfClose, CanAct
  <2>1. ProxyTypeOK'
    BY DEF ProxyTypeOK
  <2>2. Counted' /\ Unborn' /\ Kept' /\ Telling'
    BY DEF Counted, Unborn, Kept, Telling, Held, Here, Connected
  <2>3. EndsAtEnd'
    BY DEF ProxyTypeOK, EndsAtEnd, Here
  <2>4. QED
    BY <2>1, <2>2, <2>3
<1>3. CASE Leave(d)
  <2> USE <1>3 DEF Leave, CanAct
  <2>1. ProxyTypeOK'
    BY DEF ProxyTypeOK
  <2>2. Counted' /\ Unborn' /\ Telling'
    BY DEF Counted, Unborn, Telling, Held, Connected
  <2>3. Kept'
    BY DEF ProxyTypeOK, Kept, Held, Here
  <2>4. EndsAtEnd'
    BY DEF ProxyTypeOK, EndsAtEnd, Here
  <2>5. QED
    BY <2>1, <2>2, <2>3, <2>4
<1>4. QED
  BY <1>1, <1>2, <1>3

\* The steps of a pump.
LEMMA PumpsStep ==
  ASSUME ProxyInv, NEW d \in Dir, PumpStep(d)
  PROVE  ProxyInv'
<1> USE NAssumption DEF ProxyInv, partyVars, MovePump
<1>1. pump[d] # "unborn" /\ Connected
  BY DEF PumpStep, Receive, SeeEnd, CutOff,
         Pass, PassInVain, Finally, Unborn
<1>2. CASE Receive(d)
  <2> USE <1>2 DEF Receive
  <2>1. ProxyTypeOK' /\ Counted' /\ Kept'
    BY DEF ProxyTypeOK, Counted, Kept, Held, Here
  <2>2. Unborn' /\ Telling'
    BY <1>1 DEF ProxyTypeOK, Unborn, Telling, Connected
  <2>3. EndsAtEnd'
    BY DEF ProxyTypeOK, EndsAtEnd, Here
  <2>4. QED
    BY <2>1, <2>2, <2>3
<1>3. CASE SeeEnd(d)
  <2> USE <1>3 DEF SeeEnd
  <2>1. ProxyTypeOK' /\ Counted' /\ Kept'
    BY DEF ProxyTypeOK, Counted, Kept, Held, Here
  <2>2. Unborn' /\ Telling'
    BY <1>1 DEF ProxyTypeOK, Unborn, Telling, Connected
  <2>3. EndsAtEnd'
    BY DEF ProxyTypeOK, EndsAtEnd, Here
  <2>4. QED
    BY <2>1, <2>2, <2>3
<1>4. CASE CutOff(d)
  <2> USE <1>4 DEF CutOff
  <2>1. ProxyTypeOK' /\ Counted' /\ Kept'
    BY DEF ProxyTypeOK, Counted, Kept, Held, Here
  <2>2. Unborn' /\ Telling'
    BY <1>1 DEF ProxyTypeOK, Unborn, Telling, Connected
  <2>3. EndsAtEnd'
    BY DEF ProxyTypeOK, EndsAtEnd, Telling, Here
  <2>4. QED
    BY <2>1, <2>2, <2>3
<1>5. CASE Pass(d)
  <2> USE <1>5 DEF Pass
  <2>1. ProxyTypeOK' /\ Counted' /\ Kept'
    BY DEF ProxyTypeOK, Counted, Kept, Held, Here
  <2>2. Unborn' /\ Telling'
    BY <1>1 DEF ProxyTypeOK, Unborn, Telling, Connected
  <2>3. EndsAtEnd'
    BY DEF ProxyTypeOK, EndsAtEnd, Here
  <2>4. QED
    BY <2>1, <2>2, <2>3
<1>6. CASE PassInVain(d)
  <2> USE <1>6 DEF PassInVain
  <2>1. ProxyTypeOK' /\ Counted'
    BY DEF ProxyTypeOK, Counted, Held
  <2>2. Kept'
    BY DEF ProxyTypeOK, Counted, Kept, Telling, Held, Here
  <2>3. Unborn' /\ Telling'
    BY <1>1 DEF ProxyTypeOK, Unborn, Telling, Connected
  <2>4. EndsAtEnd'
    BY DEF ProxyTypeOK, EndsAtEnd, Telling, Here
  <2>5. QED
    BY <2>1, <2>2, <2>3, <2>4
<1>7. CASE Finally(d)
  <2> USE <1>7 DEF Finally, ToldOf
  <2>1. ProxyTypeOK' /\ Counted' /\ Kept'
    BY DEF ProxyTypeOK, Counted, Kept, Held, Here
  <2>2. Unborn' /\ Telling'
    BY <1>1 DEF ProxyTypeOK, Unborn, Telling, Connected
  <2>3. EndsAtEnd'
    BY DEF ProxyTypeOK, EndsAtEnd, Here
  <2>4. QED
    BY <2>1, <2>2, <2>3
<1>8. QED
  BY <1>2, <1>3, <1>4, <1>5, <1>6, <1>7 DEF PumpStep

\* The steps of the handler.
LEMMA HandlerStep ==
  ASSUME ProxyInv, Connect \/ Refuse \/ Pumped \/ Close
  PROVE  ProxyInv'
<1> USE NAssumption DEF ProxyInv, partyVars, ProxyTypeOK, Counted, Unborn, Kept,
            EndsAtEnd, Telling, Held, Here, Connected
<1>1. CASE Connect
  BY <1>1 DEF Connect
<1>2. CASE Refuse
  BY <1>2 DEF Refuse
<1>3. CASE Pumped
  BY <1>3 DEF Pumped, Foreground
<1>4. CASE Close
  BY <1>4 DEF Close
<1>5. QED
  BY <1>1, <1>2, <1>3, <1>4

LEMMA ProxyStutter == ProxyInv /\ UNCHANGED allVars => ProxyInv'
  BY DEF allVars, proxyVars, partyVars, ProxyInv, ProxyTypeOK, Counted, Unborn,
         Kept, EndsAtEnd, Telling, Held, Here, Connected

LEMMA ProxyInvariance == ProxySpec => []ProxyInv
<1>1. ProxyInv /\ [ProxyNext]_allVars => ProxyInv'
  BY PartyStep, PumpsStep, HandlerStep, ProxyStutter DEF ProxyNext
<1>2. QED
  BY ProxyInvInit, <1>1, PTL DEF ProxySpec

-----------------------------------------------------------------------------
(* Theorems *)

\* TypeOK of every reachable state (the sockets and threads of host_proxy.py:22-51).
THEOREM ProxyTypeCorrect == ProxySpec => []ProxyTypeOK
<1>1. ProxyInv => ProxyTypeOK
  BY DEF ProxyInv
<1>2. QED
  BY ProxyInvariance, <1>1, PTL

\* NothingLost, with any number of pieces each way: a half-close does not cut the answer off.
THEOREM NothingIsLost == ProxySpec => []NothingLost
<1>1. ProxyInv => NothingLost
  <2> SUFFICES ASSUME ProxyInv, NEW d \in Dir,
                      told[d] = "yes", Here("client"), Here("server"),
                      fin[d] # "reset", d = "up" => fin["down"] = "open"
               PROVE  passed[d] = sent[d]
    BY DEF NothingLost
  <2>1. CASE d = "down"
    BY <2>1 DEF ProxyInv, ProxyTypeOK, Telling, EndsAtEnd, Kept, Unborn, Held, Connected
  <2>2. CASE d = "up"
    BY <2>2 DEF ProxyInv, ProxyTypeOK, Telling, EndsAtEnd, Kept, Held
  <2>3. QED
    BY <2>1, <2>2
<1>2. QED
  BY ProxyInvariance, <1>1, PTL
=============================================================================
