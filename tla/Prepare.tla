------------------------------ MODULE Prepare ------------------------------
(***************************************************************************)
(* scripts/prepare.sh: extracts the pristine sources from the image into   *)
(* build/, patches them one after the other under set -e, checks what came *)
(* out and fetches the checkpoint. A run may be killed anywhere and run    *)
(* again, for the same image and option or for others.                     *)
(*                                                                         *)
(* Simplifications: a file is the image it comes from and the marks that   *)
(* the patches look for or leave in it; the path_*.txt files are one file. *)
(* Of spec_utils.py, the marks are the lines of the function that a patch  *)
(* put the roll of the PLE state before, and the image has what its lines  *)
(* are. Whether a patch finds the text that it replaces is up to the image *)
(* alone, not to the patches before it.                                    *)
(***************************************************************************)
EXTENDS Integers, Sequences

CONSTANTS
  Images,   \* records: name, table, spec, the marks of the pristine files, and
            \* misfits: the patches and files whose text to replace is not there once
  MaxRuns   \* bound: how often the script is run

Marked == {"qwen4", "qsa", "indexer"}
Files == Marked \cup {"paths", "loader", "mtp", "spec", "kernel", "metadata", "table", "varlen",
                      "kda"}

ASSUME ImageAssumption ==
  \A im \in Images :
    /\ im.table \in BOOLEAN
    /\ im.spec \in Seq({"gdn", "kda", "return", "other"})
    /\ \A f \in Marked : f \in DOMAIN im.marks
    /\ im.name \notin {"none", "torn", "ours"}
    /\ \A other \in Images : other.name = im.name => other = im

ASSUME MaxRunsAssumption == MaxRuns \in Nat

VARIABLES
  build,        \* file -> what is in build/
  on,           \* qsa_prefill_selection.on is there
  snapshot,     \* the checkpoint: "none", "incomplete" or "ready"
  status,       \* of the run: "idle", "running", "complete", "refused", "failed"
  pc,           \* the line of the script
  image, option,\* IMAGE and QSA_PREFILL_SELECTION of the run
  found,        \* the run has found the image's PLE table module
  runs          \* how often the script was run

runVars == <<status, pc, image, option, found, runs>>
vars == <<build, on, snapshot, runVars>>

Absent == [from |-> "none", marks |-> {}]
Torn == [from |-> "torn", marks |-> {}]
Pristine(f) ==
  [from |-> image.name, marks |-> IF f \in Marked THEN image.marks[f] ELSE {}]
Ours == [from |-> "ours", marks |-> {}]

-----------------------------------------------------------------------------
(* The patches: the marks that one leaves in a file, and where it refuses *)

HasTable(marks) == marks \cap {"alloc", "native"} # {}

\* ple_mmap.py
Mmap(marks) == IF HasTable(marks) THEN marks ELSE (marks \ {"pinned"}) \cup {"alloc"}

\* qsa_sm121_triton.py: the bundled KDA route is replaced.
Triton(marks) == IF "varlen" \in marks THEN marks ELSE (marks \ {"bundled"}) \cup {"varlen"}

\* ple_file_compat.py, ple_reuse.py, qsa_drop_sm121_sdpa.py, draft_mtp_files.py,
\* qsa_chunk_tail_clamp.py
Compat(marks) == marks \cup {"compat"}
Reuse(marks) == marks \cup {"reuse"}
DropSdpa(marks) == marks \ {"sdpa"}
Filter(marks) == marks \cup {"filter"}
Clamp(marks) == marks \cup {"clamp"}

\* Mutant: the roll goes in after the return.
RollsAfter(body) ==
  {i + 1 : i \in {r \in DOMAIN body : body[r] = "return" /\ \E g \in 1..r : body[g] = "gdn"}}

\* patch_gdn_branches of replayssm_ple_commit.py: in_gdn at a return says that a line with
\* the GDN kernel's commit is above it, and since then no line with KDA's and no return.
Rolls(body) ==
  {r \in DOMAIN body : body[r] = "return" /\ \E g \in 1..(r - 1) :
     body[g] = "gdn" /\ \A i \in g..(r - 1) : body[i] \notin {"kda", "return"}}

\* qsa_prefill_selection.diff: the files that it changes.
Selected == {"qsa", "kernel", "metadata", "indexer"}

Roll(marks) == IF marks = {} THEN Rolls(image.spec) ELSE marks

Result(by, marks) ==
  CASE by = "mmap" -> Mmap(marks) [] by = "triton" -> Triton(marks)
    [] by = "reuse" -> Reuse(marks) [] by = "sdpa" -> DropSdpa(marks)
    [] by = "compat" -> Compat(marks) [] by = "filter" -> Filter(marks)
    [] by = "clamp" -> Clamp(marks) [] by = "roll" -> Roll(marks)
    [] by = "selection" -> marks \cup {"selection"}

Fits(by, f) == <<by, f>> \notin image.misfits

\* Where the patches return 1 or raise; a file that has the mark is left as it is.
MmapRefuses(marks) == ~HasTable(marks) /\ ("pinned" \notin marks \/ ~Fits("mmap", "qwen4"))
ReuseRefuses(marks) == "reuse" \notin marks /\ (~HasTable(marks) \/ ~Fits("reuse", "qwen4"))
CompatRefuses(marks) == "compat" \notin marks /\ ~Fits("compat", "table")
DropSdpaRefuses == ~Fits("sdpa", "qsa")
TritonRefuses(marks) ==
  \/ "kda" \in marks
  \/ "varlen" \notin marks /\ ("gate" \in marks \/ ~Fits("triton", "qsa"))
RollRefuses(marks) == marks = {} /\ Rolls(image.spec) = {}
FilterRefuses(f, marks) == "filter" \notin marks /\ ~Fits("filter", f)
ClampRefuses(marks) == "clamp" \notin marks /\ ~Fits("clamp", "indexer")

\* git applies the diff to all of its files or to none, before the first is copied back.
SelectionRefuses(f) ==
  /\ f = "qsa"
  /\ \/ ~Fits("selection", "qsa")
     \/ \E g \in Selected : "selection" \in build[g].marks

Refuses(by, f) ==
  LET marks == build[f].marks
  IN  \/ by = "compat" /\ CompatRefuses(marks)
      \/ by = "mmap" /\ MmapRefuses(marks)
      \/ by = "reuse" /\ ReuseRefuses(marks)
      \/ by = "sdpa" /\ DropSdpaRefuses
      \/ by = "triton" /\ TritonRefuses(marks)
      \/ by = "roll" /\ RollRefuses(marks)
      \/ by = "filter" /\ FilterRefuses(f, marks)
      \/ by = "selection" /\ SelectionRefuses(f)
      \/ by = "clamp" /\ ClampRefuses(marks)

-----------------------------------------------------------------------------
(* The script *)

Do(what, f) == <<what, f>>

\* The lines of prepare.sh that change build/, in their order.
Script ==
  << Do("extract", "paths"), Do("extract", "loader"), Do("extract", "mtp"),
     Do("extract", "qwen4"), Do("extract", "qsa"), Do("extract", "spec"),
     Do("remove", "kernel"), Do("remove", "metadata"), Do("remove", "indexer"),
     Do("extract", "kernel"), Do("extract", "metadata"), Do("extract", "indexer"),
     Do("probe", "table"), Do("table", "table"), Do("compat", "table"),
     Do("mmap", "qwen4"), Do("reuse", "qwen4"), Do("sdpa", "qsa"), Do("triton", "qsa"),
     Do("roll", "spec"), Do("filter", "loader"), Do("filter", "mtp"),
     Do("unmark", "on"),
     Do("selection", "qsa"), Do("selection", "kernel"), Do("selection", "metadata"),
     Do("selection", "indexer"), Do("mark", "on"),
     Do("clamp", "indexer"), Do("copy", "varlen"), Do("remove", "kda"), Do("copy", "kda"),
     Do("check", "build"), Do("fetch", "snapshot") >>

Line == Script[pc]
Running == status = "running"
At(what) == Running /\ Line[1] = what

\* Type correctness; the roll is in front of returns.
TypeOK ==
  /\ \A f \in Files : build[f].from \in {"none", "torn", "ours"} \cup {im.name : im \in Images}
  /\ \A f \in {"paths", "varlen", "kda"} : build[f].marks = {}
  /\ \A im \in Images : build["spec"].from = im.name =>
       \A i \in build["spec"].marks : i \in DOMAIN im.spec /\ im.spec[i] = "return"
  /\ on \in BOOLEAN /\ snapshot \in {"none", "incomplete", "ready"}
  /\ status \in {"idle", "running", "complete", "refused", "failed"}
  /\ pc \in DOMAIN Script
  /\ image \in Images /\ option \in BOOLEAN /\ found \in BOOLEAN /\ runs \in 0..MaxRuns

Init ==
  /\ build = [f \in Files |-> Absent]
  /\ on = FALSE /\ snapshot = "none"
  /\ status = "idle" /\ pc = 1 /\ image \in Images /\ option \in BOOLEAN /\ found = FALSE
  /\ runs = 0

Start(im, opt) ==
  /\ ~Running /\ runs < MaxRuns /\ runs' = runs + 1
  /\ status' = "running" /\ pc' = 1 /\ image' = im /\ option' = opt /\ found' = FALSE
  /\ UNCHANGED <<build, on, snapshot>>

Onward ==
  /\ pc' = pc + 1
  /\ UNCHANGED <<status, image, option, found, runs>>

EndIn(end) == status' = end /\ pc' = 1 /\ UNCHANGED <<image, option, found, runs>>

Put(f, content) == build' = [build EXCEPT ![f] = content] /\ UNCHANGED <<on, snapshot>>

Extract == At("extract") /\ Onward /\ Put(Line[2], Pristine(Line[2]))
Copy == At("copy") /\ Onward /\ Put(Line[2], Ours)
Remove == At("remove") /\ Onward /\ Put(Line[2], Absent)

\* The import in the image fails: the module is not there, or docker did not run.
Probe ==
  /\ At("probe")
  /\ found' \in {image.table, FALSE}
  /\ pc' = pc + 1
  /\ UNCHANGED <<build, on, snapshot, status, image, option, runs>>

\* Mutant: an earlier image's table module stays.
TableLeft == build["table"]
NoTable == Absent

Table ==
  /\ At("table") /\ Onward
  /\ Put("table", IF found THEN Pristine("table") ELSE NoTable)

\* Lines of a branch that the run does not take.
Skipped == (Line[1] = "compat" /\ ~found) \/ (Line[1] \in {"selection", "mark"} /\ ~option)
Skip == Running /\ Skipped /\ Onward /\ UNCHANGED <<build, on, snapshot>>

Patches == {"compat", "mmap", "reuse", "sdpa", "triton", "roll", "filter", "selection", "clamp"}

Patch ==
  /\ Running /\ Line[1] \in Patches /\ ~Skipped
  /\ LET by == Line[1]
         f == Line[2]
     IN  IF Refuses(by, f)
         THEN EndIn("refused") /\ UNCHANGED <<build, on, snapshot>>
         ELSE Onward /\ Put(f, [build[f] EXCEPT !.marks = Result(by, build[f].marks)])

\* Mutant: the marker of an earlier run stays.
StillMarked == on
Unmarked == FALSE

Unmark == At("unmark") /\ Onward /\ on' = Unmarked /\ UNCHANGED <<build, snapshot>>
Mark == At("mark") /\ ~Skipped /\ Onward /\ on' = TRUE /\ UNCHANGED <<build, snapshot>>

\* The assertions at the end.
Asserted ==
  /\ HasTable(build["qwen4"].marks) /\ "reuse" \in build["qwen4"].marks
  /\ build["qsa"].marks \cap {"sdpa", "gate", "kda", "bundled"} = {}
  /\ "varlen" \in build["qsa"].marks
  /\ build["spec"].marks # {}
  /\ on <=> "selection" \in build["kernel"].marks
  /\ on <=> "selection" \in build["qsa"].marks
  /\ "filter" \in build["loader"].marks /\ "filter" \in build["mtp"].marks
  /\ "clamp" \in build["indexer"].marks
  /\ build["table"] # Absent => "compat" \in build["table"].marks

Check ==
  /\ At("check")
  /\ IF Asserted THEN Onward ELSE EndIn("refused")
  /\ UNCHANGED <<build, on, snapshot>>

\* snapshot_ready, the download, and its result; no token, or no network, ends the run.
Fetch ==
  /\ At("fetch")
  /\ \/ snapshot' = "ready" /\ EndIn("complete")
     \/ snapshot # "ready" /\ snapshot' \in {"none", "incomplete"} /\ EndIn("failed")
        /\ (snapshot = "incomplete" => snapshot' = "incomplete")
  /\ UNCHANGED <<build, on>>

\* A kill, or docker failing: the file that is being written may be torn.
Kill ==
  /\ Running /\ Line[1] # "fetch" /\ EndIn("failed")
  /\ \/ UNCHANGED build
     \/ Line[2] \in Files /\ ~Skipped /\ build' = [build EXCEPT ![Line[2]] = Torn]
  /\ UNCHANGED <<on, snapshot>>

Next ==
  \/ \E im \in Images, opt \in BOOLEAN : Start(im, opt)
  \/ Extract \/ Copy \/ Remove \/ Probe \/ Table \/ Skip \/ Patch \/ Unmark \/ Mark \/ Check
  \/ Fetch \/ Kill

Spec == Init /\ [][Next]_vars

-----------------------------------------------------------------------------
(* Properties *)

With(opt, marks) == IF opt THEN marks \cup {"selection"} ELSE marks

\* What a first run of this image and option would leave in an empty build/.
Clean ==
  [f \in Files |->
     IF f \in {"varlen", "kda"} THEN Ours
     ELSE IF f = "table" /\ ~found THEN Absent
     ELSE [from |-> image.name,
           marks |-> CASE f = "paths" -> {}
                       [] f \in {"loader", "mtp"} -> {"filter"}
                       [] f = "table" -> {"compat"}
                       [] f = "qwen4" -> Reuse(Mmap(image.marks[f]))
                       [] f = "qsa" -> With(option, Triton(DropSdpa(image.marks[f])))
                       [] f = "indexer" -> Clamp(With(option, image.marks[f]))
                       [] f = "spec" -> Rolls(image.spec)
                       [] OTHER -> With(option, {})]]

\* A run that completes leaves the build of its own image and option, whatever runs for
\* others came before and wherever they were killed: nothing of theirs is served
\* (prepare.sh:51-108; the files, the marker and the PLE table module).
Converges == status = "complete" => build = Clean /\ on = option

\* What a script run in an empty build/ asks of an image.
Accepts ==
  LET qwen4 == image.marks["qwen4"]
      qsa == image.marks["qsa"]
      indexer == image.marks["indexer"]
  IN
  /\ found => Fits("compat", "table")
  /\ HasTable(qwen4) \/ ("pinned" \in qwen4 /\ Fits("mmap", "qwen4"))
  /\ "reuse" \in qwen4 \/ Fits("reuse", "qwen4")
  /\ Fits("sdpa", "qsa")
  /\ qsa \cap {"kda", "gate"} = {}
  /\ IF "varlen" \in qsa THEN "bundled" \notin qsa ELSE Fits("triton", "qsa")
  /\ Rolls(image.spec) # {}
  /\ Fits("filter", "loader") /\ Fits("filter", "mtp")
  /\ "selection" \notin qsa
  /\ option => Fits("selection", "qsa") /\ "selection" \notin indexer
  /\ "clamp" \in indexer \/ Fits("clamp", "indexer")

\* The image and the option decide whether the patches and the assertions refuse, never
\* what earlier runs left: no patch meets its own earlier work in a form that it refuses,
\* and none lets through what a first run would not (prepare.sh:61-171).
ImageDecides == (status = "refused" => ~Accepts) /\ (status = "complete" => Accepts)

\* Each commit is in a branch of its kernel's own, which a return ends.
Branched(body) ==
  \A b \in DOMAIN body : body[b] \in {"gdn", "kda"} =>
    \E r \in b..Len(body) :
      /\ body[r] = "return" /\ \A i \in b..(r - 1) : body[i] \in {body[b], "other"}

\* Every commit of the GDN kernel is followed by the roll of the PLE state on its way out,
\* and KDA's branches are as they were (replayssm_ple_commit.py:106-134).
GdnRolls ==
  status = "complete" /\ Branched(image.spec) =>
    \A b \in DOMAIN image.spec : LET body == image.spec IN
      body[b] \in {"gdn", "kda"} =>
        \E r \in b..Len(body) :
          /\ body[r] = "return" /\ \A i \in b..(r - 1) : body[i] # "return"
          /\ r \in build["spec"].marks <=> body[b] = "gdn"
=============================================================================
