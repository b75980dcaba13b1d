--------------------------- MODULE HybridSnapshot ---------------------------
(***************************************************************************)
(* scripts/build_fp8_hybrid_snapshot.py: a directory beside the source     *)
(* snapshot, in which every file is a symlink to the source's except the   *)
(* shards that hold converted tensors and three JSON files. A run may be   *)
(* killed at any point and repeated, in the same mode or in the other one. *)
(*                                                                         *)
(* Simplifications: a file is whole or torn, the files of the source that  *)
(* are no shards are left out (they are links), and of the tensors in a    *)
(* shard it is told only whether some are converted.                       *)
(***************************************************************************)

CONSTANTS
  Shards,     \* the *.safetensors files of the source
  Convert,    \* those with a tensor that CONVERT matches and SKIP does not
  Dirs,       \* destinations
  Modes       \* destination -> the values of MODE that runs into it have

AllModes == {"convert", "config-only"}

ASSUME ShardAssumption == Convert \subseteq Shards
ASSUME ModeAssumption == Modes \in [Dirs -> SUBSET AllModes]

Index == "model.safetensors.index.json"
Quant == "hf_quant_config.json"
Config == "config.json"
\* Mutant: config.json is taken for one of the other files.
JsonsWithoutConfig == {Index, Quant}
Jsons == {Index, Quant, Config}
Files == Shards \cup Jsons

ASSUME NameAssumption == Shards \cap Jsons = {}

\* Of a shard: the source's bytes, or converted, or neither; of a JSON file: the mode it says.
Contents == {"source", "fp8", "torn"} \cup AllModes

VARIABLES
  source,   \* shard -> the bytes in the source snapshot
  dst,      \* destination -> file -> contents, "link" or "absent"
  stage,    \* where the run is
  dir, mode,\* its destination and its mode
  todo      \* the files that are left of the stage

\* History: destination -> the mode of the last run, once it has finished.
VARIABLE finished

runVars == <<stage, dir, mode, todo>>
vars == <<source, dst, runVars, finished>>

Stages == {"none", "link", "shard", "index", "quant", "config"}

\* Type correctness; a JSON file is never a link.
TypeOK ==
  /\ source \in [Shards -> {"source", "fp8", "torn"}]
  /\ dst \in [Dirs -> [Files -> Contents \cup {"link", "absent"}]]
  /\ \A d \in Dirs, f \in Jsons : dst[d][f] \in AllModes \cup {"torn", "absent"}
  /\ stage \in Stages /\ dir \in Dirs /\ mode \in AllModes /\ todo \subseteq Files
  /\ finished \in [Dirs -> AllModes \cup {"none"}]

Init ==
  /\ source = [s \in Shards |-> "source"]
  /\ dst = [d \in Dirs |-> [f \in Files |-> "absent"]]
  /\ stage = "none" /\ dir \in Dirs /\ mode \in AllModes /\ todo = {}
  /\ finished = [d \in Dirs |-> "none"]

-----------------------------------------------------------------------------
(* The builder *)

\* targets: config-only converts nothing.
Rewritten(m) == IF m = "config-only" THEN {} ELSE Convert

\* Mutant: the shards to come are linked as well.
LinkedAll(m) == Shards
Linked(m) == Shards \ Rewritten(m)

Begin(d, m) ==
  /\ stage = "none" /\ m \in Modes[d]
  /\ stage' = "link" /\ dir' = d /\ mode' = m /\ todo' = Linked(m)
  /\ finished' = [finished EXCEPT ![d] = "none"]
  /\ UNCHANGED <<source, dst>>

\* A link is made where nothing is: link.exists() holds for a file and for a link.
Link(s) ==
  /\ stage = "link" /\ s \in todo
  /\ dst' = IF dst[dir][s] = "absent" THEN [dst EXCEPT ![dir][s] = "link"] ELSE dst
  /\ todo' = todo \ {s}
  /\ UNCHANGED <<source, stage, dir, mode, finished>>

\* Writing follows a link.
Write(f, c) ==
  IF f \in Shards /\ dst[dir][f] = "link"
  THEN source' = [source EXCEPT ![f] = c] /\ UNCHANGED dst
  ELSE dst' = [dst EXCEPT ![dir][f] = c] /\ UNCHANGED source

Reads(f) == IF dst[dir][f] = "link" THEN source[f] ELSE dst[dir][f]

\* convert_shard's save_file, or write_text: the file is truncated ...
Truncate(f) ==
  /\ stage \in {"shard", "index", "quant", "config"} /\ f \in todo
  /\ Reads(f) # "torn"
  /\ Write(f, "torn")
  /\ UNCHANGED <<runVars, finished>>

\* ... and written. What is in it was read before.
Fill(f) ==
  /\ stage \in {"shard", "index", "quant", "config"} /\ f \in todo /\ Reads(f) = "torn"
  /\ Write(f, IF f \in Shards THEN "fp8" ELSE mode)
  /\ todo' = todo \ {f}
  /\ UNCHANGED <<stage, dir, mode, finished>>

\* The loops of main, and the order of its writes: the shards, the index, the quantization
\* config and, last, config.json.
\* Mutant: a shard that an earlier run has left is kept.
MissingOnly == {s \in Rewritten(mode) : dst[dir][s] = "absent"}
ToConvert == Rewritten(mode)

After(st) ==
  CASE st = "link" -> "shard" [] st = "shard" -> "index" [] st = "index" -> "quant"
    [] st = "quant" -> "config"
FilesOf(st) ==
  CASE st = "shard" -> ToConvert [] st = "index" -> {Index} [] st = "quant" -> {Quant}
    [] st = "config" -> {Config}

Advance ==
  /\ stage \notin {"none", "config"} /\ todo = {}
  /\ stage' = After(stage) /\ todo' = FilesOf(After(stage))
  /\ UNCHANGED <<source, dst, dir, mode, finished>>

Return ==
  /\ stage = "config" /\ todo = {}
  /\ stage' = "none"
  /\ finished' = [finished EXCEPT ![dir] = mode]
  /\ UNCHANGED <<source, dst, dir, mode, todo>>

\* The run is killed, or ends with an exception.
Crash ==
  /\ stage # "none"
  /\ stage' = "none" /\ todo' = {}
  /\ UNCHANGED <<source, dst, dir, mode, finished>>

Next ==
  \/ \E d \in Dirs, m \in AllModes : Begin(d, m)
  \/ \E s \in Shards : Link(s)
  \/ \E f \in Files : Truncate(f) \/ Fill(f)
  \/ Advance \/ Return \/ Crash

Spec == Init /\ [][Next]_vars

-----------------------------------------------------------------------------
(* Properties *)

\* The source snapshot keeps its bytes, whatever runs are killed and repeated: a converted
\* shard is written over nothing or over a file of its own, never through a link
\* (main, build_fp8_hybrid_snapshot.py:131-141).
SourceUntouched == \A s \in Shards : source[s] = "source"

Resolved(d, s) == IF dst[d][s] = "link" THEN source[s] ELSE dst[d][s]

\* A run that has finished, after whatever runs were killed before it, leaves the bytes
\* that its index and its quantization config describe: FP8 in each shard that the config
\* calls converted, the source's in the others, and no file torn.
FinishedMatches ==
  \A d \in Dirs : finished[d] # "none" =>
    /\ \A f \in Jsons : dst[d][f] = finished[d]
    /\ \A s \in Shards :
         Resolved(d, s) = IF s \in Rewritten(finished[d]) THEN "fp8" ELSE "source"
=============================================================================
