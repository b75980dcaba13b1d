------------------------------ MODULE PleTable ------------------------------
(***************************************************************************)
(* The 48 GiB PLE n-gram table: a file-backed mmap that survives server    *)
(* restarts.  patches/ple_mmap.py and ple_file_compat.py choose and create *)
(* the file, patches/ple_reuse.py decides per shard, from sampled byte     *)
(* windows, whether the boot has to copy it again, and scripts/inventory.py*)
(* samples the file and binds it and its directory to one checkpoint       *)
(* before an experiment boots.  serve.sh by itself binds nothing.          *)
(*                                                                         *)
(* A shard is a set of byte windows; Content says what a checkpoint has    *)
(* there.  Written pages reach the disk in any order.                      *)
(***************************************************************************)
EXTENDS Naturals

CONSTANTS
  Ckpt,            \* checkpoints: (model, revision, index, config) with one table size
  Shards, Windows, \* PLE shards, and the windows of a shard
  ReuseSample,     \* the windows _ple_shard_matches compares
  IdentitySample,  \* the windows ple_identity compares
  Bytes,           \* what a window can hold
  Content,         \* what each checkpoint has in each window of each shard
  Hole,            \* the bytes of a sparse page
  None, Torn,      \* no registry record; one that was never completed
  MaxBoots,        \* bound: boots
  MaxFaults        \* bound: host crashes, and kills inside a shard's copy

Cells == Shards \X Windows

\* The recipe's file name, the engine's own, and any further *.bin in the directory.
Names == {"compat", "native", "other"}

ASSUME SampleAssumption == ReuseSample \subseteq Windows /\ IdentitySample \subseteq Windows
ASSUME ContentAssumption == Content \in [Ckpt -> [Cells -> Bytes]] /\ Hole \in Bytes
ASSUME NoneAssumption == None \notin Ckpt /\ Torn \notin Ckpt /\ None # Torn
ASSUME BoundAssumption == MaxBoots \in Nat /\ MaxFaults \in Nat

VARIABLES
  size,       \* of each file: "absent", "wrong" or "right"
  page,       \* its bytes as processes see them
  disk,       \* its bytes after a host crash
  registry,   \* results/ple-identities: whom a path or the directory is bound to
  pc,         \* the boot under way
  ck,         \* its checkpoint
  bound,      \* it is an experiment (not serve.sh alone)
  first,      \* PLE_FIRST_BUILD=1
  reuse,      \* SGLANG_QWEN4_PLE_REUSE is not 0 where serve.sh is called
  backing,    \* the file ple_identity settled on
  present,    \* ple_identity's state is `present'
  path,       \* the file the server has mapped
  todo,       \* shards the loader has not reached
  left,       \* cells of the current dst.copy_ still to be written
  boots, faults

fileVars == <<size, page, disk>>
jobVars  == <<ck, bound, first, reuse, backing, present>>
loadVars == <<path, todo, left>>
boundVars == <<boots, faults>>
vars == <<pc, registry, fileVars, jobVars, loadVars, boundVars>>

TypeOK ==
  /\ size \in [Names -> {"absent", "wrong", "right"}]
  /\ page \in [Names -> [Cells -> Bytes]]
  /\ disk \in [Names -> [Cells -> Bytes]]
  /\ registry \in [Names \cup {"dir"} -> Ckpt \cup {None, Torn}]
  /\ pc \in {"down", "bindPath", "bindDir", "launch", "load", "serving"}
  /\ ck \in Ckpt /\ bound \in BOOLEAN /\ first \in BOOLEAN /\ reuse \in BOOLEAN
  /\ backing \in Names /\ present \in BOOLEAN /\ path \in Names
  /\ todo \subseteq Shards /\ left \subseteq Cells
  /\ boots \in 0..MaxBoots /\ faults \in 0..MaxFaults
  /\ pc \in {"load", "serving"} => size[path] = "right"

Blank == [x \in Cells |-> Hole]
NoRecord == [k \in Names \cup {"dir"} |-> None]

-----------------------------------------------------------------------------
(* Helpers *)

\* The file and checkpoint c agree on the windows W of shard s.
Agree(n, c, s, W) == \A w \in W : page[n][<<s, w>>] = Content[c][<<s, w>>]

\* Mutant: the engine's own file is preferred.
MappedNative == IF size["native"] = "right" THEN "native" ELSE "compat"

\* ple_file_compat: the recipe's file if it has the right size, else the engine's.
Mapped == IF size["compat"] = "right" THEN "compat" ELSE "native"

RightSized == {n \in Names : size[n] = "right"}

\* The files ple_identity may settle on: the recipe's, else the one *.bin of the right
\* size, whatever its name, else the recipe's although it is not there.  With several
\* there is none, and it raises.
Backing ==
  IF "compat" \in RightSized \/ RightSized = {} THEN {"compat"}
  ELSE {n \in RightSized : RightSized = {n}}

\* docker run's -e list does not name SGLANG_QWEN4_PLE_REUSE: the server always
\* has the default.
ServerReuse == TRUE

\* Mutant: a table of the right size is taken to be right.
MatchesBySize(s) == ServerReuse

\* _ple_shard_matches
Matches(s) == ServerReuse /\ Agree(path, ck, s, ReuseSample)

-----------------------------------------------------------------------------
\* Under each name a table of some checkpoint, a file of another size, or nothing.
\* A further *.bin of another size is as good as none.
Init ==
  /\ size \in [Names -> {"absent", "wrong", "right"}]
  /\ size["other"] # "wrong"
  /\ \E c \in [Names -> Ckpt] :
       page = [n \in Names |-> IF size[n] = "right" THEN Content[c[n]] ELSE Blank]
  /\ disk = page
  /\ registry = NoRecord
  /\ pc = "down"
  /\ ck \in Ckpt /\ bound = FALSE /\ first = FALSE /\ reuse = TRUE
  /\ backing = "compat" /\ present = FALSE /\ path = "compat"
  /\ todo = {} /\ left = {}
  /\ boots = 0 /\ faults = 0

\* serve.sh by hand, or an experiment that enters ple_identity.  A table whose
\* samples differ, or a missing one without PLE_FIRST_BUILD, is refused.
ManualBoot(c, r) ==
  /\ pc = "down" /\ boots < MaxBoots
  /\ pc' = "launch"
  /\ ck' = c /\ bound' = FALSE /\ first' = FALSE /\ reuse' = r
  /\ boots' = boots + 1
  /\ UNCHANGED <<registry, fileVars, backing, present, loadVars, faults>>

Identify(c, f) ==
  /\ pc = "down" /\ boots < MaxBoots
  /\ backing' \in Backing
  /\ IF size[backing'] = "right" THEN \A s \in Shards : Agree(backing', c, s, IdentitySample)
     ELSE f
  /\ pc' = "bindPath"
  /\ ck' = c /\ bound' = TRUE /\ first' = f /\ reuse' = TRUE
  /\ present' = (size[backing'] = "right")
  /\ boots' = boots + 1
  /\ UNCHANGED <<registry, fileVars, loadVars, faults>>

\* Mutant: an existing record is not compared.
BindBlindly(from, to, k) ==
  /\ pc = from
  /\ registry' = IF registry[k] = None THEN [registry EXCEPT ![k] = ck] ELSE registry
  /\ pc' = to
  /\ UNCHANGED <<fileVars, jobVars, loadVars, boundVars>>

\* bind_identity, for one of its two keys: create the record or compare with it.
Bind(from, to, k) ==
  /\ pc = from
  /\ \/ registry[k] = None /\ registry' = [registry EXCEPT ![k] = ck] /\ pc' = to
     \/ registry[k] = ck /\ pc' = to /\ UNCHANGED registry
     \/ registry[k] \notin {None, ck} /\ pc' = "down" /\ UNCHANGED registry
  /\ UNCHANGED <<fileVars, jobVars, loadVars, boundVars>>

BindPath == Bind("bindPath", "bindDir", backing)

\* After the directory, PLE_FIRST_BUILD refuses a table that already exists.
BindDir == Bind("bindDir", IF first /\ present THEN "down" ELSE "launch", "dir")

\* The controller is killed between open('x') and the end of json.dump.
TearRecord ==
  /\ faults < MaxFaults
  /\ \E k \in {backing, "dir"} :
       /\ pc = IF k = "dir" THEN "bindDir" ELSE "bindPath"
       /\ registry[k] = None
       /\ registry' = [registry EXCEPT ![k] = Torn]
  /\ pc' = "down"
  /\ faults' = faults + 1
  /\ UNCHANGED <<fileVars, jobVars, loadVars, boots>>

-----------------------------------------------------------------------------
(* The server's boot *)

\* Mutant: a file that exists is mapped whatever its size.
AllocAnySize ==
  /\ pc = "launch"
  /\ pc' = "load"
  /\ path' = Mapped
  /\ IF size[Mapped] # "absent" THEN UNCHANGED fileVars
     ELSE /\ size' = [size EXCEPT ![Mapped] = "right"]
          /\ page' = [page EXCEPT ![Mapped] = Blank]
          /\ disk' = [disk EXCEPT ![Mapped] = Blank]
  /\ todo' = Shards /\ left' = {}
  /\ UNCHANGED <<registry, jobVars, boundVars>>

\* allocate_ple_host_table: map the file; a missing or wrong-sized one is created
\* sparse.
Alloc ==
  /\ pc = "launch"
  /\ pc' = "load"
  /\ path' = Mapped
  /\ IF size[Mapped] = "right" THEN UNCHANGED fileVars
     ELSE /\ size' = [size EXCEPT ![Mapped] = "right"]
          /\ page' = [page EXCEPT ![Mapped] = Blank]
          /\ disk' = [disk EXCEPT ![Mapped] = Blank]
  /\ todo' = Shards /\ left' = {}
  /\ UNCHANGED <<registry, jobVars, boundVars>>

\* The loader reaches shard s, in the order of the checkpoint files.
CheckShard(s) ==
  /\ pc = "load" /\ left = {} /\ s \in todo
  /\ todo' = todo \ {s}
  /\ left' = IF Matches(s) THEN {} ELSE {s} \X Windows
  /\ UNCHANGED <<pc, path, registry, fileVars, jobVars, boundVars>>

\* dst.copy_(src) runs on several threads: pages are written in any order.
CopyWindow(x) ==
  /\ pc = "load" /\ x \in left
  /\ page' = [page EXCEPT ![path][x] = Content[ck][x]]
  /\ left' = left \ {x}
  /\ UNCHANGED <<pc, path, todo, size, disk, registry, jobVars, boundVars>>

\* Mutant: the copies are not waited for.
LoadedEarly ==
  /\ pc = "load" /\ todo = {}
  /\ pc' = "serving"
  /\ UNCHANGED <<registry, fileVars, jobVars, loadVars, boundVars>>

Loaded ==
  /\ pc = "load" /\ todo = {} /\ left = {}
  /\ pc' = "serving"
  /\ UNCHANGED <<registry, fileVars, jobVars, loadVars, boundVars>>

\* docker stop, the watchdog, an exception: the page cache keeps what was written.
Stop ==
  /\ pc \in {"launch", "load", "serving"}
  /\ left # {} => faults < MaxFaults
  /\ pc' = "down"
  /\ faults' = IF left = {} THEN faults ELSE faults + 1
  /\ todo' = {} /\ left' = {}
  /\ UNCHANGED <<registry, fileVars, jobVars, path, boots>>

-----------------------------------------------------------------------------
(* The host *)

Writeback(n, x) ==
  /\ disk[n][x] # page[n][x]
  /\ disk' = [disk EXCEPT ![n][x] = page[n][x]]
  /\ UNCHANGED <<pc, size, page, registry, jobVars, loadVars, boundVars>>

\* The hang or power cycle the watchdog is there to avoid.
HostCrash ==
  /\ faults < MaxFaults
  /\ faults' = faults + 1
  /\ page' = disk
  /\ pc' = "down"
  /\ todo' = {} /\ left' = {}
  /\ UNCHANGED <<size, disk, registry, jobVars, path, boots>>

Next ==
  \/ \E c \in Ckpt, b \in BOOLEAN : ManualBoot(c, b) \/ Identify(c, b)
  \/ BindPath \/ BindDir \/ TearRecord
  \/ Alloc \/ (\E s \in Shards : CheckShard(s)) \/ (\E x \in Cells : CopyWindow(x))
  \/ Loaded \/ Stop
  \/ \E n \in Names, x \in Cells : Writeback(n, x)
  \/ HostCrash

Spec == Init /\ [][Next]_vars

-----------------------------------------------------------------------------
(* What must be true of every state *)

\* Every shard the server answers from is, whatever happened to the file before
\* and however the boots were interleaved with kills, right in every sampled window.
ServedAsChecked ==
  pc = "serving" => \A s \in Shards : Agree(path, ck, s, ReuseSample)

\* Two checkpoints that agree on a shard's samples agree on the shard, and no shard
\* looks like a hole.
Distinguishable ==
  \A c \in Ckpt, s \in Shards :
    /\ \E w \in ReuseSample : Content[c][<<s, w>>] # Hole
    /\ \A d \in Ckpt :
         (\A w \in ReuseSample : Content[c][<<s, w>>] = Content[d][<<s, w>>])
         => \A w \in Windows : Content[c][<<s, w>>] = Content[d][<<s, w>>]

\* What sampling does guarantee: if the samples tell the checkpoints apart, and no
\* copy was ever cut short by a kill or a host crash, the table served is right,
\* however many checkpoints and stopped boots have used the directory.
UndisturbedRight ==
  Distinguishable /\ faults = 0 /\ pc = "serving" => page[path] = Content[ck]

\* Experiments on one directory all use the checkpoint it is bound to.
ExperimentBound ==
  bound /\ pc \in {"launch", "load", "serving"} => registry["dir"] = ck

\* What an experiment serves is the file whose samples ple_identity compared.  One of a
\* name that the engine does not know (inventory.py:70, ple_file_compat.py:23-34) is not
\* mapped; then this very boot has built the table, and it is right if no shard looks
\* like a hole.
IdentityIsMapped ==
  bound /\ present /\ pc = "serving" =>
    \/ path = backing
    \/ backing = "other" /\ (Distinguishable => page[path] = Content[ck])
=============================================================================
