------------------------------ MODULE QsaSplit ------------------------------
(***************************************************************************)
(* The two sm_121 kernels behind sparse decode attention, and the choice   *)
(* between them (patches/qsa_sm121_kda.py): the vendored KDA kernel        *)
(* (patches/kda_kernels/qwen38_qsa_sm121), which splits the KV rows of a   *)
(* sequence over up to MAX_SPLITS programs that meet at an atomic counter, *)
(* and the Triton fallback (patches/qsa_sm121_varlen.py), one program per  *)
(* output row. Programs of a launch run in any order and interleave.       *)
(*                                                                         *)
(* Simplifications: one query row per sequence (cu_seqlens_q is the        *)
(* identity), calls on one stream, and partial max, sum and accumulator    *)
(* stored together. Accumulating is a set of rows, as in QsaAttention.     *)
(***************************************************************************)
EXTENDS Integers, FiniteSets

CONSTANTS
  Shapes, Calls, None,    \* as in QsaAttention
  Topologies,            \* _SUPPORTED_HEAD_TOPOLOGIES
  MaxBatch, MaxKvHeads,  \* _MAX_BATCH, _MAX_KV_HEADS
  MaxSelected,           \* _MAX_SELECTED_KV
  SmallBlock, BigBlock,  \* BLOCK_KV: 32 and 64
  SmallBelow,            \* kv heads -> the batch from which BLOCK_KV is big: 12 and 4
  Rows256, Rows512, Rows1024, Rows1536,   \* the selected rows at which splitting pays
  Garbage                \* what torch.empty holds

MAX_SPLITS == 8

\* What the wrapper of the fallback raises on otherwise; its tests of devices, dtypes and
\* dimensions are left out.
Contract(c) ==
  /\ c.qHeads % c.kvHeads = 0
  /\ c.cu \in [0 .. c.batch -> Nat]

\* A call: cu is cu_seqlens_k, maxK the host's max_seqlen_k, and exact stands for the
\* dtype, device, layout and head dimension tests of the contract.
ASSUME ShapeAssumption ==
  \A c \in Shapes :
    /\ c.batch \in Nat \ {0} /\ c.qHeads \in Nat \ {0} /\ c.kvHeads \in Nat \ {0}
    /\ Contract(c)
    /\ \A s \in 0 .. c.batch - 1 : c.cu[s] <= c.cu[s + 1]
    /\ c.maxK \in Nat /\ c.exact \in BOOLEAN
ASSUME SizeAssumption ==
  /\ \A n \in {Calls, MaxBatch, MaxKvHeads, SmallBlock, BigBlock} : n \in Nat \ {0}
  /\ \A n \in {MaxSelected, Rows256, Rows512, Rows1024, Rows1536} : n \in Nat
  /\ \A c \in Shapes : <<c.qHeads, c.kvHeads>> \in Topologies => c.kvHeads <= MaxKvHeads
ASSUME NoneAssumption ==
  \A c \in Shapes : \A t \in 0 .. Calls - 1 : \A h \in 0 .. c.kvHeads - 1 : \A s \in 0 .. c.batch - 1 :
    None # [tag : {t}, head : {h}, row : c.cu[s] .. c.cu[s + 1] - 1]

VARIABLES
  call, tag, out,  \* the call that runs, its number and its output rows
  pc,              \* where each program of the launch is
  partial,         \* _scratch: slot -> split -> rows accumulated
  counter          \* _scratch: slot -> programs that have arrived

vars == <<call, tag, out, pc, partial, counter>>

\* The kernels' promise: they write the rows of the output that the caller sees.
A == INSTANCE QsaAttention
       WITH Shapes <- Shapes, Calls <- Calls, None <- None,
            call <- call, tag <- tag, out <- out

Slots == 0 .. MaxBatch * MaxKvHeads - 1
Splits == 0 .. MAX_SPLITS - 1

-----------------------------------------------------------------------------
(* The choice of the kernel, and its geometry *)

CanUse(c) ==
  /\ c.exact
  /\ c.batch <= MaxBatch
  /\ <<c.qHeads, c.kvHeads>> \in Topologies
  /\ 0 < c.maxK /\ c.maxK <= MaxSelected

\* KDA: one program per kv head and split. Fallback: one per query head.
Programs(c) ==
  [seq : 0 .. c.batch - 1,
   head : 0 .. (IF CanUse(c) THEN c.kvHeads ELSE c.qHeads) - 1,
   split : IF CanUse(c) THEN Splits ELSE {0}]

SlotAt(c, s, h) == s * c.kvHeads + h
Slot(p) == SlotAt(call, p.seq, p.head)

Block(c) ==
  IF c.kvHeads \in DOMAIN SmallBelow /\ c.batch < SmallBelow[c.kvHeads]
  THEN SmallBlock ELSE BigBlock

\* tl.cdiv(kv_count, BLOCK_KV)
Tiles(c, s) == (c.cu[s + 1] - c.cu[s] + Block(c) - 1) \div Block(c)

Enough(c, s, rows) == Tiles(c, s) >= rows \div Block(c)

NSplits(c, s) ==
  IF c.batch = 1
  THEN IF Enough(c, s, Rows1024) THEN 8
       ELSE IF Enough(c, s, Rows512) THEN 4
       ELSE IF Enough(c, s, Rows256) THEN 2
       ELSE IF Enough(c, s, Rows1536) THEN 2 ELSE 1
  ELSE IF Enough(c, s, Rows1536) THEN 2
       ELSE IF Enough(c, s, Rows512) /\ c.batch * c.kvHeads <= 4 THEN 4 ELSE 1

TileLo(c, s, i) == (Tiles(c, s) * i) \div NSplits(c, s)

Least(a, b) == IF a <= b THEN a ELSE b
KvStart(c, s, i) == c.cu[s] + TileLo(c, s, i) * Block(c)
KvStop(c, s, i) == Least(c.cu[s] + TileLo(c, s, i + 1) * Block(c), c.cu[s + 1])

\* The rows one program visits: whole blocks, then the masked tail.
Visited(c, s, i) ==
  LET start == KvStart(c, s, i)
      stop == KvStop(c, s, i)
      fullEnd == start + ((stop - start) \div Block(c)) * Block(c)
  IN  (start .. fullEnd - 1) \cup {n \in fullEnd .. fullEnd + Block(c) - 1 : n < stop}

-----------------------------------------------------------------------------
Launch(c) ==
  [p \in Programs(c) |-> IF CanUse(c) /\ p.split >= NSplits(c, p.seq) THEN "done" ELSE "scan"]

Init ==
  /\ call \in Shapes
  /\ tag = 0
  /\ out = [o \in A!Outputs |-> None]
  /\ pc = Launch(call)
  /\ partial = [k \in Slots |-> [i \in Splits |-> {Garbage}]]
  /\ counter = [k \in Slots |-> 0]

Goto(p, label) == pc' = [pc EXCEPT ![p] = label]

\* The rows of the output a KDA program stores: the query heads of its kv head.
Group(s, h) == {o \in A!Outputs : o.seq = s /\ o.head \div A!QueriesPerKv = h}

Write(S, rows) == out' = [o \in A!Outputs |-> IF o \in S THEN rows ELSE out[o]]

Accumulated(p) ==
  [tag : {tag}, head : {p.head}, row : Visited(call, p.seq, p.split)]

\* One program per output row of the fallback: the loop masks rows past kv_end.
Varlen(p) ==
  /\ pc[p] = "scan" /\ ~CanUse(call)
  /\ Write({[seq |-> p.seq, head |-> p.head]},
           [tag : {tag}, head : {p.head \div A!QueriesPerKv},
            row : call.cu[p.seq] .. call.cu[p.seq + 1] - 1])
  /\ Goto(p, "done")
  /\ UNCHANGED <<call, tag, partial, counter>>

\* n_splits is 1: normalise and store.
Alone(p) ==
  /\ pc[p] = "scan" /\ CanUse(call) /\ NSplits(call, p.seq) = 1
  /\ Write(Group(p.seq, p.head), Accumulated(p))
  /\ Goto(p, "done")
  /\ UNCHANGED <<call, tag, partial, counter>>

\* Store the partial, and only then arrive (debug_barrier, acq_rel).
Scan(p) ==
  /\ pc[p] = "scan" /\ CanUse(call) /\ NSplits(call, p.seq) # 1
  /\ partial' = [partial EXCEPT ![Slot(p)] = [@ EXCEPT ![p.split] = Accumulated(p)]]
  /\ Goto(p, "arrive")
  /\ UNCHANGED <<call, tag, out, counter>>

LastArrival(p) == counter[Slot(p)] = NSplits(call, p.seq) - 1

Arrive(p) ==
  /\ pc[p] = "arrive"
  /\ counter' = [counter EXCEPT ![Slot(p)] = @ + 1]
  /\ Goto(p, IF LastArrival(p) THEN "merge" ELSE "done")
  /\ UNCHANGED <<call, tag, out, partial>>

\* Mutant: the merge reads all the splits the scratch has.
MergedUnmasked(p) == Splits

\* j_ok masks the splits that this launch does not use.
MergedSplits(p) == 0 .. NSplits(call, p.seq) - 1

\* The weighted sum of the partials; a row that is in two of them counts twice.
Merged(p) ==
  LET part == partial[Slot(p)] IN
  IF \A i, j \in MergedSplits(p) : i # j => part[i] \cap part[j] = {}
  THEN UNION {part[i] : i \in MergedSplits(p)} ELSE {Garbage}

Merge(p) ==
  /\ pc[p] = "merge"
  /\ Write(Group(p.seq, p.head), Merged(p))
  /\ Goto(p, "reset")
  /\ UNCHANGED <<call, tag, partial, counter>>

\* Mutant: no reset.
ResetForgotten(k) == counter[k]

ResetTo(k) == 0

Reset(p) ==
  /\ pc[p] = "reset"
  /\ counter' = [counter EXCEPT ![Slot(p)] = ResetTo(Slot(p))]
  /\ Goto(p, "done")
  /\ UNCHANGED <<call, tag, out, partial>>

\* The next call of the stream: the scratch buffers stay as they are.
Call ==
  /\ \A p \in DOMAIN pc : pc[p] = "done"
  /\ tag + 1 < Calls /\ tag' = tag + 1
  /\ call' \in Shapes
  /\ out' = [o \in A!Outputs' |-> None]
  /\ pc' = Launch(call')
  /\ UNCHANGED <<partial, counter>>

Next ==
  \/ Call
  \/ \E p \in DOMAIN pc :
       Varlen(p) \/ Alone(p) \/ Scan(p) \/ Arrive(p) \/ Merge(p) \/ Reset(p)

Spec == Init /\ [][Next]_vars

-----------------------------------------------------------------------------
(* Properties *)

\* Type correctness of a launch and of the scratch buffers, which outlive it.
TypeOK ==
  /\ call \in Shapes /\ tag \in 0 .. Calls - 1
  /\ DOMAIN out = A!Outputs
  /\ pc \in [Programs(call) -> {"scan", "arrive", "merge", "reset", "done"}]
  /\ DOMAIN partial = Slots /\ \A k \in Slots : DOMAIN partial[k] = Splits
  /\ counter \in [Slots -> 0 .. MAX_SPLITS]

\* The scratch is allocated once per device and shared by every call, whatever its shape:
\* a call that ends leaves every arrival counter as the next one needs it (kernel.py:195).
CountersRestored == (\A p \in DOMAIN pc : pc[p] = "done") => \A k \in Slots : counter[k] = 0

\* Whatever the order in which the programs of a launch run, each output row is written
\* once, from every selected row of its own sequence and kv head, each counted once, and
\* from nothing an earlier call left in the scratch.
Attention == A!Spec
=============================================================================
