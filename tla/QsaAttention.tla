---------------------------- MODULE QsaAttention ----------------------------
(***************************************************************************)
(* What a sparse decode attention call promises: each output row, one per  *)
(* sequence and query head, is written once per call, from every selected  *)
(* KV row of that sequence and head, each counted once, and from no other. *)
(* A call begins when the one before it has written all of its rows.       *)
(*                                                                         *)
(* A softmax-weighted sum is represented by the set of KV rows it has      *)
(* accumulated; a row carries the call it belongs to, so a sum over what   *)
(* an earlier call left behind is a different one.                         *)
(***************************************************************************)
EXTENDS Integers

CONSTANTS
  Shapes,   \* the calls that are made: q, k and cu_seqlens as records
  Calls,    \* how many calls are made, at most
  None      \* an output row that is not written yet

VARIABLES call, tag, out

\* The rows of the output: sequence and query head.
Outputs == [seq : 0 .. call.batch - 1, head : 0 .. call.qHeads - 1]

QueriesPerKv == call.qHeads \div call.kvHeads

\* Packed KV rows lo .. hi - 1 of one kv head.
Span(head, lo, hi) == [tag : {tag}, head : {head}, row : lo .. hi - 1]

Attended(o) == Span(o.head \div QueriesPerKv, call.cu[o.seq], call.cu[o.seq + 1])

Init ==
  /\ call \in Shapes
  /\ tag = 0
  /\ out = [o \in Outputs |-> None]

Attend(S) ==
  /\ S # {} /\ \A o \in S : out[o] = None
  /\ out' = [o \in Outputs |-> IF o \in S THEN Attended(o) ELSE out[o]]
  /\ UNCHANGED <<call, tag>>

Call ==
  /\ \A o \in Outputs : out[o] # None
  /\ tag + 1 < Calls /\ tag' = tag + 1
  /\ call' \in Shapes
  /\ out' = [o \in Outputs' |-> None]

Next == Call \/ \E S \in SUBSET Outputs : Attend(S)

Spec == Init /\ [][Next]_<<call, tag, out>>
=============================================================================
