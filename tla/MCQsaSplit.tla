----------------------------- MODULE MCQsaSplit -----------------------------
EXTENDS QsaSplit, TLC

\* cu_seqlens_k of up to three sequences.
Ends(a, b, c) == 0 :> 0 @@ 1 :> a @@ 2 :> b @@ 3 :> c

Made(batch, q, kv, cu, maxK) ==
  [batch |-> batch, qHeads |-> q, kvHeads |-> kv, cu |-> [s \in 0 .. batch |-> cu[s]],
   maxK |-> maxK, exact |-> TRUE]

\* 8 splits of uneven tiles; 2 splits; 4 splits of each of two heads; one sequence of 4 and
\* one of 2 splits, in big blocks; a sequence that is not split beside an empty one; and
\* two calls for the fallback: a batch and a host maximum outside the contract.
MCShapes == {
  Made(1, 2, 1, Ends(33, 33, 33), 40),
  Made(1, 2, 1, Ends(9, 9, 9), 40),
  Made(1, 4, 2, Ends(17, 17, 17), 40),
  Made(2, 2, 1, Ends(17, 66, 66), 64),
  Made(2, 4, 2, Ends(5, 5, 5), 8),
  Made(3, 2, 1, Ends(3, 3, 8), 8),
  Made(1, 4, 2, Ends(9, 9, 9), 0)}

\* A 32nd of the real sizes, with blocks of half that scale.
MCTopologies == {<<2, 1>>, <<4, 2>>}
MCSmallBelow == 1 :> 2 @@ 2 :> 2
=============================================================================
