----------------------------- MODULE MCPleTable -----------------------------
EXTENDS PleTable, TLC

\* Two checkpoints that differ in the first shard, and agree on the second.
MCContent ==
  [c \in Ckpt |-> [x \in Cells |-> IF x[1] = 1 THEN c ELSE "same"]]

\* MCContent says the same of either checkpoint.
Symmetric == Permutations(Ckpt)
=============================================================================
