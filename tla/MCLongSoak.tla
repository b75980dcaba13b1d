----------------------------- MODULE MCLongSoak -----------------------------
EXTENDS LongSoak, TLC

\* One valid answer is as good as another.
Symmetric == Permutations(Valid)
=============================================================================
