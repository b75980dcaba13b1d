----------------------------- MODULE MCMemWatch -----------------------------
EXTENDS MemWatch

Reading(a, f, s) == [available |-> a, free |-> f, swap |-> s]

\* Healthy; free low but available plenty; both low; below the floor; swapping.
MCSamples == {Reading(9, 2, 1), Reading(9, 0, 1), Reading(6, 0, 1), Reading(2, 2, 1),
              Reading(9, 2, 3)}
=============================================================================
