---------------------------- MODULE MCExperiment ----------------------------
EXTENDS Experiment, TLC
Symmetric == Permutations(Exp)

\* Of an invocation that has ended no action and no property reads the locals exc, owned, row
\* and status, nor, unless it passed, what its suites came to.
Seen ==
  LET Read(f) == [e \in Exp |-> IF pc[e] = "exited" THEN {} ELSE {f[e]}]
      Kept(f) == [e \in Exp |-> IF pc[e] = "exited" /\ report[e] # "pass" THEN {} ELSE {f[e]}]
  IN  <<lock, mode, child, exit, pc, Read(exc), Read(owned), Read(row), Read(status),
        Kept(allPass), Kept(suiteFile), stopRc, report, dockerVars, watchVars, faultVars>>
=============================================================================
