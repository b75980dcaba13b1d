\* Two invocations over one container, one SIGTERM and one SIGKILL.
SPECIFICATION Spec
CONSTANTS
  Exp = {e1, e2}
  NoOne = NoOne
  NumTasks = 1
  MaxInterrupts = 1
  MaxKills = 1
SYMMETRY Symmetric
VIEW Seen
\* Both invocations may have ended.
CHECK_DEADLOCK FALSE
INVARIANTS
  VerdictEarned
  PassLeavesNothing
  DismissedAfterStop
  OwnServerMeasured
  GpuExclusive
  LoneBenchmark
PROPERTIES
  TripFileFinal
