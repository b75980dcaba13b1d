\* One invocation with two suites: liveness.
SPECIFICATION FairSpec
CONSTANTS
  Exp = {e1}
  NoOne = NoOne
  NumTasks = 2
  MaxInterrupts = 1
  MaxKills = 1
CHECK_DEADLOCK FALSE
PROPERTIES
  GuardStops
  EveryRunEnds
