\* A journalctl call fails while its window holds an Xid.
SPECIFICATION Spec
CONSTANTS
  Samples <- MCSamples
  Available = 5
  FreeFloor = 1
  FreeGate = 8
  SwapGrowth = 1
  Sustain = 3
  Interval = 1
  QueryMax = 1
  MaxLag = 0
  None = None
  MaxTime = 9
  MaxMessages = 2
  MaxChanges = 1
\* The watchdog ends, and the clock stops with it.
CHECK_DEADLOCK FALSE
INVARIANT XidAnswered
