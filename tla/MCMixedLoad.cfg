CONSTANTS
  N = 2
  K = 2
SPECIFICATION LiveSpec
INVARIANTS NoLeftover PassMeasured
PROPERTY RunEnds
