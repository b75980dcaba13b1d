\* The calls are bounded.
SPECIFICATION Spec
CONSTANTS
  Shapes <- MCShapes
  Calls = 2
  None = None
  Topologies <- MCTopologies
  MaxBatch = 2
  MaxKvHeads = 2
  MaxSelected = 64
  SmallBlock = 2
  BigBlock = 4
  SmallBelow <- MCSmallBelow
  Rows256 = 8
  Rows512 = 16
  Rows1024 = 32
  Rows1536 = 48
  Garbage = Garbage
CHECK_DEADLOCK FALSE
INVARIANT CountersRestored
PROPERTY Attention
