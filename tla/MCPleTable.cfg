\* Two checkpoints, one window per shard that nothing samples.
SPECIFICATION Spec
CONSTANTS
  Ckpt = {a, b}
  Shards = {1, 2}
  Windows = {"head", "hidden", "tail"}
  ReuseSample = {"head", "tail"}
  IdentitySample = {"head", "tail"}
  Bytes = {a, b, "same", Hole}
  Content <- MCContent
  Hole = Hole
  None = None
  Torn = Torn
  MaxBoots = 3
  MaxFaults = 1
\* Boots are bounded.
CHECK_DEADLOCK FALSE
SYMMETRY Symmetric
INVARIANTS
  TypeOK
  ServedAsChecked
  UndisturbedRight
  ExperimentBound
  IdentityIsMapped
