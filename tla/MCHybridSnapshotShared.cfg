SPECIFICATION Spec
CONSTANTS
  Shards = {"s1", "s2", "s3"}
  Convert = {"s1", "s2"}
  Dirs = {"both"}
  Modes <- MCModes
INVARIANT SourceUntouched
