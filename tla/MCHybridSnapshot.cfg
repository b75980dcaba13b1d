SPECIFICATION Spec
CONSTANTS
  Shards = {"s1", "s2", "s3"}
  Convert = {"s1", "s2"}
  Dirs = {"fp8", "plain"}
  Modes <- MCModes
INVARIANTS TypeOK SourceUntouched FinishedMatches
