\* One plain worker and the prefix worker, two samples, a question with two valid answers.
SPECIFICATION Spec
CONSTANTS
  Plain = {mix}
  Prefix = prefix
  None = None
  Valid = {v1, v2}
  Wrong = Wrong
  MaxSamples = 2
  MaxZombies = 1
\* The run ends.
CHECK_DEADLOCK FALSE
SYMMETRY Symmetric
INVARIANTS
  TypeOK
  ReferenceClean
  AlarmHasCause
  ZombieIsReal
  PauseMeasures
