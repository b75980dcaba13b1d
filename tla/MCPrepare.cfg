SPECIFICATION Spec
CONSTANTS
  Images <- MCImages
  MaxRuns = 3
INVARIANTS TypeOK Converges ImageDecides GdnRolls
\* The script may have been run as often as the bound allows.
CHECK_DEADLOCK FALSE
