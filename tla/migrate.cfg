CONSTANTS
  Runner = {p1, p2}
  Build <- MCBuild
  Needs <- MCNeeds
  MaxRuns = 4

SPECIFICATION MigrateSpec
SYMMETRY Processes
CHECK_DEADLOCK FALSE
INVARIANTS
  AppliedIsPrefix
  StartersDoNotRace
