SPECIFICATION Spec
CONSTANTS
  HasBin = TRUE
  HasLib = TRUE
  Installers = {p}
  Versions = {1, 2, 3}
  Installed = {0, 1}
  Overlap = FALSE
  Rollback = FALSE
  Mishaps = {"step", "signal", "kill", "remove"}
  MaxMishaps = 3
  MaxRuns = 4
PROPERTIES SkipIsHonest FailedUpdateIsUndone
CHECK_DEADLOCK FALSE
