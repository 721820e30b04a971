SPECIFICATION Spec
CONSTANTS
  HasBin = TRUE
  HasLib = TRUE
  Installers = {p}
  Versions = {1, 2}
  Installed = {1}
  Overlap = FALSE
  Rollback = TRUE
  Mishaps = {"signal"}
  MaxMishaps = 1
  MaxRuns = 2
PROPERTY SkipIsHonest
CHECK_DEADLOCK FALSE
