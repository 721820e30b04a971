SPECIFICATION Spec
CONSTANTS
  HasBin = TRUE
  HasLib = TRUE
  Installers = {p, q}
  Versions = {2}
  Installed = {0, 1}
  Overlap = TRUE
  Rollback = FALSE
  Mishaps = {"kill", "signal", "remove"}
  MaxMishaps = 2
  MaxRuns = 3
PROPERTIES SkipIsHonest InstallIsWhole
CHECK_DEADLOCK FALSE
