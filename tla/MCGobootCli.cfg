CONSTANTS
  Procs = {p1, p2}
  Plugins = {"openapi", "validate"}
  Prefixed = {"openapi", "validate"}
  Marked = {"validate"}
  GoSource = {"validate"}
  Configs <- MCConfigs
  Versions = {1}
  Root = TRUE
  MaxEdits = 2
  MaxCommands = 3
  None = None
SYMMETRY Interchangeable
SPECIFICATION Spec
INVARIANTS SelfHeals CacheTruthful
PROPERTIES HandWrittenKept SuccessIsCurrent
CHECK_DEADLOCK FALSE
