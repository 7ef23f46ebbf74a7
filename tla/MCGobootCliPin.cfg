CONSTANTS
  Procs = {p1}
  Plugins = {"metrics"}
  Prefixed = {"metrics"}
  Marked = {"metrics"}
  GoSource = {"metrics"}
  Configs <- PinConfigs
  Versions = {1, 2}
  Root = TRUE
  MaxEdits = 1
  MaxCommands = 2
  None = None
SPECIFICATION Spec
INVARIANTS PinnedVersionLinked
CHECK_DEADLOCK FALSE
