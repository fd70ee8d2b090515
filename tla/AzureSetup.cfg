CONSTANTS
  Defaults = 1
  AddIns = 2
  Configs <- MCConfigs
  PollLimit = 2
  MaxSetups = 2
SPECIFICATION Spec
INVARIANTS
  NothingPretended DrawnIsKept RecordedUsersAreReal
PROPERTIES
  CorePassIsCore SetupEnds
CHECK_DEADLOCK FALSE
