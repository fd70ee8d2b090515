CONSTANTS
  Timeout = 3
  Inactivity = 1
  Descendants = TRUE
SPECIFICATION FairSpec
PROPERTIES
  TaskEnds
CHECK_DEADLOCK FALSE
