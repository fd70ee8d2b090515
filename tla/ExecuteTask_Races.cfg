CONSTANTS
  Timeout = 3
  Inactivity = 1
  Descendants = TRUE
SPECIFICATION FairSpec
INVARIANTS
  EntryIsTrue
PROPERTIES
  KilledForCause KeepsPromise TaskEndsOnceReleased
CHECK_DEADLOCK FALSE
