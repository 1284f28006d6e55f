SPECIFICATION FairSpec
CONSTANTS
  MaxQueue = 3
  Failures = TRUE
INVARIANTS
  GroupsExclusive
  FilledInTime
  OneHost
  WorkNotCancelled
PROPERTIES
  ReadyStays
  BecomesReady
CHECK_DEADLOCK FALSE
