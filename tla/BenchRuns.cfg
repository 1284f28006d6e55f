SPECIFICATION FairResultsSpec
CONSTANTS
  Warmups = 1
  Combos = 2
INVARIANTS
  RunsSerial
  LeakOnlyAfterFailure
  PassedIsCharted
PROPERTIES
  ChartsDrawn
CHECK_DEADLOCK FALSE
