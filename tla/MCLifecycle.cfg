SPECIFICATION FairSpec
CONSTANTS
  MaxJobs = 2
  MaxSignals = 3
  MaxFaults = 2
CHECK_DEADLOCK FALSE
INVARIANTS TypeOK CleanExit DeafOnlyIfEarly
PROPERTIES Settles ServesAgain
