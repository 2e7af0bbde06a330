SPECIFICATION FairSpec
CONSTANTS
  MaxJobs = 2
  MaxSignals = 1
  MaxFaults = 0
CHECK_DEADLOCK FALSE
PROPERTY ReloadKeepsService
