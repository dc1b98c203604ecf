\* Two jobs on pages of one, with failing calls, workers and a wiped queue.
SPECIFICATION FairSpec
CONSTANTS
  NJobs = 2
  NSlots = 2
  None = None
  LastVersion <- MCLastVersion
  MaxAttempts = 2
  Keep = 1
  ScanCap = 1
  Limit = 1
  MaxFaults = 2
INVARIANTS
  TypeOK
PROPERTIES
  SweepComplete
  CommitReachesConsumer
