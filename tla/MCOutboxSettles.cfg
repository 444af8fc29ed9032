SPECIFICATION FairSpec
CONSTANTS
  Job = {j1}
  NoJob = NoJob
  Worker = {w1, w2}
  MaxAttempts = 2
  Lease = 2
  Timeout = 1
  Window = 3
  BackoffCap = 1
  KeyLife = 5
  MaxFaults = 1
PROPERTIES
  Settles
