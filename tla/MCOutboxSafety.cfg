SPECIFICATION Spec
CONSTANTS
  Job = {j1}
  NoJob = NoJob
  Worker = {w1, w2}
  MaxAttempts = 2
  Lease = 2
  Timeout = 1
  Window = 4
  BackoffCap = 1
  KeyLife = 6
  MaxFaults = 2
SYMMETRY Symmetry
INVARIANTS
  TypeOK
  OneMail
  RequestsBounded
  NewestAttemptDecides
PROPERTIES
  RecentlyEligible
  KeepsPromise
