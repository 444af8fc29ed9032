SPECIFICATION Spec
CONSTANTS
  low = low
  high = high
  why = why
  v1 = v1
  v2 = v2
  None = None
  Id = {}
  Scan = {}
  Rating = {low, high}
  Reason = {why}
  Version = {v1, v2}
  Terms <- TwoTerms
  Phone = {p}
  Clerk = s
  House = k
  Window = 0
  MaxPosts = 2
  MaxClock = 1
  MaxCodes = 0
INVARIANTS
  ClientChecksSuffice
  ConsentForVersion
  RecordedAsTold
PROPERTIES
  PageComesBack
