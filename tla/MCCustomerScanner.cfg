SPECIFICATION Spec
CONSTANTS
  low = low
  high = high
  why = why
  v1 = v1
  v2 = v2
  None = None
  Id = {x, y}
  Scan = {c1, c2}
  Rating = {low, high}
  Reason = {}
  Version = {v1, v2}
  Terms <- OneTerms
  Phone = {p}
  Clerk = s
  House = k
  Window = 0
  MaxPosts = 1
  MaxClock = 0
  MaxCodes = 1
INVARIANTS
  PageTypeOK
  CameraReleased
  TicketIsFieldValue
PROPERTIES
  CaptureOnlyWhileScanning
