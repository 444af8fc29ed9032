SPECIFICATION Spec
CONSTANTS
  Staff = {s1, s2}
  Printed = {s1, s2}
  Cinema = {k1}
  Manager = {}
  NoManager = NoManager
  Phone = {p1, p2}
  Ticket = {t1}
  NoTicket = NoTicket
  Terms = {v1}
  Nothing = Nothing
  Customer = {c1, c2}
  Admin = {}
  Window = 1
  EmailEnabled = TRUE
  MaxClock = 2
  MaxFeedback = 2
  MaxAudit = 0
SYMMETRY Symmetry
INVARIANTS
  TypeOK
  FlaggedExactly
  SnapshotsHold
PROPERTIES
  ImplementsLedger
