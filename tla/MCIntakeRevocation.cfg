SPECIFICATION Spec
CONSTANTS
  Staff = {s1}
  Printed = {}
  Cinema = {k1}
  Manager = {}
  NoManager = NoManager
  Phone = {p1}
  Ticket = {t1}
  NoTicket = NoTicket
  Terms = {v1}
  Nothing = Nothing
  Customer = {c1}
  Admin = {a1, a2}
  Window = 1
  EmailEnabled = TRUE
  MaxClock = 0
  MaxFeedback = 1
  MaxAudit = 3
SYMMETRY Symmetry
INVARIANTS
  AuditReplays
PROPERTIES
  LiveTokenOnly
