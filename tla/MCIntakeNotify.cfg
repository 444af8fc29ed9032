SPECIFICATION Spec
CONSTANTS
  Staff = {s1}
  Printed = {s1}
  Cinema = {k1, k2}
  Manager = {m1, m2}
  NoManager = NoManager
  Phone = {p1}
  Ticket = {t1}
  NoTicket = NoTicket
  Terms = {v1, v2}
  Nothing = Nothing
  Customer = {c1, c2}
  Admin = {}
  Window = 1
  EmailEnabled = TRUE
  MaxClock = 0
  MaxFeedback = 2
  MaxAudit = 1
SYMMETRY Symmetry
PROPERTIES
  TellsManagerInForce
