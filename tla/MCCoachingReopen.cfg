SPECIFICATION Spec
CONSTANTS
  Case = {x1}
  NoCase = NoCase
  Staff = {s1, s2}
  Cinema = {k1, k2}
  Editor = {e1, e2}
  None = None
  Never = Never
  MaxClock = 1
  MaxAudit = 3
SYMMETRY Symmetry
PROPERTIES
  ClosedStaysClosed
