SPECIFICATION Spec
CONSTANTS
  Staff = {s1}
  Cinema = {k1, k2}
  NoCinema = NoCinema
  Manager = {m1}
  NoManager = NoManager
  Editor = {e1}
  Admin = {a1}
  None = None
  Faulty = FALSE
SYMMETRY Symmetry
INVARIANTS
  LinksEligible
