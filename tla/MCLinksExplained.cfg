SPECIFICATION ApartSpec
CONSTANTS
  Staff = {s1}
  Cinema = {k1, k2}
  NoCinema = NoCinema
  Manager = {m1}
  NoManager = NoManager
  Editor = {e1, e2}
  Admin = {a1}
  None = None
  Faulty = TRUE
SYMMETRY Symmetry
INVARIANTS
  TypeOK
  LinksExplained
  DoneMeansDone
PROPERTIES
  ChangesAnnounced
  NeverWithoutRole
  OnlyStaleCleared
