SPECIFICATION Spec
CONSTANTS
  east = east
  west = west
  me = me
  mw = mw
  f1 = f1
  f2 = f2
  big = big
  x = x
  y = y
  None = None
  Route = {"notifications", "staff", "qr", "import"}
  Run = {r1, r2}
  Earlier = 1
  MaxNotices = 2
  Urgent = {1}
  PageSize = 1
  Cinema = {east, west}
  Manager = {me, mw}
  ManagersOf <- OneManagerEach
  Home = None
  Staff = {s1, s2}
  Wanted = s1
  Code = {x, y}
  File = {f1, f2, big}
  RowsOf <- SharedCode
  TooBig = {big}
  MaxImports = 2
INVARIANTS
  ConsoleTypeOK
  DataAnswersQuery
  ManagerFits
  PanelExplained
  ImportExact
PROPERTIES
  NeverUnreadAgain
  BellSettles
