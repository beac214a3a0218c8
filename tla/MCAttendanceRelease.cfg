SPECIFICATION Spec
CONSTANTS
  p1 = p1
  p2 = p2
  Page <- TwoPages
  NoId = NoId
  NoTime = NoTime
  ReleaseBuild = TRUE
  PatientUser = FALSE
  TicksPerDay = 1
  MaxClock = 1
  MaxRow = 2
  MaxTap = 3
  MaxRead = 2
SYMMETRY PageSymmetry
VIEW LiveView
INVARIANTS
  TypeOK
  RowsStamped
  KnownId
PROPERTIES
  RegisterSpec
