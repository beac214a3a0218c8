SPECIFICATION Spec
CONSTANTS
  p1 = p1
  p2 = p2
  Page <- TwoPages
  NoId = NoId
  NoTime = NoTime
  ReleaseBuild = TRUE
  PatientUser = TRUE
  TicksPerDay = 2
  MaxClock = 4
  MaxRow = 3
  MaxTap = 4
  MaxRead = 2
SYMMETRY PageSymmetry
VIEW LiveView
INVARIANTS
  OneRowPerDay
  CaughtUp
PROPERTIES
  ClockInKept
