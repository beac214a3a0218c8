SPECIFICATION FairSpec
CONSTANTS
  p1 = p1
  p2 = p2
  Page <- OnePage
  NoId = NoId
  NoTime = NoTime
  ReleaseBuild = FALSE
  PatientUser = FALSE
  TicksPerDay = 1
  MaxClock = 1
  MaxRow = 2
  MaxTap = 3
  MaxRead = 2
INVARIANTS
  CaughtUp
PROPERTIES
  ClockInIsRecorded
  ClockOutIsRecorded
  RowIsLoaded
