SPECIFICATION Spec
CONSTANTS
  office = office
  home = home
  Wifi <- MCWifi
  Internal <- MCInternal
  MaxReports = 2
  MaxHandlers = 3
INVARIANTS
  ContentNeedsInternalWifi
