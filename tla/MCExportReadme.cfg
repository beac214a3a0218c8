SPECIFICATION Spec
CONSTANTS
  hanako = hanako
  taro = taro
  User <- OneUser
  Watched <- OneUser
  NoUser = NoUser
  None = None
  DaysPerMonth = 2
  MonthsPerYear = 12
  LastDay = 2
  MaxRow = 2
  MaxOut = 1
  MaxPress = 1
  MaxBacklog = 2
INVARIANTS
  EveryMonthIsOffered
