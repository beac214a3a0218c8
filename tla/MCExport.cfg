SPECIFICATION FairSpec
CONSTANTS
  hanako = hanako
  taro = taro
  User <- TwoUsers
  Watched <- OneUser
  NoUser = NoUser
  None = None
  DaysPerMonth = 2
  MonthsPerYear = 12
  LastDay = 2
  MaxRow = 2
  MaxOut = 1
  MaxPress = 2
  MaxBacklog = 0
INVARIANTS
  TypeOK
  UploadedIsLast
  FlagIsLast
PROPERTIES
  PressIsUploaded
