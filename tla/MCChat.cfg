SPECIFICATION FairSpec
CONSTANTS
  hanako = hanako
  taro = taro
  jiro = jiro
  User <- Users
  Device <- Devices
  Patient <- Waiting
  Part = {"h", "t"}
  Email <- Addresses
  None = None
  MaxText <- Writes
  MaxPress = 2
  MaxPending = 2
INVARIANTS
  TypeOK
  NoLeak
  ConversationIsExact
  SentOnce
PROPERTIES
  ClearedIsStored
  FieldIsFreed
  Delivered
