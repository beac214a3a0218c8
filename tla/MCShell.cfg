SPECIFICATION FairSpec
CONSTANTS
  hanako = hanako
  taro = taro
  first = first
  second = second
  User <- Users
  NoUser = NoUser
  Name = {"receipt.jpg"}
  None = None
  Founder <- Old
  MaxPages = 2
  MaxRequest = 2
  File <- Images
  BaseName <- OneName
  MaxUpload = 2
  NoText = NoText
  Query <- Texts
  Matches <- Found
  Extends <- Longer
INVARIANTS
  TypeOK
  HomeIsCurrent
  HomeNeedsUser
  MailIsForNew
  NoDangling
  PhotoIsLast
  SearchIsExact
  ListedHaveAccounts
PROPERTIES
  ProfileArrives
  PhotoArrives
