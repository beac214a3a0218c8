SPECIFICATION FairSpec
CONSTANTS
  Task = {t1, t2, t3}
  MaxOutbox = 2
  MaxColors = 3
INVARIANTS
  TypeOK
  StoredDeleteIsExact
PROPERTIES
  CreatedIsShown
  DeletedIsGone
