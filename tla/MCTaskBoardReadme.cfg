SPECIFICATION Spec
CONSTANTS
  Task = {t1, t2, t3}
  MaxOutbox = 2
  MaxColors = 3
INVARIANTS
  DeleteHitsTappedCard
