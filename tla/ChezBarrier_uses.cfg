SPECIFICATION BarrierFairSpec
CONSTANTS
  Thread = {t1, t2, t3, t4, t5}
  Parties = 3
  Rounds = 2
INVARIANTS BarrierInv
PROPERTIES ImplementsBarrier PartyLeaves
CHECK_DEADLOCK FALSE
