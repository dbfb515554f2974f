SPECIFICATION FairSpec
CONSTANTS
  Waiter = {w1, w2, w3}
  Notifier = {n1, n2}
  MaxSignals = 2
  MaxBroadcasts = 2
INVARIANTS Inv
PROPERTIES BroadcastWakesAll NotifierReturns
CHECK_DEADLOCK FALSE
