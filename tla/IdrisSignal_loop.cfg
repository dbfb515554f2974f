SPECIFICATION SignalFairSpec
CONSTANTS
  Signal = {2, 4, 6}
  Caller = {main}
  MaxRaises = 2
INVARIANTS SignalInv
PROPERTIES EveryRaiseHandled
