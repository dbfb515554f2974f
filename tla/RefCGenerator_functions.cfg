SPECIFICATION Spec
CONSTANTS
  Arity = 2
  MaxVar = 4
  MaxField = 2
  Times = 2
  Name = {A}
INVARIANTS Inv UsesAreHeld
CHECK_DEADLOCK FALSE
