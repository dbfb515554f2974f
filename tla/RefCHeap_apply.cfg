SPECIFICATION Spec
CONSTANTS
  Cell = {c1, c2, c3, c4}
  Static = {}
  Var = {v1, v2, v3}
  NArg = 3
  MaxRC = 19
  NULL = NULL
  Kinds = {"leaf", "closure", "gcpointer"}
  Arity = {2}
SYMMETRY Interchangeable
INVARIANTS CountExact NoResurrection
CHECK_DEADLOCK FALSE
