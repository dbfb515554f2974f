SPECIFICATION FairSpec
CONSTANTS
  Cell = {c1, c2, k}
  Static = {k}
  Var = {v1, v2, v3}
  NArg = 2
  MaxRC = 3
  NULL = NULL
  Kinds = {"leaf", "constructor", "ioref"}
  Arity = {0, 1, 2}
INVARIANTS TypeOK CountExact NoDangling NothingForgotten ConsumedIsPrivate
PROPERTIES ManagesHeap ImmortalForever CascadeReturns
CHECK_DEADLOCK FALSE
