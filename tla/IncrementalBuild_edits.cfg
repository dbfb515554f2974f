SPECIFICATION Spec
CONSTANTS
  A = A
  B = B
  C = C
  Module <- Modules
  Sources <- FewSources
  Initial <- FirstSources
  Interface <- TextInterface
  Accepts <- Needs
  Targets <- FewTargets
  Cyclic <- ModTreeCyclic
  BuildOrder <- ModTreeOrder
  MaxTime = 4
  MaxEdits = 2
INVARIANTS Inv
PROPERTIES RebuiltForAReason
CHECK_DEADLOCK FALSE
