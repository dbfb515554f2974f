SPECIFICATION BlocksSpec
CONSTANTS
  Elem = {e1, e2, e3}
  Index = {i1, i2}
  Var = {x, y}
  MaxDepth = 2
  Touches = FALSE
  NULL = NULL
  Byte = 4
  Ascii = 3
  Encoding <- MCEncoding
  Literals <- MCLiterals
  CInt = 16
  Width = {2}
  MaxLen = 3
  MaxSize = 3
  Lost = Lost
  None = None
  Programs = {{"arrays"}, {"strings", "lists"}, {"strings", "iterator"}, {"buffer"}}
CONSTRAINT NoListMeanwhile
INVARIANTS Inv FinalisedIsInaccessible TextReads TextIsKept
CHECK_DEADLOCK FALSE
