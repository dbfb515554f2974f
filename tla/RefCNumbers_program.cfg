SPECIFICATION Spec
CONSTANTS
  M8 = 4
  M16 = 8
  M32 = 16
  M64 = 32
  CodePoint = {0, 1, 2, 3, 5, 6}
  Reg = {"x", "y"}
  Literals <- MCLiterals
  Largest = 8
  MaxShift = 3
INVARIANTS Inv DivisionIsEuclidean
