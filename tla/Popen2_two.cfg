SPECIFICATION FairSpec
CONSTANTS
  Session = {s1, s2}
  Program = Program
  Std = {0, 1, 2}
  Files = {0, 4}
  MaxFd = 11
  Capacity = 1
  Lines = 2
  File = File
  None = None
INVARIANTS Inv ChildWired AnswerComplete KilledOnlyIfEarly
PROPERTY FinishesUnlessCrossed
CHECK_DEADLOCK FALSE
