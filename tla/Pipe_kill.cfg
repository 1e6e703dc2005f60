SPECIFICATION Spec
CONSTANTS
  p1 = p1
  p2 = p2
  p3 = p3
  a = a
  Procs = {p1, p2, p3}
  Bytes = {a}
  NoProc = NoProc
  PipeSize = 1
  CounterMod = 2
  MaxN = 2
SYMMETRY Symmetry
INVARIANT ReadersNotForgotten
CHECK_DEADLOCK FALSE
