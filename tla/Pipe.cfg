SPECIFICATION FairSpec
CONSTANTS
  p1 = p1
  p2 = p2
  a = a
  b = b
  Procs = {p1, p2}
  Bytes = {a, b}
  NoProc = NoProc
  PipeSize = 1
  CounterMod = 3
  MaxN = 2
INVARIANTS NoUseAfterFree EofOnlyAtEnd ReadersWoken WritersNotForgotten
PROPERTIES  CallsReturn
CHECK_DEADLOCK FALSE
