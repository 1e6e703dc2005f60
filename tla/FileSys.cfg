SPECIFICATION Spec
CONSTANTS
  p1 = p1
  p2 = p2
  Procs = {p1, p2}
  NoProc = NoProc
  Names = {"a", "b"}
  NINODES = 3
  NFILE = 1
  NOFILE = 2
  MaxCrash = 1
  LogCalls = 2
  MaxLink = 2
  Calls <- MCCalls
SYMMETRY Symmetry
INVARIANTS NamesSound RefsCounted 
