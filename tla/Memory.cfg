SPECIFICATION MemSpec
CONSTANTS
  init = init
  p1 = p1
  Processes = {init, p1}
  FirstProc = init
  Callers = {init, p1}
  Written = {4}
  Floor = 4
  PageCounts = {24}
  LEVELS = 3
  FAN = 2
  PGSIZE = 3
  USERSTACK = 1
  MaxArgs = 1
  Programs <- MCPrograms
  Increments <- MCIncrements
INVARIANTS  MemoryKept
