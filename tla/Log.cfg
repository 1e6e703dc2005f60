SPECIFICATION Spec
CONSTANTS
  p1 = p1
  p2 = p2
  b1 = b1
  b2 = b2
  v1 = v1
  v2 = v2
  Procs = {p1, p2}
  Blocks = {b1, b2}
  Values = {v1, v2}
  None = None
  Torn = Torn
  MAXOPBLOCKS = 2
  OpLimit = 1
  LOGBLOCKS = 4
SYMMETRY Symmetry
INVARIANTS SpaceReserved NeverStuck
PROPERTIES ImplementsAtomicDisk SyncDurable
