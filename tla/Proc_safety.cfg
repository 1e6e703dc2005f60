SPECIFICATION Spec
CONSTANTS
  init = init
  q1 = q1
  q2 = q2
  c1 = c1
  c2 = c2
  Procs = {init, q1, q2}
  initproc = init
  CPUs = {c1, c2}
  NoProc = NoProc
  MaxPid = 4
  KillArgs = {0, 2, 3, 4}
SYMMETRY Symmetry
INVARIANTS OneStack NoLostChild ParentAlive NoStrayKill
