SPECIFICATION FairSpec
CONSTANTS
  init = init
  q1 = q1
  q2 = q2
  c1 = c1
  Procs = {init, q1, q2}
  initproc = init
  CPUs = {c1}
  NoProc = NoProc
  MaxPid = 3
  KillArgs = {2, 3}
PROPERTIES OrphansReaped KilledExits
