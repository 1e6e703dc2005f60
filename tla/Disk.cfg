SPECIFICATION DiskSpec
CONSTANTS
  p1 = p1
  p2 = p2
  p3 = p3
  Procs = {p1, p2, p3}
  NUM = 8
  IdxMod = 16
  None = None
  q1 = q1
  q2 = q2
  Users = {q1, q2}
  NoUser = NoUser
  Homes = {p1, p2, p3}
  LogArea <- MCLogArea
  Values = {0, 1}
  NBUF = 3
  MAXOPBLOCKS = 3
  OpLimit = 1
  l0 = l0
  l1 = l1
  l2 = l2
  l3 = l3
  NoBlock = NoBlock
VIEW View
SYMMETRY Symmetry
INVARIANTS DmaSafe NoRequestLost NoCompletionMissed DescriptorsKept 
