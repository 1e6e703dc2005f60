SPECIFICATION DataSpec
CONSTANTS
  p1 = p1
  p2 = p2
  Users = {p1, p2}
  NoUser = NoUser
  NBLOCKS = 5
  BSIZE = 2
  NDIRECT = 1
  MAXOPBLOCKS = 6
  FileOf <- MCFileOf
  Lengths = {3}
  MkfsSize <- MCMkfsSize
INVARIANTS BlocksExact DataKept
SYMMETRY Symmetry
VIEW View
