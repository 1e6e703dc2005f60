SPECIFICATION Spec
CONSTANTS
  r1 = r1
  w1 = w1
  w2 = w2
  Readers = {r1}
  Writers = {w1}
  Victims = {r1}
  NoProc = NoProc
  Handler = Handler
  INPUT_BUF_SIZE = 2
  IndexMod = 4
  Chars = {"x", "nl", "eof", "kill", "bs"}
  Counts = {2}
  MaxTyped = 3
  Start = 3
  WriteLen = 1
INVARIANT InputKept
PROPERTY CallsEnd
CHECK_DEADLOCK FALSE
