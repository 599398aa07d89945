\* ~network while peers leave.
SPECIFICATION ExitSpec
CONSTANTS
  MaxCons = 2
  Adders = {io1}
  Main = Main
  Free = Free
  Closers = {}
  Leaving = {0, 1}
INVARIANTS
  NoSockException
CHECK_DEADLOCK FALSE
