\* Two connections, closed by their peers.
SPECIFICATION ServerSpec
CONSTANTS
  MaxCons = 2
  Adders = {io1}
  Main = Main
  Free = Free
  Closers = {}
  Leaving = {0, 1}
PROPERTIES
  RemovesOnlyThis
CHECK_DEADLOCK FALSE
