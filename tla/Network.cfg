\* Everything the threads can do, up to the first fault.
SPECIFICATION Spec
CONSTANTS
  MaxCons = 2
  Adders = {io1, io2}
  Main = Main
  Free = Free
INVARIANTS
  TypeOK
  ListedAreLive
  MutexOutlivesUse
  SocketsClosedFirst
PROPERTIES
  ClosedNetworkKeepsAll
CHECK_DEADLOCK FALSE
