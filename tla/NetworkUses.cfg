\* A client whose peer leaves when it likes, and a shutdown in which the
\* application closes connections and the peer of the second one leaves.
SPECIFICATION UsesSpec
CONSTANTS
  MaxCons = 2
  Adders = {io1}
  Main = Main
  Free = Free
  Closers = {Main, 0}
  Leaving = {1}
INVARIANTS
  NoFault
PROPERTIES
  GoneIsDestroyed
  ShutdownEnds
CHECK_DEADLOCK FALSE
