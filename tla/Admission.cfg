\* A listener, a server_connect and ~network; ids come round after two.
SPECIFICATION FairSpec
CONSTANTS
  Connectors = {k1}
  Main = Main
  Free = Free
  IdCount = 2
  MaxCons = 3
INVARIANTS
  TypeOK
  OpenMeansListening
  ClosedOnce
  ListenerOutlivesHandlers
  GetConFinds
PROPERTIES
  ConnectedIsListed
  StatusSettles
  ShutdownEnds
CHECK_DEADLOCK FALSE
