\* Two connections and the application's thread, deferring or not.
SPECIFICATION FairPathSpec
CONSTANTS
  Cons = {c1, c2}
  Apps = {main}
  Free = Free
  MaxMsgs = 2
INVARIANTS
  TypeOK
  SameSize
  PopHasMessage
  PeerOrder
  OneCallback
PROPERTIES
  ImplementsMessageQueue
  Arrives
