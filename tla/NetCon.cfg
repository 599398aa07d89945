\* One send at a time, writes and reads cut anywhere.
SPECIFICATION FairSpec
CONSTANTS
  net_word <- MCWords
  BuffSize = 2
  MaxOutstanding = 1
  MaxBytes = 4
INVARIANTS
  TypeOK
  InOrder
  RecvIsPrefix
  NoUnknownEscape
PROPERTIES
  ImplementsMessageLayer
  Delivery
CHECK_DEADLOCK FALSE
