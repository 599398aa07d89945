\* The peer closes while a message is being sent.
SPECIFICATION Spec
CONSTANTS
  net_word <- MCWords
  BuffSize = 2
  MaxOutstanding = 1
  MaxBytes = 3
INVARIANT SendFailureIsReported
CHECK_DEADLOCK FALSE
