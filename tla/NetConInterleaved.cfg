\* Two sends of complete messages outstanding, and a kernel that may take part
\* of a buffer.
SPECIFICATION WholeMessagesSpec
CONSTANTS
  net_word <- MCWords
  BuffSize = 6
  MaxOutstanding = 2
  MaxBytes = 5
INVARIANT InOrder
CHECK_DEADLOCK FALSE
