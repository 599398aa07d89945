\* Every field but float, read into empty arrays and others.
SPECIFICATION Spec
CONSTANTS
  Fields <- MCFields
  Behind <- NoBehind
  Initial = {0, 2}
  MaxFields = 3
INVARIANTS
  RoundTrip
  WholeMessage
CHECK_DEADLOCK FALSE
