\* A float, with a field behind it.
SPECIFICATION Spec
CONSTANTS
  Fields <- FloatFields
  Behind <- MCBehind
  Initial = {0}
  MaxFields = 2
INVARIANT RoundTrip
CHECK_DEADLOCK FALSE
