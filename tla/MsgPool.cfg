\* Three places sharing four buffers and a pool with room for two.
SPECIFICATION Spec
CONSTANTS
  Buffers = {b1, b2, b3, b4}
  Owners = {o1, o2, o3}
  NoBuffer = NoBuffer
  max_messages = 1
SYMMETRY Symmetry
INVARIANTS
  TypeOK
  OnePlace
  NoLeak
  PoolBound
PROPERTY GivenEmpty
CHECK_DEADLOCK FALSE
