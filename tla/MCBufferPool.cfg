SPECIFICATION Spec
CONSTANTS
  Holders = {h1, h2, h3}
  Buffers = {b1, b2, b3, b4}
  Limits = {0, 1, 3}
  Bits = 3
SYMMETRY PoolSymmetry
INVARIANTS Partition LimitExact
CHECK_DEADLOCK FALSE
