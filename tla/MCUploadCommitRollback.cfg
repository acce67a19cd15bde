SPECIFICATION Spec
CONSTANT
  Files = {a, b, c}
INVARIANT
  RolledBackMeansRestored
CHECK_DEADLOCK FALSE
