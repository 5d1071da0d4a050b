CONSTANTS
  Updates = {u1, u2, u3}
  Cap = 2
  LastId = 4
SPECIFICATION Spec
INVARIANTS TypeOK Accounted CountedOnce UnwatchComplete
SYMMETRY Symmetry
CHECK_DEADLOCK FALSE
