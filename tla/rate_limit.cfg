CONSTANTS
  c1 = c1
  c2 = c2
  r1 = r1
  r2 = r2
  r3 = r3
  q1 = q1
  Calls = {r1, r2, r3, q1}
  Callers = {c1, c2}
  CallerOf <- MCCallerOf
  Limit <- MCLimit
  Minute = 2
  TTL = 3
  Lag = 1
  LastMinute = 1
SPECIFICATION Spec
INVARIANTS TypeOK AtMostLimit RefusalEarned CountersEnd
SYMMETRY Symmetry
CHECK_DEADLOCK FALSE
