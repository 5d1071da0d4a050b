CONSTANTS
  r1 = r1
  r2 = r2
  a1 = a1
  k = k
  Requests = {r1, r2}
  Keys = {k}
  KeyOf <- MCKeyOf
  Surface <- MCSurface
  Subscribes = {r1}
  Paid = TRUE
  Live = TRUE
SPECIFICATION Spec
INVARIANT EveryCallMetered
CHECK_DEADLOCK FALSE
