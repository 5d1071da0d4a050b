CONSTANTS
  r1 = r1
  r2 = r2
  a1 = a1
  k = k
  Requests = {r1, r2, a1}
  Keys = {k}
  KeyOf <- MCKeyOf
  Surface <- MCSurface
  Subscribes = {r1, a1}
  Paid = TRUE
  Live = TRUE
SPECIFICATION Spec
INVARIANTS TypeOK NoResultNoCharge ReceiptsHonest AnswersAudited NeverOvercounts
CHECK_DEADLOCK FALSE
