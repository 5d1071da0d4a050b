CONSTANTS
  Sockets = {s1, s2}
  Keep = 2
  LastAudit = 3
SPECIFICATION FairSpec
INVARIANTS TypeOK NewestFirst Stream QuietOnceUnmounted
PROPERTIES Reconnects TornDown Arrives
CHECK_DEADLOCK FALSE
