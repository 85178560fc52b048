CONSTANTS
  a1 = a1
  a2 = a2
  b1 = b1
  Svc <- MCSvc
  MAX_CONNECTIONS = 2
  Conns = {a1, b1}
  Traffic <- LogLineFromA1
  StopGiven = FALSE
SPECIFICATION Spec
INVARIANTS
  TypeOK
  NoUnlockOfUnowned
  StaleSlotOnlyAfterRefusal
  MisdeliveryOnlyToReusedDescriptor
CHECK_DEADLOCK FALSE
