CONSTANTS
  a1 = a1
  a2 = a2
  b1 = b1
  Svc <- MCSvc
  MAX_CONNECTIONS = 1
  Conns = {a1}
  Traffic <- LogLineFromA1
  StopGiven = FALSE
SPECIFICATION Spec
PROPERTIES
  AlreadyConnectedIsTrue
CHECK_DEADLOCK FALSE
