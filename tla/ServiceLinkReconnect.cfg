CONSTANTS
  a1 = a1
  a2 = a2
  b1 = b1
  Svc <- MCSvc
  MAX_CONNECTIONS = 1
  Conns = {a1, a2}
  Traffic <- OneEach
  StopGiven = FALSE
SPECIFICATION Spec
SYMMETRY AuthSymmetry
INVARIANTS
  ErasesWhatWasSent
PROPERTIES
  LiveOwnerDisplacedOnlyByRivals
  OutboxSpec
CHECK_DEADLOCK FALSE
