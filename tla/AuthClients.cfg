SPECIFICATION FairSpec
CONSTANTS
  other = other
  r1 = r1
  r2 = r2
  accepter = accepter
  Others <- MCOthers
  Clients <- MCClients
  Receivers <- MCReceivers
  Runners <- MCRunners
  Accepter = accepter
  MaxSends = 1
INVARIANTS
  TypeOK
  ServesAtMostOneClient
  GameIsDeafAndMute
  OneHandshakeOnly
PROPERTIES
  WritesFindItStopped
  StuckForEver
  StopNeedsASpuriousWakeup
  WhatIsReadIsTakenToSend
CHECK_DEADLOCK FALSE
