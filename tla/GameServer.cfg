SPECIFICATION FairSpec
CONSTANTS
  a = a
  b = b
  c = c
  Clients = {a, b, c}
  Names = {n}
  Kinds <- MCKinds
  LoginAttempts = 1
INVARIANTS
  TypeOK
  TriesAreLimited
  OnlyRegisteredAreServed
PROPERTIES
  AnsweredUnlessHeld
CHECK_DEADLOCK FALSE
