SPECIFICATION FairSpec
CONSTANTS
  a = a
  b = b
  c = c
  Clients = {a}
  Names = {n}
  Kinds <- MCKinds
  LoginAttempts = 1
PROPERTIES
  SuccessfulLoginIsAnswered
CHECK_DEADLOCK FALSE
