CONSTANTS
  MaxLeftOver = 1
  MaxSockets = 3
  MaxLogs = 0
SPECIFICATION Spec
INVARIANTS
  RetrySurvives
CHECK_DEADLOCK FALSE
