CONSTANTS
  MaxLeftOver = 1
  MaxSockets = 2
  MaxLogs = 1
SPECIFICATION FairSpec
INVARIANTS
  TypeOK
  ConnectsNotEarly
PROPERTIES
  OutboxSpec
  QueueDrains
  StartsOnceConfigured
  StartsWrongOnlyWhenMerged
CHECK_DEADLOCK FALSE
