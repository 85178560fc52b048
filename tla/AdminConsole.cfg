CONSTANTS
  Stoppers = {"stop1", "stop2"}
  Threads <- MCThreads
  MaxPrinted = 2
  IntOf <- MCIntOf
  IPv4 = {"127.0.0.1"}
  Lines <- MCLines
  Numbers = {"0"}
  FirstFile <- MCFirstFile
  MaxLines = 2
  MaxStarts = 2
SPECIFICATION FairSpec
INVARIANTS
  TypeOK
  LostOnlyDuringSave
PROPERTIES
  JournalSpec
  SavedSettingsSurvive
  StopFinishes
  DoneMeansStored
CHECK_DEADLOCK FALSE
