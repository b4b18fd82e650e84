SPECIFICATION LiveSpec
CONSTANTS
  File = {1, 2}
  Size <- LongAndShort
  Version = {1, 2}
  InitialCopy <- SomeCopies
  MaxCopies = 3
  MaxHash = 2
  MaxTrouble = 2
  Inputs = {"requeue", "abort", "lose", "halt", "resume", "quit", "unshare", "replace", "delete"}
INVARIANTS
  TypeOK
  
PROPERTIES
  
  NotTouchedAgain
  DownloadEnds
CHECK_DEADLOCK FALSE
