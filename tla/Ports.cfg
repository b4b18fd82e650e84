SPECIFICATION LiveSpec
CONSTANTS
  Port = 1
  AltPort = {2}
  Direct = FALSE
  Lease <- TwoMinutes
  RetryIn = 2
  MayFail = TRUE
  MaxReports = 1
INVARIANTS
  TypeOK
  NotLeftOpen
  NotAdvertisedInVain
  WishKept
  
PROPERTIES
  MappedAgain
