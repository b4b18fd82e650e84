SPECIFICATION LiveSpec
CONSTANTS
  s1 = s1
  s2 = s2
  s3 = s3
  u1 = u1
  u2 = u2
  a1 = a1
  a2 = a2
  NoUser = NoUser
  NoAddr = NoAddr
  Session = {s1, s2}
  User = {u1}
  Addr = {a1}
  Sid = {u1}
  SidOf <- DistinctSids
  Settings <- ShortestFirst
  Inputs = {"callback", "inbound", "bad", "time"}
  MaxFiles = 1
  MaxHash = 1
  MaxAhead = 1
INVARIANTS
  SortLeavesNonePaused
  NoUploadWaitsInVain
PROPERTIES
  FinishedUploadsLeave
  MoribundUploadsEnd
CHECK_DEADLOCK FALSE
