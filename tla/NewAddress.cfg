SPECIFICATION Spec
CONSTANTS
  s1 = s1
  s2 = s2
  s3 = s3
  u1 = u1
  u2 = u2
  a1 = a1
  a2 = a2
  NoUser = NoUser
  NoAddr = NoAddr
  Session = {s1}
  User = {u1}
  Addr = {a1, a2}
  Sid = {u1}
  SidOf <- DistinctSids
  Settings <- OneAtATime
  Inputs = {"download", "users"}
  MaxFiles = 1
  MaxHash = 1
  MaxAhead = 1
SYMMETRY Symmetry
PROPERTIES
  RestartsAtNewAddress
CHECK_DEADLOCK FALSE
