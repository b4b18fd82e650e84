SPECIFICATION Spec
CONSTANTS
  A = A
  B = B
  i1 = i1
  i2 = i2
  NoServer = NoServer
  NoIp = NoIp
  Primary = p
  Conn = {p, x, y}
  Server = {A, B}
  Ip = {i1, i2}
  IpOf <- Addresses
  OwnIp = NoIp
  Local = {}
  Loopback = {}
  Menu <- KnownServers
  Sid = {n1}
  MaxConnections = 3
  MaxAttempts = 1
  MaxPings = 1
  MaxMail = 1
  Inputs = {"servers", "field"}
SYMMETRY Symmetry
INVARIANTS
  OneSessionPerBox
