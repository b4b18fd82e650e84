SPECIFICATION Spec
CONSTANTS
  a = a
  b = b
  a1 = a1
  a2 = a2
  b1 = b1
  Node = {a1, a2, b1}
  Name = {a, b}
  NameOf <- Names
  Volume = {a2}
  Initial = {b1}
  Thread = 2
  BatchSize = 2
  MaxChanges = 3
  MaxInbox = 2
INVARIANTS
  TypeOK
  NobodyWaitsInVain
  ListedMatchesDisk
  CountCatchesUp
CHECK_DEADLOCK FALSE
