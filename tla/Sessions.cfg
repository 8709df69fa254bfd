SPECIFICATION FairSpec
CONSTANTS
  i1 = i1
  o1 = o1
  o2 = o2
  c1 = c1
  c2 = c2
  t1 = t1
  t2 = t2
  Ids = {i1}
  Objs = {o1, o2}
  Clients = {c1, c2}
  Threads = {t1, t2}
  NoObj = NoObj
  NoClient = NoClient
  NoRow = NoRow
  Idle = Idle
  Down = Down
INVARIANTS
  TypeOK
  StoreKeepsUp
  LiveIsCurrent
PROPERTIES
  DeletedStaysDeleted
  PairingIsStored
CHECK_DEADLOCK FALSE
CONSTRAINT Unmarked
