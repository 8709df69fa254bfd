SPECIFICATION FairSpec
CONSTANTS
  r1 = r1
  c1 = c1
  c2 = c2
  Relays = {r1}
  Conns = {c1, c2}
  Configures = 2
  NoConn = NoConn
  NoRelay = NoRelay
INVARIANTS
  TypeOK
  MapIsCurrent
  LostIsTornDown
  LeftoverHasCause
PROPERTIES
  ImplementsLinks
  ConnectionsSettle
CHECK_DEADLOCK FALSE
