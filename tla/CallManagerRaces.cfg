SPECIFICATION Spec
CONSTANTS
  c1 = c1
  c2 = c2
  r1 = r1
  d1 = d1
  Clients = {c1, c2}
  Relays = {r1}
  Devices = {d1}
  Primary = d1
  NoCall = NoCall
  NoPeer = NoPeer
  NoRelays = NoRelays
  NoKeys = NoKeys
INVARIANTS
  AudioReady
  ReleaseUnderWay
  EndedIsUnregistered
  IncomingWaitsForAnswer
PROPERTY
  ImplementsLifecycle
CHECK_DEADLOCK FALSE
SYMMETRY Symmetry
