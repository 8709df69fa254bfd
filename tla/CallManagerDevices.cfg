SPECIFICATION Spec
CONSTANTS
  c1 = c1
  r1 = r1
  d1 = d1
  d2 = d2
  Clients = {c1}
  Relays = {r1}
  Devices = {d1, d2}
  Primary = d1
  NoCall = NoCall
  NoPeer = NoPeer
  NoRelays = NoRelays
  NoKeys = NoKeys
INVARIANTS
  ReceivesFromAcceptor
CHECK_DEADLOCK FALSE
