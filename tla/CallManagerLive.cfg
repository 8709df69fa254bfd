SPECIFICATION FairSpec
CONSTANTS
  c1 = c1
  r1 = r1
  d1 = d1
  Clients = {c1}
  Relays = {r1}
  Devices = {d1}
  Primary = d1
  NoCall = NoCall
  NoPeer = NoPeer
  NoRelays = NoRelays
  NoKeys = NoKeys
PROPERTIES
  OpenRelayConnects
  EndedIsReleased
CHECK_DEADLOCK FALSE
