SPECIFICATION Spec
CONSTANTS
  c1 = c1
  s1 = s1
  Conns = {0}
  NumPackets = 2
  DataLen = 1
  Clients = {c1}
  Servers = {s1}
  PeerBytes <- NoBytes
  MaxSegment = 1
  Capacity = 1
  Resets = {s1}
  MaxRtx = 1
  MaxSynRtx = 1
  Blocks = 2
  MaxWrites = 0
  MaxOpens = 2
PROPERTIES
  ConnectEnds
  ConnectionsEnd
