SPECIFICATION Spec
CONSTANTS
  c1 = c1
  s1 = s1
  Conns = {0}
  NumPackets = 2
  DataLen = 2
  Clients = {c1}
  Servers = {}
  PeerBytes <- ThreeBytes
  MaxSegment = 1
  Capacity = 1
  Resets = {}
  MaxRtx = 1
  MaxSynRtx = 1
  Blocks = 2
  MaxWrites = 3
  MaxOpens = 2
INVARIANT ReadsStream
