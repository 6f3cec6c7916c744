CONSTANTS
  TableSize = 2
  h1 = h1
  h2 = h2
  far = far
  card1 = card1
  card2 = card2
  us = us
  HostAddress = us
  Echo = 0
  Packets <- MCPackets
  Stations <- MCStations
  Local <- MCLocal
  Router = h2
  Cards = {card1, card2}
  NoCard = nocard
  Unspecified = unspecified
  Broadcast = broadcast
  Sockets = {s1}
  NumConns = 1
  Ports <- MCPorts
  ServerPort = 5000
  Blocks = 3
  MaxLen = 1
  MaxArrivals = 2
  Overlapping = FALSE
SPECIFICATION Spec
INVARIANTS
  FramesRight
  RemoteIsSender
  BlocksKept
PROPERTIES
  PendingSent
