SPECIFICATION Spec
CONSTANTS
  hostA = hostA
  hostB = hostB
  hostC = hostC
  hostD = hostD
  a = a
  b = b
  b1 = b1
  b2 = b2
  c = c
  c1 = c1
  d = d
  d1 = d1
  Host <- LineHost
  Device <- LineDevice
  currDevice <- LineDevices
  Peer <- LinePeer
  Broadcast = broadcast
  NoRoute = noRoute
  Static <- NoStatic
  StaticTtl = 9
  ArpTtl = 2
  PacketTtl = 3
  Width = 8
  Followed <- Always
  Rounds = 1
  Announcing <- OnlyA
  Targets <- ToA
  MaxPackets = 0
PROPERTIES
  LargerTtlIsShorter
CHECK_DEADLOCK FALSE
