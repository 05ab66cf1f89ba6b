SPECIFICATION FairSpec
CONSTANTS
  hostA = hostA
  hostB = hostB
  hostC = hostC
  hostD = hostD
  a = a
  b = b
  b1 = b1
  b2 = b2
  c = c
  c1 = c1
  d = d
  d1 = d1
  Host <- RingHost
  Device <- RingDevice
  currDevice <- RingDevices
  Peer <- RingPeer
  Broadcast = broadcast
  NoRoute = noRoute
  Static <- StaticAtD
  StaticTtl = 9
  ArpTtl = 2
  PacketTtl = 2
  Width = 8
  Followed <- BeforeWrap
  Rounds = 1
  Announcing <- OnlyA
  Targets <- ToA
  MaxPackets = 1
INVARIANTS
  TypeOK
  RoutesLeadCloser
  ExactlyOnce
PROPERTIES
  EveryoneLearnsARoute
CHECK_DEADLOCK FALSE
