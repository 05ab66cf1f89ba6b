SPECIFICATION FairSpec
CONSTANTS
  Name = {"lo", "v1", "v2"}
  Veth = {"v1", "v2"}
  Requested = {"v2"}
  Mac = {"m0", "m1", "m2", "peer"}
  Ip = {"i0", "i1", "i2"}
  NoIp = "0"
  Interfaces <- Lists
  Fd = {100, 101}
  NoFd = 0
  Traffic <- Wires
  MaxReaders = 2
  MaxFrames = 4
  FrameCapacity = 2
  SocketCapacity <- Capacities
  UnsolvedCapacity = 1
INVARIANTS PipelineTypeOK IdsArePositions HandlesOwned CountsTheTable TicketsMatch InOrderPerDevice
PROPERTIES ImplementsFifo EverySegmentRead
