SPECIFICATION FairSpec
CONSTANTS
  sender = sender
  recver = recver
  cport = cport
  sport = sport
  none = none
  Host <- MCHost
  Endpoint <- MCEndpoint
  HostOf <- MCHostOf
  NoEndpoint = none
  FirstFd = 100
  LastFd = 101
  MSS = 2
  BufSize = 4
  Byte = {1, 2, 3, 4, 5, 6}
  Zero = 0
  Script <- SmallScript
  Races = {}
  Garbage = {FALSE}
  Faults = {}
  MaxFaults = 0
INVARIANTS
  NoCrash
  ReadIntegrity
  ReadWithinArrived
PROPERTIES
  EveryCallReturns
