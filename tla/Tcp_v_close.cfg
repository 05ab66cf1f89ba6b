SPECIFICATION FairSpec
CONSTANTS
  sender = sender
  recver = recver
  cport = cport
  sport = sport
  none = none
  Host <- MCHost
  Endpoint <- MCEndpoint
  HostOf <- MCHostOf
  NoEndpoint = none
  FirstFd = 100
  LastFd = 101
  MSS = 2
  BufSize = 6
  Byte = {1, 2, 3, 4, 5, 6}
  Zero = 0
  Script <- L4Script
  Races = {"close"}
  Garbage = {FALSE}
  Faults = {}
  MaxFaults = 0
PROPERTIES
  EveryCallReturns
CHECK_DEADLOCK FALSE
