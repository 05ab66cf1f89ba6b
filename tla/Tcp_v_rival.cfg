SPECIFICATION Spec
CONSTANTS
  sender = sender
  other = other
  oport = oport
  recver = recver
  cport = cport
  sport = sport
  none = none
  Host <- ManyHost
  Endpoint <- ManyEndpoint
  HostOf <- ManyHostOf
  NoEndpoint = none
  FirstFd = 100
  LastFd = 101
  MSS = 2
  BufSize = 1
  Byte = {1, 2, 3, 4, 5, 6}
  Zero = 0
  Script <- RivalScript
  Races = {}
  Garbage = {FALSE}
  Faults = {}
  MaxFaults = 0
INVARIANTS
  NoCrash
CHECK_DEADLOCK FALSE
