SPECIFICATION Spec
CONSTANTS
  sender = sender
  recver = recver
  cport = cport
  sport = sport
  none = none
  Host <- MCHost
  Endpoint <- MCEndpoint
  HostOf <- MCHostOf
  NoEndpoint = none
  FirstFd = 100
  LastFd = 100
  MSS = 2
  BufSize = 1
  Byte = {1, 2, 3, 4, 5, 6}
  Zero = 0
  Script <- OneMoreScript
  Races = {}
  Garbage = {FALSE}
  Faults = {}
  MaxFaults = 0
PROPERTIES
  GivesNewSocket
CHECK_DEADLOCK FALSE
