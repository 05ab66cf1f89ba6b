SPECIFICATION FairSpec
CONSTANTS
  sender = sender
  other = other
  oport = oport
  recver = recver
  cport = cport
  sport = sport
  none = none
  Host <- ManyHost
  Endpoint <- ManyEndpoint
  HostOf <- ManyHostOf
  NoEndpoint = none
  FirstFd = 100
  LastFd = 100
  MSS = 2
  BufSize = 6
  Byte = {1, 2, 3, 4, 5, 6}
  Zero = 0
  Script <- OverfullScript
  Races = {}
  Garbage = {FALSE}
  Faults = {}
  MaxFaults = 0
INVARIANTS
  TypeOK
  AcceptAgreement
  StopAndWait
  AllSentBeforeClose
PROPERTIES
  EveryCallReturns
  ImplementsConnection
