SPECIFICATION Spec
CONSTANTS
  sender = sender
  recver = recver
  cport = cport
  sport = sport
  none = none
  Host <- MCHost
  Endpoint <- MCEndpoint
  HostOf <- MCHostOf
  NoEndpoint = none
  FirstFd = 100
  LastFd = 101
  MSS = 2
  BufSize = 4
  Byte = {1, 2, 3, 4}
  Zero = 0
  Script <- GapScript
  Races = {"wakeup", "close", "start"}
  Garbage = {FALSE, TRUE}
  Faults = {"lose", "duplicate", "reorder"}
  MaxFaults = 1
INVARIANTS
  NoWrongByte
  LongWritesIntact
  DiesOnlyOnStraySyn
  PendingSocketsExist
PROPERTIES ArrivedIsFinal
VIEW View
CHECK_DEADLOCK FALSE
