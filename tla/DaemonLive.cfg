SPECIFICATION FairSpec
CONSTANTS
  http = http
  service = service
  Servers <- JustHTTP
  HTTPServers <- JustHTTP
  KeepAlive = FALSE
  MayQuit <- None
  MayFail <- None
  ListenMayFail = FALSE
  EmptyMayLoad = FALSE
  DefaultTimeout = "forever"
  MaxGen = 2
PROPERTIES
  ReloadTakesEffect
  ExitTakesEffect
  TimedExitTerminates
