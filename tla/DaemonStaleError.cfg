SPECIFICATION FairSpec
CONSTANTS
  http = http
  service = service
  Servers <- Both
  HTTPServers <- None
  KeepAlive = TRUE
  MayQuit <- None
  MayFail <- JustService
  ListenMayFail = FALSE
  EmptyMayLoad = FALSE
  DefaultTimeout = "forever"
  MaxGen = 2
PROPERTY
  ReloadReplaces
