SPECIFICATION Spec
CONSTANTS
  http = http
  service = service
  Servers <- Both
  HTTPServers <- JustHTTP
  KeepAlive = TRUE
  MayQuit <- JustService
  MayFail <- JustService
  ListenMayFail = TRUE
  EmptyMayLoad = TRUE
  DefaultTimeout = "finite"
  MaxGen = 2
INVARIANTS
  TypeOK
  NoOverlap
  CleanupAfterDrain
  ReloadKeepsConnections
  FailedLoadHarmless
  SupersededCancelled
  PanicOnlyAtStart
PROPERTIES
  DrainedOnce
  ImplementsGenerations
