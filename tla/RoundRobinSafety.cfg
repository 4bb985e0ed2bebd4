SPECIFICATION Spec
CONSTANTS
  r1 = r1
  r2 = r2
  NoOne = NoOne
  Requests <- Both
  Idempotent <- First
  NTargets = 2
  MaxFails = 2
  MaxRetries = 1
  MaxRepeat = 0
  FailBound = 2
INVARIANTS
  TypeOK
  ResentOnlyIfSafe
  BodyKeptForRetry
  GivenUpIsClosed
PROPERTIES
  HealthyFirst
