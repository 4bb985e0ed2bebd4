SPECIFICATION Spec
CONSTANTS
  r1 = r1
  r2 = r2
  NoOne = NoOne
  Requests <- Both
  Idempotent <- First
  NTargets = 2
  MaxFails = 1
  MaxRetries = 0
  MaxRepeat = 0
  FailBound = 2
INVARIANT
  FailedOnlyInQuarantine
