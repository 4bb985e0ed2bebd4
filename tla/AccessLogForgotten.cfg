SPECIFICATION Spec
CONSTANTS
  s1 = s1
  r1 = r1
  r2 = r2
  Sessions <- NoSession
  Requests <- OneRequest
  MaxConf = 2
  MaxReopen = 1
  OpenMayFail = FALSE
  ConfMayFail = FALSE
  QuietSetup = TRUE
INVARIANT
  ActiveLogRegistered
