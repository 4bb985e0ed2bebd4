SPECIFICATION Spec
CONSTANTS
  s1 = s1
  r1 = r1
  r2 = r2
  Sessions <- OneSession
  Requests <- OneRequest
  MaxConf = 3
  MaxReopen = 2
  OpenMayFail = TRUE
  ConfMayFail = TRUE
  QuietSetup = TRUE
INVARIANTS
  TypeOK
  EachWriterOnce
  
  
  OldLogReleased

  
