SPECIFICATION Spec
CONSTANTS
  p1 = p1
  p2 = p2
  p3 = p3
  k1 = k1
  k2 = k2
  Callers <- Three
  Keys <- TwoKeys
  KeysAsked <- MCKeysAsked
  MaxClears = 1
INVARIANTS
  TypeOK
  FetchesBounded
PROPERTIES
  WaitersServed
CHECK_DEADLOCK FALSE
