SPECIFICATION Spec
CONSTANTS
  Chains <- MCChains
  Requests <- MCRequests
  Specs <- MCSpecs
  MaxReads = 1
INVARIANTS
  TypeOK
  InRequestPreserved
  
  ChainSymmetry
  
  NothingLeft
PROPERTIES
  LeavingEndsRequest
