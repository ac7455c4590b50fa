CONSTANTS
  a1 = a1
  a2 = a2
  k1 = k1
  k2 = k2
  v = v
  NONE = NONE
  Addr <- MCAddr
  Apps = {1}
  Keys <- MCKeys
  Vals = {v}
  GSchema = 1
  LSchema = 1
  OptedIn = {a1}
  MaxCalls = 3
  MaxPending = 1
  Requests <- MCRequests
  InitAmount <- MCInitAmount
SPECIFICATION Spec
INVARIANT TypeOK
PROPERTY ImplementsAtomicExecuteTx
CHECK_DEADLOCK FALSE
