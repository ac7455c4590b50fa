CONSTANTS
  a1 = a1
  a2 = a2
  k = k
  v1 = v1
  v2 = v2
  NONE = NONE
  Addr <- MCAddr
  Keys = {k}
  Vals <- MCVals
  MaxApps = 2
  MaxCalls = 4
  InitBalance = 2
  TxnGroups <- MCTxnGroups
SPECIFICATION Spec
CHECK_DEADLOCK FALSE
PROPERTY RejectedCallsChangeNothing
