CONSTANTS
  W = 8
  MaxConcat = 2
  StackLimit = 3
  ScratchSize = 1
  NRefs = 6
  IntCBlock <- MCIntCBlock
  ByteCBlock <- MCByteCBlock
  MaxSteps = 7
  AppId = 1
  Gtxs <- MCGtxs
  CurTx = 1
  Args <- MCArgs
  Sender <- MCSender
  GlobalSchema <- MCGlobalSchema
  LocalSchema <- MCLocalSchema
  OptIns = {FALSE, TRUE}
  Instrs <- InPlaceAppTxnInstrs
SPECIFICATION Spec
INVARIANT TypeOK
PROPERTY ImplementsTealSpec
CHECK_DEADLOCK FALSE
