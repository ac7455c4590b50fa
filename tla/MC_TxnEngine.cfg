CONSTANTS
  a1 = a1
  a2 = a2
  NoAddr = NoAddr
  NONE = NONE
  Addr <- MCAddr
  AssetIds <- MCAssets
  Apps <- MCApps
  Keys = {k}
  Vals = {v}
  Creator = a1
  Supply = 2
  InitBalance = 4
  BaseMin = 1
  OptInMin = 1
  MaxGroupSize = 2
  TxnSet <- MCTxnSet
SPECIFICATION Spec
INVARIANT TypeOK AppRegistryConsistent HoldingsOfLiveAssets NoAlgoMinted NoAssetMinted
PROPERTY NoUnauthorizedDebit ClearAlwaysFrees MinBalanceKept
