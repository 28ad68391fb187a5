CONSTANTS
  a1 = a1
  a2 = a2
  none = none
  Accounts <- MCAccounts
  Txs <- MCTxs
  NoDest <- none
  InitBalance <- MCInitBalance
  MaxTXsPerAcct <- MCMaxTXsPerAcct
  NumLayers <- MCNumLayers
  MaxReverts <- MCMaxReverts
  MaxRevertDepth <- MCMaxRevertDepth

SPECIFICATION Spec

INVARIANT LinkedTagged

CHECK_DEADLOCK FALSE
