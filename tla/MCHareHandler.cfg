CONSTANTS
  l1 = l1
  l2 = l2
  sA = sA
  v1 = v1
  v2 = v2
  v3 = v3
  NoValue = NoValue
  Layers <- MCLayers
  Senders <- MCSenders
  Values <- MCValues
  Msgs <- MCMsgs
SPECIFICATION Spec
INVARIANTS TypeOK EquivocatorFlagged
CHECK_DEADLOCK FALSE
