CONSTANTS
  s1 = s1
  NumLayers <- MCNumLayers
  Signers <- MCSigners
  IterationsLimit <- MCIterationsLimit
  ChanCap <- MCChanCap

SPECIFICATION Spec

INVARIANTS
  TypeOK
  LimitRound
  ResultOrFailure

PROPERTIES
  InChargeReleased
  StopReturns
  NoCoinAfterClose

CHECK_DEADLOCK FALSE
