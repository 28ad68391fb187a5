CONSTANTS
  c1 = c1
  c2 = c2
  a1 = a1
  a2 = a2
  a3 = a3
  n1 = n1
  n2 = n2
  b1 = b1
  b2 = b2
  NoSet = NoSet
  NoBeacon = NoBeacon
  Missing = Missing
  Callers <- MCCallers
  Calls <- MCCalls
  Atxs <- MCAtxs
  Nodes <- MCNodes
  AtxNode <- MCAtxNode
  AtxWeight <- MCAtxWeight
  AtxKnown <- MCAtxKnown
  Ballots <- MCBallots
  FirstBlock <- MCFirstBlock
  Beacon <- MCBeacon
  FallbackSets <- MCFallbackSets
  Epochs <- MCEpochs
  LayersPerEpoch = 2
  EffectiveGenesis = 1
  ConfidenceParam = 1
  CacheSize = 1
  MaxSupportedN = 3
  FracDen = 4

SPECIFICATION Spec

INVARIANTS
  TypeOK
  OneActiveSet
  EligibilityAgreement
