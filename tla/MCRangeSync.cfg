CONSTANTS
  Keys <- MCKeys
  MaxSendRange = 2
  ItemChunkSize = 2
  SampleSize = 3
  MaxSampleSize = 1000
  MaxRounds = 6
SPECIFICATION Spec
CHECK_DEADLOCK FALSE
INVARIANTS
  TypeOK
  Reconciled
  NoHashSentTwice
  ProbeSimilarity
PROPERTIES
  Terminates
