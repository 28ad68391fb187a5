CONSTANTS
  s1 = s1
  s2 = s2
  NoStream = NoStream
  Streams <- MCStreams
  QueueSize <- MCQueueSize
SPECIFICATION Spec
INVARIANTS TypeOK SlotsAccounted ClientClosedOnReturn
PROPERTIES RunReturns StartedClosed ClientReturns AnswerLostOnlyToTimeout
CHECK_DEADLOCK FALSE
