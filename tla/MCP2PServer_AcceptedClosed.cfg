CONSTANTS
  s1 = s1
  s2 = s2
  NoStream = NoStream
  Streams <- MCStreams
  QueueSize <- MCQueueSize
SPECIFICATION Spec

PROPERTY AcceptedClosed
CHECK_DEADLOCK FALSE
