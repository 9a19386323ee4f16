SPECIFICATION FairSpec
CONSTANTS
  BufferSize = 2
  SourceSize = 2
  SinkSize = 1
  MaxBytes <- Bytes
  MaxLogs = 1
INVARIANTS
  InOrder
  NoInputForgotten
PROPERTIES
  Delivered
