SPECIFICATION Spec
CONSTANTS
  BufferSize <- MCSize
  Streams <- MCStreams
INVARIANTS
  IInv
PROPERTIES
  ReadsTheStream
  ViewsStay
