SPECIFICATION Spec
CONSTANTS
  BufferSize = 24
  Exchanges <- MCExchanges
  Cuts <- CutsInContent
  IntMax <- MCIntMax
  Octet = 16
  PortWord = 100
INVARIANTS
  ResponseExact
  RequestWhole
PROPERTIES
  Answers
CHECK_DEADLOCK FALSE
