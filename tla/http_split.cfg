SPECIFICATION Spec
CONSTANTS
  BufferSize = 64
  Exchanges <- OneExchange
  Cuts <- CutsAnywhere
  IntMax <- MCIntMax
  Octet = 16
  PortWord = 100
INVARIANTS
  ResponseExact
CHECK_DEADLOCK FALSE
