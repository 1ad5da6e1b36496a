SPECIFICATION Spec
CONSTANTS
  Conn = {c1, c2, c3, c4}
  Size = 3
  MaxReads = 1
  Failures = TRUE
SYMMETRY Symmetry
INVARIANTS
  TypeOK
  OutstandingExact
  OneAccept
PROPERTIES
  StagesInOrder
  ShutdownDrains
CHECK_DEADLOCK FALSE
