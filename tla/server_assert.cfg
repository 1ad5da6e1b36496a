SPECIFICATION Spec
CONSTANTS
  Conn = {c1, c2, c3}
  Size = 2
  MaxReads = 1
  Failures = FALSE
INVARIANTS
  NoAssertFails
