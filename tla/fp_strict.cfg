SPECIFICATION Spec
\* need_preempt() may answer either way: release and DEBUG builds in one run
CONSTANTS
  PA = {p1, p2, p3}
  FA = {f1, f2, f3}
  TA = {t1, t2}
  Values = {v1}
  Errors = {e1}
  Preempt = {TRUE, FALSE}
  BreakPromises = FALSE
  Null = Null
  Pending = Pending
  Invalid = Invalid
SYMMETRY Symmetry
INVARIANTS
  TypeOK
  BackPointers
  AttachedOnce
  CanSettle
  OneLocation
  FutureIsUsable
  Anchored
PROPERTIES
  NoContinuationLost
CHECK_DEADLOCK FALSE
