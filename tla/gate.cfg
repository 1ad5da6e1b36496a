SPECIFICATION Spec
\* both builds: need_preempt() is false in release, true in DEBUG
CONSTANTS
  Op = {o1, o2, o3, o4}
  Preempt = {TRUE, FALSE}
INVARIANTS
  TypeOK
  CountExact
  ClosedWhenEmpty
  NoDanglingGate
PROPERTIES
  ConcludeEnds
