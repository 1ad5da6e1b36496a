SPECIFICATION Spec
CONSTANTS
  Task = {t1, t2, t3, t4}
  MaxIO = 2
  MaxReports = 1
INVARIANTS
  TypeOK
  NoStrandedTask
  RunDrains
  EachOnce
  NestsInClientCode
PROPERTIES
  ImplementsRunner
  Drains
