CONSTANTS
  a = a
  b = b
  Interfaces = {a, b}
  Selections = {{}, {a}}
  MaxStarts = 3
  MaxLate = 1
  NoWorker = NoWorker
  Kinds = {}
  MaxCrashes = 0
SPECIFICATION Spec
INVARIANTS ReadyIsAlive SelectionIsStored
PROPERTIES ReportIsVerified
CHECK_DEADLOCK FALSE
