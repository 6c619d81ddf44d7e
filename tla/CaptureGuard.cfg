CONSTANTS
  a = a
  Interfaces = {a}
  Selections = {{}, {a}}
  MaxStarts = 2
  MaxLate = 2
  NoWorker = NoWorker
  Kinds = {"cpu"}
  MaxCrashes = 1
SPECIFICATION Spec
INVARIANTS RunningIsSound StopIsComplete
CHECK_DEADLOCK FALSE
