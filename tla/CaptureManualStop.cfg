CONSTANTS
  a = a
  Interfaces = {a}
  Selections = {{}}
  MaxStarts = 2
  MaxLate = 0
  NoWorker = NoWorker
  Kinds = {"cpu"}
  MaxCrashes = 0
SPECIFICATION HistorySpec
PROPERTY ManualStopHolds
CHECK_DEADLOCK FALSE
