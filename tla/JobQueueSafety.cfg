CONSTANTS
  r1 = r1
  w1 = w1
  Reads = {r1}
  Writes = {w1}
  Limit = 1
  HandlerResults = {"ok", "big"}
  StoreMayFail = TRUE
  MaxRestarts = 1
  MaxOld = 1
  MayShutdown = TRUE
  Sentinel = Sentinel
SPECIFICATION Spec
INVARIANTS PoolIsWhole TasksAddUp AnsweredLeavesNothing RowsAreTrue NoJobDropped
PROPERTIES SettledOnce
CHECK_DEADLOCK FALSE
