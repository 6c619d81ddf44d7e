CONSTANTS
  r1 = r1
  w1 = w1
  Reads = {r1}
  Writes = {w1}
  Limit = 1
  HandlerResults = {"ok"}
  StoreMayFail = FALSE
  MaxRestarts = 0
  MaxOld = 0
  MayShutdown = FALSE
  Sentinel = Sentinel
SPECIFICATION FairSpec
PROPERTIES ReadsAreAnswered RunningIsSettled
CHECK_DEADLOCK FALSE
