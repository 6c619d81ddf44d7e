CONSTANTS
  Builtin = {web}
  Custom = {dns}
  Tls = {web}
  Udp = {dns}
  Slots = 1
  BatchSize = 2
  MaxThreads = 2
  MaxStarts = 2
  MaxWork = 3
  None = None
SPECIFICATION Spec
INVARIANTS NobodyEscapes RunIsAccounted
CHECK_DEADLOCK FALSE
