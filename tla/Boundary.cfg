CONSTANTS
  Rounds = 2
  Limit = 2
  RateWindow = 2
  MaxClients = 1
  MaxJumps = 2
  MaxLabels = 3
  MaxRecords = 2
  FlowCap = 2
  MaxScript = 5
  MaxTimes = 5
  MaxCells = 6
  MaxSegments = 5
  a = a
  b = b
  Chars = {a, b}
  MaxPattern = 3
  MaxPatterns = 3
  MaxText = 5
  s1 = s1
  s2 = s2
  r1 = r1
  r2 = r2
  Sources = {s1, s2}
  Requests = {r1, r2}
  Threshold = 2
  Window = 2
  BaseLockout = 2
  MaxLockout = 4
  MaxTracked = 1
  TicketTTL = 2
  MaxTime = 3
  MaxRequests = 4
  MaxTickets = 1
  d1 = d1
  d2 = d2
  o1 = o1
  o2 = o2
  i1 = i1
  i2 = i2
  Devices = {d1, d2}
  Operators = {o1, o2}
  Interfaces = {i1, i2}
  MaxPairings = 2
  QueueSize = 2
  RingSize = 2
  Backlog = 1
  MaxLines = 2
  MaxActs = 4
SPECIFICATION Spec
SYMMETRY Symmetry
INVARIANTS RecordsWhatWasSaid DecodingIsSound FindsAll EntryIsEarned  
CHECK_DEADLOCK FALSE
