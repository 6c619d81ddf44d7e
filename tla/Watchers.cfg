CONSTANTS
  MaxRestarts = 2
  Window = 2
  MaxTime = 3
  MaxSpawns = 4
  NoChild = NoChild
  j1 = j1
  j2 = j2
  h1 = h1
  p1 = p1
  p2 = p2
  w1 = w1
  w2 = w2
  Jobs = {j1, j2}
  Hosts = {h1}
  ScanPorts = {p1, p2}
  Owners = {w1, w2}
  AlarmWindow = 2
  AlarmThreshold = 2
  MaxClock = 3
  MaxPackets = 3
  a1 = a1
  a2 = a2
  Launchers = {a1, a2}
  MaxLaunches = 3
  MaxKeys = 4
  MaxDues = 1
  Backups = {0, 1, 3}
  Ages = {0, 1}
  MaxGenerations = 4
  MaxSettings = 2
  MaxBreaks = 1
  LastDay = 2
SPECIFICATION Spec
INVARIANTS NoOrphan TokenHandover HoldingBackIsSafe TrustSurvives LogsAreKept
PROPERTIES LeaseKept
CHECK_DEADLOCK FALSE
