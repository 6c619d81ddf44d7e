CONSTANTS
  n1 = n1
  n2 = n2
  i1 = i1
  i2 = i2
  m1 = m1
  m2 = m2
  Names = {n1, n2}
  Ips = {i1, i2}
  Macs = {m1, m2}
  MaxPending = 1
  KeepFactor = 2
  StateLimit = 2
  MaxRows = 1
  MaxSeen = 3
  MaxTrouble = 3
  o1 = o1
  o2 = o2
  b1 = b1
  c1 = c1
  e1 = e1
  l1 = l1
  s1 = s1
  s2 = s2
  f1 = f1
  f2 = f2
  Operators = {o1, o2}
  Starters = {s1, s2}
  Refreshers = {f1, f2}
  BuiltinIds = {b1}
  CustomIds = {c1}
  EntryIds = {e1}
  Literals = {l1}
  MaxChanges = 3
  MaxSeeds = 2
  MaxLoads = 2
  MaxSecond = 2
  r1 = r1
  Remotes = {r1}
  RetentionDays = 1
  AlertDays = 2
  PacketLimit = 1
  TagLimit = 3
  SessionLimit = 1
  MaxStored = 2
  MaxDay = 2
  MaxTurns = 3
SPECIFICATION Spec
INVARIANTS HistoryIsTrue DecisionsStay MirrorInStep CacheIsHonest TagsBelong AlertsOutlive
CHECK_DEADLOCK FALSE
