CONSTANTS
  MaxPackets = 3
  j1 = j1
  j2 = j2
  Jobs = {j1, j2}
  MaxHands = 1
  BatchMax = 2
  MaxAttempts = 2
  CacheLimits = {1, 2}
  MaxResets = 1
SYMMETRY JobSymmetry
SPECIFICATION Spec
INVARIANTS EveryPacketCounts StoredOnce
CHECK_DEADLOCK FALSE
