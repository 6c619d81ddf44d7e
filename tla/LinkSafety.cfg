CONSTANTS
  c1 = c1
  c2 = c2
  Calls = {c1, c2}
  MaxLinks = 2
  MaxCrashes = 1
  NoLink = NoLink
SYMMETRY CallSymmetry
SPECIFICATION Spec
INVARIANTS AtMostOnce NobodyStranded OthersUnharmed
CHECK_DEADLOCK FALSE
