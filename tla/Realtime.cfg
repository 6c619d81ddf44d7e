CONSTANTS
  c1 = c1
  Clients = {c1}
  QueueLimit = 2
  SinkLimit = 1
  MaxActs = 4
SPECIFICATION RealtimeFairSpec
INVARIANTS ClientsMissNothing
PROPERTIES ForgottenEnds
CHECK_DEADLOCK FALSE
