SPECIFICATION FairSpec
CONSTANTS
  c1 = c1
  c2 = c2
  s1 = s1
  s2 = s2
  r1 = r1
  NoConn = NoConn
  Conns <- OneConn
  Readers <- NoReader
  Status <- OneState
  Events = {"frames", "lag"}
CHECK_DEADLOCK FALSE
INVARIANT LocksInOrder
PROPERTY EveryWaitEnds
