SPECIFICATION FairSpec
CONSTANTS
  c1 = c1
  c2 = c2
  NoConn = NoConn
  MaxStops = 2
  MaxStarts = 1
  Conns <- TwoConns
  Events <- Undisturbed
CHECK_DEADLOCK FALSE
PROPERTIES ExpiredIsDropped AcceptedIsSettled ReinitHappens
