SPECIFICATION Spec
CONSTANTS
  c1 = c1
  c2 = c2
  NoConn = NoConn
  MaxStops = 2
  MaxStarts = 2
  Conns <- TwoConns
  Events <- StartFailures
SYMMETRY Symmetry
CHECK_DEADLOCK FALSE
INVARIANTS OneClient TempSockOwned ClientSockOwned
PROPERTIES ServesOne RebootsStopped
