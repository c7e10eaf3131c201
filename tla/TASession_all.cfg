SPECIFICATION Spec
CONSTANTS
  c1 = c1
  c2 = c2
  NoConn = NoConn
  MaxStops = 2
  MaxStarts = 1
  Conns <- OneConn
  Events <- AllEvents
SYMMETRY Symmetry
CHECK_DEADLOCK FALSE
INVARIANTS TypeOK ReadyMeansFree NoOrphan
