SPECIFICATION Spec
CONSTANTS
  c1 = c1
  c2 = c2
  NoConn = NoConn
  MaxStops = 2
  MaxStarts = 1
  Conns <- TwoConns
  Events <- Undisturbed
SYMMETRY Symmetry
CHECK_DEADLOCK FALSE
PROPERTY RejectMeansBusy
