SPECIFICATION Spec
CONSTANTS
  c1 = c1
  c2 = c2
  s1 = s1
  s2 = s2
  r1 = r1
  NoConn = NoConn
  Conns <- TwoConns
  Readers <- NoReader
  Status <- TwoStates
  Events = {"files", "frames"}
SYMMETRY Symmetry
CHECK_DEADLOCK FALSE
INVARIANTS Framed StateKnown
PROPERTIES ServesOne WholeFrame
