SPECIFICATION Spec
CONSTANTS
  c1 = c1
  c2 = c2
  s1 = s1
  s2 = s2
  r1 = r1
  NoConn = NoConn
  Conns <- OneConn
  Readers <- OneReader
  Status <- OneState
  Events = {"files", "install", "expire"}
CHECK_DEADLOCK FALSE
INVARIANTS TypeOK Framed
