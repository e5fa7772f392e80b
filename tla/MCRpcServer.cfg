SPECIFICATION RpcSpec
CONSTANTS
  c1 = c1
  c2 = c2
  f1 = f1
  s1 = s1
  s2 = s2
  Conn <- TwoConns
  Forcer <- OneForcer
  Stopper <- OneStopper
  Limit = 2
INVARIANTS
  ClosedIsReleased
  CallsAnswered
PROPERTIES
  ServerReturns
  HandlersEnd
CHECK_DEADLOCK FALSE
