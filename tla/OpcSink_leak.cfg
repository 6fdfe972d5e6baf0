SPECIFICATION Spec
CONSTANTS
  HeaderLen = 2
  BodyLen = 2
  Sockets = 2
  MaxPuts = 3
INVARIANTS
  SinkIffOpen
