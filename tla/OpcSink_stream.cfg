SPECIFICATION FairSpec
CONSTANTS
  HeaderLen = 2
  BodyLen = 2
  Sockets = 2
  MaxPuts = 3
INVARIANTS
  TypeOK
  SentWhole
PROPERTIES
  ImplementsFrameFeed
  PutReturns
