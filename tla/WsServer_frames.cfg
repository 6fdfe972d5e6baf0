SPECIFICATION FairSpec
CONSTANTS
  NoClient = NoClient
  KeyLen = 2
  busy = busy
  brief = brief
  Clients <- TwoClients
  Frames <- AllFrames
  MaxFrames <- TwoAndOne
  MaxPayload = 3
  MaxTries = 2
  Segmented = FALSE
INVARIANTS
  TypeOK
  
PROPERTIES
  ImplementsFeed
  NextAccepted
