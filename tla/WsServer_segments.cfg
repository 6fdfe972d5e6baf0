SPECIFICATION Spec
CONSTANTS
  NoClient = NoClient
  KeyLen = 2
  busy = busy
  brief = brief
  Clients = {c1}
  Frames <- TwoFrames
  MaxFrames <- OneEach
  MaxPayload = 3
  MaxTries = 5
  Segmented = TRUE
INVARIANTS
  CommandGiven
