SPECIFICATION FairSpec
CONSTANTS
  NUM_PIXELS = 2
  Numbers <- MainNumbers
  Garbage = Garbage
  None = None
INVARIANTS
  TypeOK
  MutexOwnsCritical
  RequestIntact
  OwnedByEffect
  FrameIndexInBounds
  NoStalePixels
  CleanEnd
PROPERTIES
  ImplementsCell
  RequestServed
  InterruptStops
