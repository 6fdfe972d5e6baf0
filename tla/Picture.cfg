SPECIFICATION Spec
CONSTANTS
  GRID_WIDTH = 3
  GRID_HEIGHT = 2
  BuffWidth = 6
  ShadeFrom = 3
  ShadeTo = 5
  NUM_STRIPS = 2
  strip_size <- MCStripSize
  NUM_PIXELS = 3
  Maps <- MCMaps
  MaxGeoRows = 4
  Unknown = Unknown
  Garbage = Garbage
  DrawnBy <- MCEffects
  MaxFrames = 12
  MaxSwitches = 2
INVARIANTS
  TypeOK
  LoadedInPlace
  PictureShown
  ScrollerOnTape
CHECK_DEADLOCK FALSE
