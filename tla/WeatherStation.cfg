SPECIFICATION FairSpec
CONSTANTS
  NUM_PIXELS = 2
  NoValue = NoValue
  NoAttribute = NoAttribute
  NoJson = NoJson
  MissingFile = MissingFile
  Weathers <- MCWeathers
  Disks <- MCDisks
  BufferRoom = 3
  MaxProcesses = 2
  MaxSwitches = 2
INVARIANTS
  TypeOK
  Lockstep
  LogKept
  ShownAsMeasured
  LapShown
  SunShown
PROPERTIES
  Redrawn
CHECK_DEADLOCK FALSE
