SPECIFICATION FairSpec
CONSTANTS
  NUM_PIXELS = 2
  NoValue = NoValue
  NoAttribute = NoAttribute
  NoJson = NoJson
  MissingFile = MissingFile
  Weathers <- MCWeathers
  Disks <- MCDisks
  BufferRoom = 3
  MaxProcesses = 1
  MaxSwitches = 1
PROPERTIES
  FailureDrawsNothing
CHECK_DEADLOCK FALSE
