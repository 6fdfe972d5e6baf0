SPECIFICATION SpecWithRestart
CONSTANTS
  NUM_PIXELS = 1
  Numbers <- RestartNumbers
  Garbage = Garbage
  None = None
INVARIANTS
  PythonKilledFirst
