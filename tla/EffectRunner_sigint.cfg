SPECIFICATION FairSpec
CONSTANTS
  NUM_PIXELS = 1
  Numbers <- DemoNumbers
  Garbage = Garbage
  None = None
PROPERTIES
  InterruptHonoured
