SPECIFICATION FairSpec
CONSTANTS
  Body = {b1}
  MaxSequence = 1
  MaxFaults = 0
  Chunks = 1
  StackDepth = 2
  None = None
  Torn = Torn
  Other = Other
PROPERTY
  WakeRepaintsApp
