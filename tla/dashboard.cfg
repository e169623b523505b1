SPECIFICATION FairSpec
CONSTANTS
  Body = {b1}
  MaxSequence = 2
  MaxFaults = 2
  Chunks = 1
  StackDepth = 1
  None = None
  Torn = Torn
  Other = Other
INVARIANTS
  TypeOK
  AckedSurvives
  RamIsStored
  AcknowledgedIsStored
  SavedCameWhole
  SleepScreenIsStored
PROPERTY
  AutomaticWakeEnds
VIEW MCView
