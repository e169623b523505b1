SPECIFICATION FairSpec
CONSTANTS
  Image = {i1, i2, i3}
  Bad = Bad
  None = None
  Torn = Torn
  Blocks = 3
  MaxSeq = 8
  MaxFaults = 3
INVARIANTS
  TypeOK
  AlwaysBoots
  UpdateTakes
PROPERTIES
  UpdateRuns
  ImplementsSwitch
