SPECIFICATION FairSpec
CONSTANTS
  Activity = {a1, a2, a3, a4}
  MaxStack = 2
  None = None
INVARIANTS
  OwnedOnce
  HandlerGetsItsChild
  WaitIsSound
PROPERTY
  UpdateIsDrawn
