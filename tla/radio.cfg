SPECIFICATION RadioSpec
CONSTANTS
  sound = sound
  torn = torn
  None = None
  Request = {sound, torn}
  Chunks = 2
  Damaged <- MCDamaged
INVARIANTS
  RadioTypeOK
  TransferHasNoHoles
  ReadyIsWhole
  ApprovedIsSigned
