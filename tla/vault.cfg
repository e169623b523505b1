SPECIFICATION Spec
CONSTANTS
  k1 = k1
  k2 = k2
  k3 = k3
  p1 = p1
  p2 = p2
  Key = {k1, k2, k3}
  Pin = {p1, p2}
  NoKey = NoKey
  NoPin = NoPin
  NoRecord = NoRecord
  Faults <- MCFaults
SYMMETRY MCSymmetry
INVARIANTS
  TypeOK
  KeyIsKept
  KnownPinOpens
  RamIsSession
  CachedIsWallet
  OpenIsSealed
PROPERTY ImplementsContract
