SPECIFICATION Spec
VIEW MCView
CONSTANTS
  tx = tx
  note = note
  None = None
  Request = {tx, note}
  Chunks = 1
  Damaged = {}
  PageCount <- MCPageCount
  BodyChunks <- MCBodyChunks
  Unsupported = {}
  FreeForm <- MCFreeForm
  FailureLimit = 1
  AttemptWrap = 2
INVARIANTS
  TypeOK
  RadioOnlyUnlocked
  DownMeansRestart
PROPERTIES
  UsesCalls
  ImplementsSession
