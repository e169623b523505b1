SPECIFICATION Spec
CONSTANTS
  tx = tx
  note = note
  None = None
  Request = {tx}
  Chunks = 2
  Damaged = {}
  PageCount <- MCPageCount
  BodyChunks <- MCBodyChunks
  Unsupported = {}
  FreeForm <- MCFreeForm
  FailureLimit = 1
  AttemptWrap = 2
INVARIANT SignedWasDisplayed
