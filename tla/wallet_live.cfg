SPECIFICATION LiveSpec
VIEW MCView
CONSTANTS
  tx = tx
  note = note
  None = None
  Request = {tx}
  Chunks = 1
  Damaged = {}
  PageCount <- MCPageCount
  BodyChunks <- MCBodyChunks
  Unsupported = {}
  FreeForm <- MCFreeForm
  FailureLimit = 1
  AttemptWrap = 2
PROPERTIES
  CommittedIsTaken
  RestartIsAttempted
