\* A transfer and a dapp's request of each kind: what may a dapp be answered?
CONSTANTS
  None = None
  calls = calls
  relay = relay
  message = message
  transfer = transfer
  Request = {calls, relay, message}
  Batch <- MCBatch
  Relayed <- MCRelayed
  Message <- MCMessage
  Transfer = {transfer}
  CallCount = 2
  MaxDrops = 0
  MaxErrors = 0
SPECIFICATION Spec
INVARIANT AnswerIsOwn
CHECK_DEADLOCK FALSE
