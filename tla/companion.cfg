\* A batch and a relayed transaction, one transfer of the user's, one lost
\* connection and one failed write.  When all is answered nothing need happen.
CONSTANTS
  None = None
  calls = calls
  relay = relay
  message = message
  transfer = transfer
  Request = {calls, relay}
  Batch <- MCBatch
  Relayed <- MCRelayed
  Message = {}
  Transfer = {transfer}
  CallCount = 2
  MaxDrops = 1
  MaxErrors = 1
SPECIFICATION FairSpec
INVARIANTS TypeOK AnsweredOnce CalmAnswerIsOwn BatchIsWhole NotForgotten
 
CHECK_DEADLOCK FALSE
