----------------------------- MODULE WalletRadio -----------------------------
(***************************************************************************)
(* The wallet's Bluetooth service, lib/hal/HalBleEvmWallet.cpp.            *)
(*                                                                         *)
(* Two tasks share its file-scope state: the NimBLE host task runs the     *)
(* connection and characteristic callbacks, the main loop calls begin,     *)
(* end, takeRequest, approve and reject.  The host task has the higher     *)
(* priority of the two on a single core, so a callback is one action,      *)
(* while a call of the main loop is a sequence of actions (the variable    *)
(* `call' says how far it has come) between which callbacks may run.       *)
(*                                                                         *)
(* A request travels in Chunks data writes.  Its wire image is a function  *)
(* from chunk numbers to the request the chunk came from, None standing    *)
(* for zeroed bytes.  The first chunk carries the request id.              *)
(***************************************************************************)
EXTENDS Integers

CONSTANTS
  Request,   \* the requests phones may send
  Chunks,    \* data writes that make up one request
  Damaged,   \* requests whose frame does not pass validateRequest
  None       \* zeroed bytes, request id 0

ASSUME RadioAssumption ==
  /\ Chunks \in Nat \ {0}
  /\ Damaged \subseteq Request
  /\ None \notin Request

VARIABLES
  walletState, walletError,  \* what publishStatus reports
  passkey,                   \* pairingPasskey() # 0
  active,                    \* begin() has completed and end() has not begun
  requestReady,              \* a committed request waits for takeRequest
  receivedBytes,             \* data writes accepted since Begin
  currentRequestId,
  staging,                   \* stagingRequest
  signedDigest,              \* signedDigest and signedResult, written together
  status,                    \* value of the status characteristic
  link,                      \* the connection, as the host task knows it
  advertising,
  call,                      \* progress of the main loop inside this service
  answer,                    \* arguments of the approve or reject under way
  draft                      \* state that publishStatus has already read

hostVars  == <<link, advertising>>
sharedVars == <<walletState, walletError, passkey, active, requestReady,
                receivedBytes, currentRequestId, staging, signedDigest, status>>
callVars  == <<call, answer, draft>>
radioVars == <<walletState, walletError, passkey, active, requestReady,
               receivedBytes, currentRequestId, staging, signedDigest, status,
               link, advertising, call, answer, draft>>

Chunk == 1 .. Chunks
Image == [Chunk -> Request \cup {None}]
Blank == [i \in Chunk |-> None]
WalletState == {"Stopped", "Advertising", "Connected", "Pairing", "Receiving",
                "ReviewReady", "Approved", "Rejected", "Error"}
\* "Refused" stands for every WalletError but None and RadioFailure: the code
\* never branches on which one it is.
WalletError == {"None", "Refused", "RadioFailure"}
RequestId(image) == image[1]

\* approve carries a digest; reject with no error is the user's.
Approval  == [id : Request, state : {"Approved"}, error : {"None"}, digest : Image \ {Blank}]
Rejection == [id : Request \cup {None}, state : {"Rejected"}, error : {"None"}, digest : {Blank}]
             \cup [id : Request \cup {None}, state : {"Error"}, error : {"Refused"},
                   digest : {Blank}]
Answer == Approval \cup Rejection
Status == [state : WalletState, id : Request \cup {None}, digest : Image]

\* What WalletRadio's variables may hold.
RadioTypeOK ==
  /\ walletState \in WalletState
  /\ walletError \in WalletError
  /\ passkey \in BOOLEAN
  /\ active \in BOOLEAN
  /\ requestReady \in BOOLEAN
  /\ receivedBytes \in 0 .. Chunks
  /\ currentRequestId \in Request \cup {None}
  /\ staging \in Image
  /\ signedDigest \in Image
  /\ status \in Status
  /\ link \in {"none", "open", "trusted", "closing"}
  /\ advertising \in BOOLEAN
  /\ call \in {"idle", "begun", "ending", "taking", "answering", "answered",
               "signed", "publishing", "writing"}
  /\ answer \in Answer
  /\ draft \in WalletState

NoAnswer == [id |-> None, state |-> "Error", error |-> "Refused", digest |-> Blank]

RadioInit ==
  /\ walletState = "Stopped" /\ walletError = "None"
  /\ passkey = FALSE /\ active = FALSE /\ requestReady = FALSE
  /\ receivedBytes = 0 /\ currentRequestId = None
  /\ staging = Blank /\ signedDigest = Blank
  /\ status = [state |-> "Stopped", id |-> None, digest |-> Blank]
  /\ link = "none" /\ advertising = FALSE
  /\ call = "idle" /\ answer = NoAnswer /\ draft = "Stopped"

-----------------------------------------------------------------------------
(* Parts shared by the callbacks. *)

\* The stack is up from the start of advertising inside begin() until
\* deinit() inside end().
HostRunning == active \/ call \in {"begun", "ending"}

\* publishStatus, run to the end by the host task.
Publish == status' = [state  |-> walletState', id |-> currentRequestId',
                      digest |-> signedDigest']

Fail(error) ==
  /\ walletError' = error
  /\ walletState' = "Error"
  /\ requestReady' = FALSE

ValidateRequest(image) ==
  \E r \in Request \ Damaged : image = [i \in Chunk |-> r]

-----------------------------------------------------------------------------
(* Callbacks of the NimBLE host task. *)

OnConnect ==
  /\ HostRunning /\ advertising /\ link = "none"
  /\ link' = "open" /\ advertising' = FALSE
  /\ walletState' = "Connected" /\ walletError' = "None"
  /\ UNCHANGED <<passkey, active, requestReady, receivedBytes,
                 currentRequestId, staging, signedDigest, callVars>>
  /\ Publish

\* The phone went out of range, closed the connection or was disconnected.
\* Outside begin()..end() the callback only forgets the passkey; otherwise it
\* advertises again, which may fail.
OnDisconnect ==
  /\ HostRunning /\ link # "none"
  /\ link' = "none" /\ passkey' = FALSE
  /\ UNCHANGED <<active, receivedBytes, currentRequestId, staging,
                 signedDigest, callVars>>
  /\ \/ /\ ~active
        /\ UNCHANGED <<walletState, walletError, requestReady, status, advertising>>
     \/ /\ active
        /\ walletState' = "Advertising" /\ advertising' = TRUE
        /\ UNCHANGED <<walletError, requestReady>>
        /\ Publish
     \/ /\ active
        /\ Fail("RadioFailure")
        /\ UNCHANGED advertising
        /\ Publish

OnPassKeyDisplay ==
  /\ HostRunning /\ link = "open"
  /\ passkey' = TRUE /\ walletState' = "Pairing"
  /\ UNCHANGED <<walletError, active, requestReady, receivedBytes,
                 currentRequestId, staging, signedDigest, hostVars, callVars>>
  /\ Publish

\* authorizeOrAdopt accepts the trusted phone (or adopts the first one) and
\* refuses any other, which is then disconnected.
OnAuthenticationComplete ==
  /\ HostRunning /\ link = "open"
  /\ passkey' = FALSE
  /\ UNCHANGED <<active, receivedBytes, currentRequestId, staging, signedDigest,
                 advertising, callVars>>
  /\ \/ /\ link' = "trusted"
        /\ walletState' = "Connected" /\ walletError' = "None"
        /\ UNCHANGED requestReady
     \/ /\ link' = "closing"
        /\ Fail("RadioFailure")
  /\ Publish

\* A control or data write on a connection isAuthorized refuses.
UnauthorizedWrite ==
  /\ HostRunning /\ link \in {"open", "closing"}
  /\ link' = "closing"
  /\ Fail("RadioFailure")
  /\ UNCHANGED <<passkey, active, receivedBytes, currentRequestId, staging,
                 signedDigest, advertising, callVars>>
  /\ Publish

\* An accepted phone's write that the callbacks turn down: an empty or unknown
\* command, a command or chunk of the wrong size, a chunk outside a transfer.
RefuseWrite ==
  /\ Fail("Refused")
  /\ UNCHANGED <<passkey, active, receivedBytes, currentRequestId, staging,
                 signedDigest, hostVars, callVars>>
  /\ Publish

MalformedWrite == HostRunning /\ link = "trusted" /\ RefuseWrite

\* Mutants: Begin leaves the staging area, or the flag, as it was.
MutantBeginKeepsStaging ==
  /\ HostRunning /\ link = "trusted"
  /\ requestReady' = FALSE
  /\ currentRequestId' = None /\ receivedBytes' = 0
  /\ walletError' = "None" /\ walletState' = "Receiving"
  /\ UNCHANGED <<passkey, active, staging, signedDigest, hostVars, callVars>>
  /\ Publish

MutantBeginKeepsFlag ==
  /\ HostRunning /\ link = "trusted"
  /\ staging' = Blank
  /\ currentRequestId' = None /\ receivedBytes' = 0
  /\ walletError' = "None" /\ walletState' = "Receiving"
  /\ UNCHANGED <<passkey, active, requestReady, signedDigest, hostVars, callVars>>
  /\ Publish

ControlBegin ==
  /\ HostRunning /\ link = "trusted"
  /\ staging' = Blank
  /\ requestReady' = FALSE
  /\ currentRequestId' = None
  /\ receivedBytes' = 0
  /\ walletError' = "None" /\ walletState' = "Receiving"
  /\ UNCHANGED <<passkey, active, signedDigest, hostVars, callVars>>
  /\ Publish

CanCommit == walletState = "Receiving" /\ receivedBytes = Chunks

ControlCommit ==
  /\ HostRunning /\ link = "trusted"
  /\ IF CanCommit /\ ValidateRequest(staging)
     THEN /\ currentRequestId' = RequestId(staging)
          /\ requestReady' = TRUE
          /\ walletState' = "ReviewReady"
          /\ UNCHANGED <<walletError, passkey, active, receivedBytes, staging,
                         signedDigest, hostVars, callVars>>
          /\ Publish
     ELSE RefuseWrite

ControlCancel ==
  /\ HostRunning /\ link = "trusted"
  /\ requestReady' = FALSE
  /\ walletState' = "Connected" /\ walletError' = "None"
  /\ UNCHANGED <<passkey, active, receivedBytes, currentRequestId, staging,
                 signedDigest, hostVars, callVars>>
  /\ Publish

\* Mutant: a chunk may run past the end of the staging area.
MutantDataUnbounded(r, offset) ==
  /\ HostRunning /\ link = "trusted"
  /\ IF walletState = "Receiving" /\ offset = receivedBytes
     THEN /\ staging' = [staging EXCEPT ![offset + 1] = r]
          /\ receivedBytes' = receivedBytes + 1
          /\ UNCHANGED <<walletState, walletError, passkey, active, requestReady,
                         currentRequestId, signedDigest, hostVars, callVars>>
          /\ Publish
     ELSE RefuseWrite

\* The chunk of request r that belongs at `offset', whatever the transfer
\* expects next.
DataWrite(r, offset) ==
  /\ HostRunning /\ link = "trusted"
  /\ IF walletState = "Receiving" /\ offset = receivedBytes /\ offset < Chunks
     THEN /\ staging' = [staging EXCEPT ![offset + 1] = r]
          /\ receivedBytes' = receivedBytes + 1
          /\ UNCHANGED <<walletState, walletError, passkey, active, requestReady,
                         currentRequestId, signedDigest, hostVars, callVars>>
          /\ Publish
     ELSE RefuseWrite

HostStep ==
  \/ OnConnect \/ OnDisconnect \/ OnPassKeyDisplay \/ OnAuthenticationComplete
  \/ UnauthorizedWrite \/ MalformedWrite
  \/ ControlBegin \/ ControlCommit \/ ControlCancel
  \/ \E r \in Request, offset \in 0 .. Chunks : DataWrite(r, offset)

-----------------------------------------------------------------------------
(* Calls of the main loop. *)

\* begin() up to the start of advertising.  `ok' is whether every step of the
\* stack's initialisation succeeded.  No callback can run before.
Begin(ok) ==
  /\ call = "idle"
  /\ IF active
     THEN ok /\ UNCHANGED radioVars
     ELSE /\ signedDigest' = Blank
          /\ passkey' = FALSE /\ requestReady' = FALSE
          /\ receivedBytes' = 0 /\ currentRequestId' = None
          /\ status' = [state |-> "Stopped", id |-> None, digest |-> Blank]
          /\ walletState' = IF ok THEN "Stopped" ELSE "Error"
          /\ walletError' = IF ok THEN "None" ELSE "RadioFailure"
          /\ advertising' = ok
          /\ link' = "none"
          /\ call' = IF ok THEN "begun" ELSE "idle"
          /\ UNCHANGED <<active, staging, answer, draft>>

\* The last stores of begin(), after which it publishes.
BeginActive ==
  /\ call = "begun"
  /\ active' = TRUE
  /\ walletState' = "Advertising"
  /\ call' = "publishing"
  /\ UNCHANGED <<walletError, passkey, requestReady, receivedBytes,
                 currentRequestId, staging, signedDigest, status, hostVars,
                 answer, draft>>

\* end() returns at once when the stack is down, and otherwise clears `active'
\* and stops advertising before deinit().
End ==
  /\ call = "idle"
  /\ IF ~active
     THEN UNCHANGED radioVars
     ELSE /\ active' = FALSE
          /\ advertising' = FALSE
          /\ call' = "ending"
          /\ UNCHANGED <<walletState, walletError, passkey, requestReady,
                         receivedBytes, currentRequestId, staging, signedDigest,
                         status, link, answer, draft>>

\* deinit() has returned: no callback runs any more.
EndStopped ==
  /\ call = "ending"
  /\ link' = "none"
  /\ requestReady' = FALSE
  /\ passkey' = FALSE
  /\ walletState' = "Stopped"
  /\ status' = [state |-> "Stopped", id |-> None, digest |-> Blank]
  /\ call' = "idle"
  /\ UNCHANGED <<walletError, active, receivedBytes, currentRequestId, staging,
                 signedDigest, advertising, answer, draft>>

\* takeRequest: the exchange of the flag.  The copy is a separate step of the
\* caller, TakeCopy below.
TakeExchange ==
  /\ call = "idle" /\ requestReady
  /\ requestReady' = FALSE
  /\ call' = "taking"
  /\ UNCHANGED <<walletState, walletError, passkey, active, receivedBytes,
                 currentRequestId, staging, signedDigest, status, hostVars,
                 answer, draft>>

\* The critical section of takeRequest; the caller stores `staging'.
TakeCopy ==
  /\ call = "taking"
  /\ call' = "idle"
  /\ UNCHANGED <<sharedVars, hostVars, answer, draft>>

\* approve and reject begin by storing the request id ...
StartAnswer(a) ==
  /\ call = "idle"
  /\ call' = "answering"
  /\ answer' = a
  /\ UNCHANGED <<sharedVars, hostVars, draft>>

AnswerId ==
  /\ call = "answering"
  /\ currentRequestId' = answer.id
  /\ call' = "answered"
  /\ UNCHANGED <<walletState, walletError, passkey, active, requestReady,
                 receivedBytes, staging, signedDigest, status, hostVars,
                 answer, draft>>

\* Mutant: the state is stored before the digest.
MutantStateFirst ==
  /\ call = "answered" /\ answer.state = "Approved"
  /\ walletState' = "Approved"
  /\ call' = "signed"
  /\ UNCHANGED <<walletError, passkey, active, requestReady, receivedBytes,
                 currentRequestId, staging, signedDigest, status, hostVars,
                 answer, draft>>

\* ... then approve copies the digest and signature ...
AnswerDigest ==
  /\ call = "answered" /\ answer.state = "Approved"
  /\ signedDigest' = answer.digest
  /\ call' = "signed"
  /\ UNCHANGED <<walletState, walletError, passkey, active, requestReady,
                 receivedBytes, currentRequestId, staging, status, hostVars,
                 answer, draft>>

\* ... and both store the error and the state.
AnswerState ==
  /\ call = (IF answer.state = "Approved" THEN "signed" ELSE "answered")
  /\ walletError' = answer.error
  /\ walletState' = answer.state
  /\ call' = "publishing"
  /\ UNCHANGED <<passkey, active, requestReady, receivedBytes, currentRequestId,
                 staging, signedDigest, status, hostVars, answer, draft>>

\* publishStatus on the main loop: the state is read first, the rest later.
PublishRead ==
  /\ call = "publishing"
  /\ draft' = walletState
  /\ call' = "writing"
  /\ UNCHANGED <<sharedVars, hostVars, answer>>

PublishWrite ==
  /\ call = "writing"
  /\ status' = IF HostRunning
               THEN [state |-> draft, id |-> currentRequestId, digest |-> signedDigest]
               ELSE status
  /\ call' = "idle" /\ answer' = NoAnswer /\ draft' = "Stopped"
  /\ UNCHANGED <<walletState, walletError, passkey, active, requestReady,
                 receivedBytes, currentRequestId, staging, signedDigest, hostVars>>

\* The steps of a call that follow whatever the caller does.
CallStep == BeginActive \/ EndStopped \/ AnswerId \/ AnswerDigest \/ AnswerState
            \/ PublishRead \/ PublishWrite

\* The service under any caller that finishes one call before the next.
RadioNext ==
  \/ HostStep
  \/ CallStep
  \/ \E ok \in BOOLEAN : Begin(ok)
  \/ End
  \/ TakeExchange \/ TakeCopy
  \/ \E a \in Answer : StartAnswer(a)

RadioSpec == RadioInit /\ [][RadioNext]_radioVars

-----------------------------------------------------------------------------

\* While a transfer runs, the staged image has exactly the chunks that were
\* accepted: no hole, nothing left of an earlier request
\* (memset in Begin, the offset check in the data callback).
TransferHasNoHoles ==
  walletState = "Receiving" =>
    \A i \in Chunk : staging[i] = None <=> i > receivedBytes

\* A request that waits for the main loop is whole and validated, and stays
\* so until takeRequest consumes the flag: no later command or chunk may touch
\* the staging area without withdrawing it first.
ReadyIsWhole == requestReady => ValidateRequest(staging)

\* A phone that reads "Approved" reads a signature with it, whichever task
\* published: the digest is in place before the state is, and nothing clears
\* it while the state may still be read.
ApprovedIsSigned == status.state = "Approved" => status.digest # Blank

=============================================================================
