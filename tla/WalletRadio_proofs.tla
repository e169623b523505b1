-------------------------- MODULE WalletRadio_proofs --------------------------
(***************************************************************************)
(* The safety of the wallet's Bluetooth service, for any requests, any     *)
(* number of chunks and any caller that finishes one call before the next. *)
(*                                                                         *)
(* Each property is proved from an invariant that every action keeps:      *)
(* the types, then the transfer (TransferInv), then the digest             *)
(* (DigestInv).  The later ones use the types only.                        *)
(***************************************************************************)
EXTENDS WalletRadio, TLAPS

-----------------------------------------------------------------------------
(* Facts about the data. *)

\* Zeroed bytes are a wire image.
LEMMA BlankIsImage == Blank \in Image
  BY DEF Blank, Image

\* No chunk accepted yet is a count of chunks.
LEMMA NoChunks == 0 \in 0 .. Chunks
  BY RadioAssumption

\* The id of any wire image is that of a request, or none.
LEMMA RequestIdType ==
  ASSUME NEW image \in Image
  PROVE  RequestId(image) \in Request \cup {None}
  BY RadioAssumption DEF Image, Chunk, RequestId

\* What a caller may hand to approve or reject.
LEMMA AnswerType ==
  ASSUME NEW a \in Answer
  PROVE  /\ a.id \in Request \cup {None}
         /\ a.state \in {"Approved", "Rejected", "Error"}
         /\ a.error \in {"None", "Refused"}
         /\ a.digest \in Image
         /\ a.state = "Approved" => a.digest # Blank
  BY BlankIsImage DEF Answer, Approval, Rejection

\* The states and errors the code stores.
LEMMA StateNames ==
  /\ {"Stopped", "Advertising", "Connected", "Pairing", "Receiving", "ReviewReady",
      "Approved", "Rejected", "Error"} \subseteq WalletState
  /\ {"None", "Refused", "RadioFailure"} \subseteq WalletError
  BY DEF WalletState, WalletError

\* What may be published.
LEMMA StatusType ==
  ASSUME NEW s \in WalletState, NEW id \in Request \cup {None}, NEW digest \in Image
  PROVE  [state |-> s, id |-> id, digest |-> digest] \in Status
  BY DEF Status

LEMMA NoAnswerType == NoAnswer \in Answer
  BY BlankIsImage DEF NoAnswer, Answer, Rejection

-----------------------------------------------------------------------------
(* Types. *)

LEMMA InitType == RadioInit => RadioTypeOK
  BY BlankIsImage, NoAnswerType, StatusType, StateNames, NoChunks
  DEF RadioInit, RadioTypeOK

LEMMA HostKeepsType == RadioTypeOK /\ HostStep => RadioTypeOK'
<1> SUFFICES ASSUME RadioTypeOK, HostStep PROVE RadioTypeOK'
  OBVIOUS
<1> USE StatusType, StateNames DEF RadioTypeOK, Publish, callVars, hostVars
<1>1. CASE OnConnect
  BY <1>1 DEF OnConnect
<1>2. CASE OnDisconnect
  <2>1. /\ walletState' \in WalletState /\ walletError' \in WalletError
        /\ requestReady' \in BOOLEAN /\ advertising' \in BOOLEAN
    BY <1>2 DEF OnDisconnect, Fail
  <2>2. status' \in Status
    BY <1>2, <2>1 DEF OnDisconnect
  <2> QED
    BY <1>2, <2>1, <2>2 DEF OnDisconnect
<1>3. CASE OnPassKeyDisplay
  BY <1>3 DEF OnPassKeyDisplay
<1>4. CASE OnAuthenticationComplete
  BY <1>4 DEF OnAuthenticationComplete, Fail
<1>5. CASE UnauthorizedWrite
  BY <1>5 DEF UnauthorizedWrite, Fail
<1>6. CASE RefuseWrite
  BY <1>6 DEF RefuseWrite, Fail
<1>7. CASE ControlBegin
  <2>1. status' \in Status
    BY <1>7, BlankIsImage DEF ControlBegin
  <2> QED
    BY <1>7, <2>1, BlankIsImage, NoChunks DEF ControlBegin
<1>8. CASE ControlCommit
  <2>1. CASE CanCommit /\ ValidateRequest(staging)
    <3>1. currentRequestId' \in Request \cup {None}
      BY <1>8, <2>1, RequestIdType DEF ControlCommit
    <3>2. status' \in Status
      BY <1>8, <2>1, <3>1 DEF ControlCommit
    <3> QED
      BY <1>8, <2>1, <3>1, <3>2 DEF ControlCommit
  <2>2. CASE RefuseWrite
    BY <1>6, <2>2
  <2> QED
    BY <1>8, <2>1, <2>2 DEF ControlCommit
<1>9. CASE ControlCancel
  BY <1>9 DEF ControlCancel
<1>10. ASSUME NEW r \in Request, NEW offset \in 0 .. Chunks, DataWrite(r, offset)
       PROVE RadioTypeOK'
  <2>1. CASE RefuseWrite
    BY <1>6, <2>1
  <2>2. CASE ~RefuseWrite
    <3>1. [staging EXCEPT ![offset + 1] = r] \in Image
      BY RadioAssumption DEF Image
    <3>2. /\ offset = receivedBytes /\ offset < Chunks
          /\ staging' = [staging EXCEPT ![offset + 1] = r]
          /\ receivedBytes' = receivedBytes + 1
          /\ UNCHANGED <<walletState, walletError, passkey, active, requestReady,
                         currentRequestId, signedDigest, hostVars, callVars>>
          /\ Publish
      BY <1>10, <2>2 DEF DataWrite
    <3>3. receivedBytes' \in 0 .. Chunks
      BY <3>2, RadioAssumption
    <3> QED
      BY <3>1, <3>2, <3>3
  <2> QED
    BY <2>1, <2>2
<1> QED
  BY <1>1, <1>2, <1>3, <1>4, <1>5, <1>6, <1>7, <1>8, <1>9, <1>10
  DEF HostStep, MalformedWrite

LEMMA CallKeepsType == RadioTypeOK /\ CallStep => RadioTypeOK'
<1> SUFFICES ASSUME RadioTypeOK, CallStep PROVE RadioTypeOK'
  OBVIOUS
<1> USE StatusType, StateNames DEF RadioTypeOK, hostVars, sharedVars
<1>1. CASE BeginActive
  BY <1>1 DEF BeginActive
<1>2. CASE EndStopped
  BY <1>2, BlankIsImage DEF EndStopped
<1>3. CASE AnswerId
  BY <1>3, AnswerType DEF AnswerId
<1>4. CASE AnswerDigest
  BY <1>4, AnswerType DEF AnswerDigest
<1>5. CASE AnswerState
  BY <1>5, AnswerType DEF AnswerState
<1>6. CASE PublishRead
  BY <1>6 DEF PublishRead
<1>7. CASE PublishWrite
  BY <1>7, NoAnswerType DEF PublishWrite
<1> QED
  BY <1>1, <1>2, <1>3, <1>4, <1>5, <1>6, <1>7 DEF CallStep

\* A call that starts, from any caller.
CallStart ==
  \/ \E ok \in BOOLEAN : Begin(ok)
  \/ End \/ TakeExchange \/ TakeCopy
  \/ \E a \in Answer : StartAnswer(a)

LEMMA StartKeepsType == RadioTypeOK /\ CallStart => RadioTypeOK'
<1> SUFFICES ASSUME RadioTypeOK, CallStart PROVE RadioTypeOK'
  OBVIOUS
<1> USE StatusType, StateNames DEF RadioTypeOK, hostVars, sharedVars
<1>1. ASSUME NEW ok \in BOOLEAN, Begin(ok) PROVE RadioTypeOK'
  <2>1. CASE active
    BY <1>1, <2>1 DEF Begin, radioVars
  <2>2. CASE ~active
    <3>1. status' \in Status
      BY <1>1, <2>2, BlankIsImage DEF Begin
    <3>2. signedDigest' \in Image /\ receivedBytes' \in 0 .. Chunks
      BY <1>1, <2>2, BlankIsImage, NoChunks DEF Begin
    <3>3. /\ walletState' \in WalletState /\ walletError' \in WalletError
          /\ advertising' \in BOOLEAN
          /\ call' \in {"idle", "begun"}
      BY <1>1, <2>2 DEF Begin
    <3> QED
      BY <1>1, <2>2, <3>1, <3>2, <3>3 DEF Begin
  <2> QED
    BY <2>1, <2>2
<1>2. CASE End
  BY <1>2 DEF End, radioVars
<1>3. CASE TakeExchange
  BY <1>3 DEF TakeExchange
<1>4. CASE TakeCopy
  BY <1>4 DEF TakeCopy
<1>5. ASSUME NEW a \in Answer, StartAnswer(a) PROVE RadioTypeOK'
  BY <1>5 DEF StartAnswer
<1> QED
  BY <1>1, <1>2, <1>3, <1>4, <1>5 DEF CallStart

LEMMA StutterKeepsType == RadioTypeOK /\ UNCHANGED radioVars => RadioTypeOK'
  BY DEF RadioTypeOK, radioVars

LEMMA NextSplit == RadioNext <=> HostStep \/ CallStep \/ CallStart
  BY DEF RadioNext, CallStart

\* Every variable of the service stays in its range: the number of accepted
\* chunks never passes the size of the staging area.
THEOREM TypeCorrect == RadioSpec => []RadioTypeOK
<1>1. RadioInit => RadioTypeOK
  BY InitType
<1>2. RadioTypeOK /\ [RadioNext]_radioVars => RadioTypeOK'
  BY HostKeepsType, CallKeepsType, StartKeepsType, StutterKeepsType, NextSplit
<1> QED
  BY <1>1, <1>2, PTL DEF RadioSpec

-----------------------------------------------------------------------------
(* The transfer. *)

\* The staged image of a transfer is exactly what was accepted, a request that
\* waits is whole, and the two never meet: Begin withdraws the flag, and only
\* Commit, which ends the transfer, raises it.
TransferInv ==
  /\ TransferHasNoHoles
  /\ ReadyIsWhole
  /\ walletState = "Receiving" => ~requestReady

LEMMA HostKeepsTransfer == RadioTypeOK /\ TransferInv /\ HostStep => TransferInv'
<1> SUFFICES ASSUME RadioTypeOK, TransferInv, HostStep PROVE TransferInv'
  OBVIOUS
<1> USE DEF TransferInv, TransferHasNoHoles, ReadyIsWhole, ValidateRequest,
            callVars, hostVars
<1>1. CASE OnConnect
  BY <1>1 DEF OnConnect
<1>2. CASE OnDisconnect
  BY <1>2 DEF OnDisconnect, Fail
<1>3. CASE OnPassKeyDisplay
  BY <1>3 DEF OnPassKeyDisplay
<1>4. CASE OnAuthenticationComplete
  BY <1>4 DEF OnAuthenticationComplete, Fail
<1>5. CASE UnauthorizedWrite
  BY <1>5 DEF UnauthorizedWrite, Fail
<1>6. CASE RefuseWrite
  BY <1>6 DEF RefuseWrite, Fail
<1>7. CASE ControlBegin
  BY <1>7 DEF ControlBegin, Blank, Chunk
<1>8. CASE ControlCommit
  BY <1>6, <1>8 DEF ControlCommit
<1>9. CASE ControlCancel
  BY <1>9 DEF ControlCancel
<1>10. ASSUME NEW r \in Request, NEW offset \in 0 .. Chunks, DataWrite(r, offset)
       PROVE TransferInv'
  <2>1. CASE RefuseWrite
    BY <1>6, <2>1
  <2>2. CASE ~RefuseWrite
    <3>1. /\ walletState = "Receiving" /\ walletState' = walletState
          /\ offset = receivedBytes /\ offset < Chunks
          /\ staging' = [staging EXCEPT ![offset + 1] = r]
          /\ receivedBytes' = receivedBytes + 1
          /\ requestReady' = requestReady
      BY <1>10, <2>2 DEF DataWrite
    <3>2. receivedBytes \in Nat /\ Chunks \in Nat /\ r # None
      BY RadioAssumption DEF RadioTypeOK
    <3>3. ASSUME NEW i \in Chunk
          PROVE  staging'[i] = None <=> i > receivedBytes'
      <4>1. staging \in [Chunk -> Request \cup {None}]
        BY DEF RadioTypeOK, Image
      <4>2. i \in Nat
        BY <3>2 DEF Chunk
      <4>3. CASE i = receivedBytes + 1
        BY <3>1, <3>2, <4>1, <4>3
      <4>4. CASE i # receivedBytes + 1
        <5>1. staging'[i] = staging[i]
          BY <3>1, <4>1, <4>4
        <5>2. staging[i] = None <=> i > receivedBytes
          BY <3>1
        <5> QED
          BY <3>1, <3>2, <4>2, <4>4, <5>1, <5>2
      <4> QED
        BY <4>3, <4>4
    <3> QED
      BY <3>1, <3>3
  <2> QED
    BY <2>1, <2>2
<1> QED
  BY <1>1, <1>2, <1>3, <1>4, <1>5, <1>6, <1>7, <1>8, <1>9, <1>10
  DEF HostStep, MalformedWrite

\* The main loop never touches the staging area, and enters no transfer.
LEMMA LoopKeepsTransfer ==
  RadioTypeOK /\ TransferInv /\ (CallStep \/ CallStart) => TransferInv'
<1> SUFFICES ASSUME RadioTypeOK, TransferInv, CallStep \/ CallStart PROVE TransferInv'
  OBVIOUS
<1> USE DEF hostVars, sharedVars, radioVars
<1>1. /\ staging' = staging
      /\ requestReady' => requestReady
      /\ walletState' = "Receiving" => walletState = "Receiving"
      /\ UNCHANGED receivedBytes \/ walletState' # "Receiving"
  <2>1. CASE BeginActive
    BY <2>1 DEF BeginActive
  <2>2. CASE EndStopped
    BY <2>2 DEF EndStopped
  <2>3. CASE AnswerId \/ AnswerDigest
    BY <2>3 DEF AnswerId, AnswerDigest
  <2>4. CASE AnswerState
    BY <2>4, AnswerType DEF AnswerState, RadioTypeOK
  <2>5. CASE PublishRead \/ PublishWrite
    BY <2>5 DEF PublishRead, PublishWrite
  <2>6. ASSUME NEW ok \in BOOLEAN, Begin(ok)
        PROVE  /\ staging' = staging
               /\ requestReady' => requestReady
               /\ walletState' = "Receiving" => walletState = "Receiving"
               /\ UNCHANGED receivedBytes \/ walletState' # "Receiving"
    BY <2>6 DEF Begin
  <2>7. CASE End
    BY <2>7 DEF End
  <2>8. CASE TakeExchange \/ TakeCopy
    BY <2>8 DEF TakeExchange, TakeCopy
  <2>9. CASE \E a \in Answer : StartAnswer(a)
    BY <2>9 DEF StartAnswer
  <2> QED
    BY <2>1, <2>2, <2>3, <2>4, <2>5, <2>6, <2>7, <2>8, <2>9 DEF CallStep, CallStart
<1> QED
  BY <1>1 DEF TransferInv, TransferHasNoHoles, ReadyIsWhole, ValidateRequest

\* The staging area, the flag and the state of the service agree in every
\* reachable state, however the phone's writes and the main loop interleave.
THEOREM TransferCorrect == RadioSpec => []TransferInv
<1>1. RadioInit => TransferInv
  BY DEF RadioInit, TransferInv, TransferHasNoHoles, ReadyIsWhole
<1>2. TransferInv /\ UNCHANGED radioVars => TransferInv'
  BY DEF radioVars, TransferInv, TransferHasNoHoles, ReadyIsWhole, ValidateRequest
<1>3. RadioTypeOK /\ TransferInv /\ [RadioNext]_radioVars => TransferInv'
  BY <1>2, HostKeepsTransfer, LoopKeepsTransfer, NextSplit
<1> QED
  BY <1>1, <1>3, TypeCorrect, PTL DEF RadioSpec

\* However writes, disconnections and calls interleave, a transfer is staged
\* without a hole and without leftovers of the one before.
THEOREM NoHoles == RadioSpec => []TransferHasNoHoles
<1>1. TransferInv => TransferHasNoHoles
  BY DEF TransferInv
<1> QED
  BY <1>1, TransferCorrect, PTL

\* What takeRequest finds ready is a whole request that passed validateRequest.
THEOREM ReadyRequestIsWhole == RadioSpec => []ReadyIsWhole
<1>1. TransferInv => ReadyIsWhole
  BY DEF TransferInv
<1> QED
  BY <1>1, TransferCorrect, PTL

-----------------------------------------------------------------------------
(* The digest. *)

\* Where "Approved" has got to, the digest is in place: in the state, in what
\* publishStatus has read of it, and in the characteristic.
DigestInv ==
  /\ ApprovedIsSigned
  /\ walletState = "Approved" => signedDigest # Blank
  /\ call = "signed" => signedDigest # Blank
  /\ draft = "Approved" => call = "writing" /\ signedDigest # Blank

LEMMA HostKeepsDigest == DigestInv /\ HostStep => DigestInv'
<1> SUFFICES ASSUME DigestInv, HostStep PROVE DigestInv'
  OBVIOUS
<1>1. /\ UNCHANGED <<signedDigest, call, draft>>
      /\ walletState' = "Approved" => walletState = "Approved"
      /\ \/ UNCHANGED status
         \/ status'.state = walletState' /\ status'.digest = signedDigest'
  <2> USE DEF Publish, Fail, callVars
  <2>1. CASE OnConnect
    BY <2>1 DEF OnConnect
  <2>2. CASE OnDisconnect
    BY <2>2 DEF OnDisconnect
  <2>3. CASE OnPassKeyDisplay
    BY <2>3 DEF OnPassKeyDisplay
  <2>4. CASE OnAuthenticationComplete
    BY <2>4 DEF OnAuthenticationComplete
  <2>5. CASE UnauthorizedWrite
    BY <2>5 DEF UnauthorizedWrite
  <2>6. CASE RefuseWrite
    BY <2>6 DEF RefuseWrite
  <2>7. CASE ControlBegin \/ ControlCancel
    BY <2>7 DEF ControlBegin, ControlCancel
  <2>8. CASE ControlCommit
    BY <2>6, <2>8 DEF ControlCommit
  <2>9. CASE \E r \in Request, offset \in 0 .. Chunks : DataWrite(r, offset)
    BY <2>6, <2>9 DEF DataWrite, hostVars
  <2> QED
    BY <2>1, <2>2, <2>3, <2>4, <2>5, <2>6, <2>7, <2>8, <2>9 DEF HostStep, MalformedWrite
<1> QED
  BY <1>1 DEF DigestInv, ApprovedIsSigned, Blank

LEMMA LoopKeepsDigest ==
  RadioTypeOK /\ DigestInv /\ (CallStep \/ CallStart) => DigestInv'
<1> SUFFICES ASSUME RadioTypeOK, DigestInv, CallStep \/ CallStart PROVE DigestInv'
  OBVIOUS
<1>0. Blank' = Blank
  BY DEF Blank
<1> USE <1>0 DEF DigestInv, ApprovedIsSigned, hostVars, sharedVars, radioVars
<1>1. CASE BeginActive
  BY <1>1 DEF BeginActive
<1>2. CASE EndStopped
  BY <1>2 DEF EndStopped
<1>3. CASE AnswerId
  BY <1>3 DEF AnswerId
<1>4. CASE AnswerDigest
  BY <1>4, AnswerType DEF AnswerDigest, RadioTypeOK
<1>5. CASE AnswerState
  BY <1>5 DEF AnswerState
<1>6. CASE PublishRead
  BY <1>6 DEF PublishRead
<1>7. CASE PublishWrite
  BY <1>7 DEF PublishWrite
<1>8. CASE \E ok \in BOOLEAN : Begin(ok)
  BY <1>8 DEF Begin
<1>9. CASE End
  BY <1>9 DEF End
<1>10. CASE TakeExchange \/ TakeCopy
  BY <1>10 DEF TakeExchange, TakeCopy
<1>11. CASE \E a \in Answer : StartAnswer(a)
  BY <1>11 DEF StartAnswer
<1> QED
  BY <1>1, <1>2, <1>3, <1>4, <1>5, <1>6, <1>7, <1>8, <1>9, <1>10, <1>11
  DEF CallStep, CallStart

\* A phone that reads "Approved" reads a signature with it, whichever task
\* published the status and whatever ran between the reads of publishStatus.
THEOREM ApprovedHasDigest == RadioSpec => []ApprovedIsSigned
<1>1. RadioInit => DigestInv
  BY DEF RadioInit, DigestInv, ApprovedIsSigned
<1>2. DigestInv /\ UNCHANGED radioVars => DigestInv'
  BY DEF radioVars, DigestInv, ApprovedIsSigned, Blank
<1>3. RadioTypeOK /\ DigestInv /\ [RadioNext]_radioVars => DigestInv'
  BY <1>2, HostKeepsDigest, LoopKeepsDigest, NextSplit
<1>4. DigestInv => ApprovedIsSigned
  BY DEF DigestInv
<1> QED
  BY <1>1, <1>3, <1>4, TypeCorrect, PTL DEF RadioSpec

=============================================================================
