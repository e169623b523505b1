------------------------ MODULE WalletActivity_proofs ------------------------
(***************************************************************************)
(* The wallet screen uses the radio service through its calls only, one at *)
(* a time: every step of the screen is a step of RadioSpec or leaves the   *)
(* service alone.  That needs what approve is called with to be a request  *)
(* with a digest (ReviewInv), and the type of what takeRequest copies.     *)
(* What WalletRadio_proofs shows then holds of the wallet.                 *)
(***************************************************************************)
EXTENDS WalletActivity, WalletRadio_proofs

-----------------------------------------------------------------------------
(* Facts about the data. *)

LEMMA ScreenNames ==
  /\ PinScreen \subseteq Screen /\ RadioScreen \subseteq Screen
  /\ {"Closed", "CreateWarning"} \subseteq Screen
  /\ {"SetPin", "ConfirmPin", "UnlockPin",
      "ChangeCurrentPin", "ChangeNewPin", "ChangeConfirmPin"} \subseteq PinScreen
  /\ {"Waiting", "PinChanged", "Review", "Result", "Error"} \subseteq RadioScreen
  BY DEF Screen, PinScreen, RadioScreen

LEMMA TimerNames == {"off", "armed", "due"} \subseteq Timer
  BY DEF Timer

\* A supported image carries the id of a request, and its digest is one.
LEMMA SupportedDigest ==
  ASSUME NEW image \in Image, Supported(image)
  PROVE  /\ RequestId(image) \in Request
         /\ Digest(image) \in Image \ {Blank}
<1>1. RequestId(image) \in Request
  BY DEF Supported
<1>2. 1 \in Chunk /\ None \notin Request
  BY RadioAssumption DEF Chunk
<1>3. 1 \in Body(image)
  BY <1>1, ActivityAssumption, RadioAssumption DEF Body, Chunk
<1>4. Digest(image) \in Image
  BY DEF Digest, Image
<1>5. Digest(image)[1] = image[1] /\ Blank[1] = None
  BY <1>2, <1>3 DEF Digest, Blank
<1> QED
  BY <1>1, <1>2, <1>4, <1>5 DEF RequestId

LEMMA ApprovalType ==
  ASSUME NEW image \in Image, Supported(image)
  PROVE  [id |-> RequestId(image), state |-> "Approved",
          error |-> "None", digest |-> Digest(image)] \in Answer
  BY SupportedDigest DEF Answer, Approval

LEMMA RejectionType ==
  ASSUME NEW image \in Image
  PROVE  /\ [id |-> RequestId(image), state |-> "Rejected",
             error |-> "None", digest |-> Blank] \in Answer
         /\ [id |-> RequestId(image), state |-> "Error",
             error |-> "Refused", digest |-> Blank] \in Answer
  BY RequestIdType DEF Answer, Rejection

-----------------------------------------------------------------------------
(* Types of the screen's own variables. *)

LEMMA InitActivityType == Init => ActivityTypeOK
<1>1. /\ "Closed" \in Screen /\ "off" \in Timer
      /\ 0 \in 0 .. AttemptWrap - 1
  BY ScreenNames, TimerNames, ActivityAssumption
<1>2. {} \in SUBSET Nat /\ 0 \in Nat
  OBVIOUS
<1> SUFFICES ASSUME Init PROVE ActivityTypeOK
  OBVIOUS
<1>3. /\ screen \in Screen /\ step = "top" /\ request \in Image /\ reviewPage \in Nat
      /\ visited \in SUBSET Nat /\ shown \in SUBSET Nat
  BY <1>1, <1>2, BlankIsImage DEF Init
<1>4. /\ hasAddress \in BOOLEAN /\ vault \in {"absent", "legacy", "sealed"}
      /\ unlocked \in BOOLEAN /\ restart \in Timer /\ lockout \in Timer
      /\ failures \in 0 .. AttemptWrap - 1
  BY <1>1 DEF Init
<1> QED
  BY <1>3, <1>4 DEF ActivityTypeOK

\* The counter of wrong PINs wraps within its width.
LEMMA WrapType ==
  ASSUME NEW n \in 0 .. AttemptWrap - 1
  PROVE  (n + 1) % AttemptWrap \in 0 .. AttemptWrap - 1
<1>1. AttemptWrap \in Nat /\ AttemptWrap > 0
  BY ActivityAssumption
<1> QED
  BY <1>1

\* The screens, the timers and the counter after a PIN was submitted.
LEMMA PinKeepsType == ActivityTypeOK /\ PinStep => ActivityTypeOK'
<1> SUFFICES ASSUME ActivityTypeOK, PinStep PROVE ActivityTypeOK'
  OBVIOUS
<1> USE ScreenNames, TimerNames DEF ActivityTypeOK, reviewVars, vaultVars
<1>1. 0 \in 0 .. AttemptWrap - 1
  BY ActivityAssumption
<1>2. ASSUME CompleteUnlock
      PROVE  /\ screen' \in Screen /\ hasAddress' \in BOOLEAN
             /\ restart' \in Timer /\ lockout' \in Timer
             /\ failures' \in 0 .. AttemptWrap - 1
  BY <1>1, <1>2 DEF CompleteUnlock, StartRadio
<1>3. ASSUME NEW lockWallet \in BOOLEAN, RecordFailedPin(lockWallet)
      PROVE  /\ screen' \in Screen /\ unlocked' \in BOOLEAN
             /\ restart' = restart /\ hasAddress' = hasAddress /\ vault' = vault
             /\ lockout' \in Timer
             /\ failures' \in 0 .. AttemptWrap - 1
  BY <1>3, WrapType DEF RecordFailedPin
<1>4. CASE TurnPinScreen
  <2>1. screen' \in Screen
    BY <1>4 DEF TurnPinScreen, PinTurn, PinScreen
  <2> QED
    BY <1>4, <2>1 DEF TurnPinScreen
<1>5. CASE CreateOrEncrypt
  BY <1>2, <1>5 DEF CreateOrEncrypt, Vault!Create, Vault!CreateFails
<1>6. CASE Unlock
  BY <1>2, <1>3, <1>6 DEF Unlock, Vault!Open
<1>7. CASE VerifyCurrentPin
  BY <1>1, <1>3, <1>7 DEF VerifyCurrentPin
<1>8. CASE CancelPinChange
  BY <1>8 DEF CancelPinChange, StartRadio
<1>9. CASE ChangePin
  BY <1>9 DEF ChangePin, StartRadio, Vault!Lock
<1> QED
  BY <1>4, <1>5, <1>6, <1>7, <1>8, <1>9 DEF PinStep

LEMMA StepKeepsActivityType == TypeOK /\ [Next]_vars => ActivityTypeOK'
<1> SUFFICES ASSUME TypeOK, [Next]_vars PROVE ActivityTypeOK'
  OBVIOUS
<1> USE ScreenNames, TimerNames
        DEF TypeOK, ActivityTypeOK, reviewVars, vaultVars, pinVars, activityVars
<1>0. 0 \in 0 .. AttemptWrap - 1
  BY ActivityAssumption
<1>1. CASE UNCHANGED activityVars
  BY <1>1
<1>2. CASE OnEnter
  BY <1>2 DEF OnEnter, Vault!Lock
<1>3. CASE AcceptWarning
  BY <1>3 DEF AcceptWarning
<1>4. ASSUME Leave PROVE ActivityTypeOK'
  BY <1>0, <1>4, BlankIsImage DEF Leave, Vault!Lock
<1>5. CASE SetAsSleepScreen
  BY <1>5 DEF SetAsSleepScreen
<1>6. CASE BeginPinChange
  BY <1>6 DEF BeginPinChange
<1>7. CASE RestartDue \/ LockoutOver
  BY <1>7 DEF RestartDue, LockoutOver
<1>8. CASE Render
  BY <1>8 DEF Render
<1>9. CASE CheckRadio
  BY <1>9, BlankIsImage DEF CheckRadio
<1>10. CASE RestartRadio
  BY <1>10 DEF RestartRadio, StartRadio
<1>11. CASE TakeRequest
  BY <1>11 DEF TakeRequest
<1>12. CASE CopyRequest
  BY <1>12 DEF CopyRequest, RadioTypeOK
<1>13. CASE HandleRequest
  <2>1. reviewPage' \in Nat /\ visited' \in SUBSET Nat /\ shown' \in SUBSET Nat
    <3>1. CASE Supported(request)
      BY <1>13, <3>1 DEF HandleRequest
    <3>2. CASE ~Supported(request)
      BY <1>13, <3>2 DEF HandleRequest
    <3> QED
      BY <3>1, <3>2
  <2>2. screen' \in Screen /\ step' = "buttons"
    BY <1>13 DEF HandleRequest
  <2> QED
    BY <1>13, <2>1, <2>2 DEF HandleRequest
<1>14. CASE RejectReview
  BY <1>14 DEF RejectReview, OnReview
<1>15. CASE TurnPage
  <2>1. reviewPage' \in Nat
    BY <1>15 DEF TurnPage
  <2>2. visited' \in SUBSET Nat
    BY <1>15, <2>1 DEF TurnPage
  <2> QED
    BY <1>15, <2>1, <2>2 DEF TurnPage, OnReview
<1>16. CASE ApproveRequest \/ ReviewIdle
  BY <1>16 DEF ApproveRequest, ReviewIdle, OnReview
<1>17. CASE OtherButtons
  BY <1>4, <1>17, BlankIsImage DEF OtherButtons
<1>18. CASE UNCHANGED vars
  BY <1>1, <1>18 DEF vars
<1> QED
  BY <1>1, <1>2, <1>3, <1>4, <1>5, <1>6, <1>7, <1>8, <1>9, <1>10, <1>11, <1>12, <1>13,
     <1>14, <1>15, <1>16, <1>17, <1>18, PinKeepsType
  DEF Next, PassStep, OnExit, ReviewButtons

-----------------------------------------------------------------------------
(* The service is used as RadioSpec has it. *)

\* What is under review was parsed: the copy and the parse are one pass.
ReviewInv ==
  /\ request \in Image
  /\ call = "taking" => step = "handle"
  /\ screen = "Review" /\ step # "handle" => Supported(request)

\* What an action may do to the service, with an idle pass through it.
RadioStep == RadioNext \/ UNCHANGED radioVars

LEMMA PinUsesRadio == PinStep => RadioStep
<1> USE DEF RadioStep, RadioUntouched
<1>1. ASSUME CompleteUnlock PROVE RadioStep
  BY <1>1 DEF CompleteUnlock, StartRadio, RadioNext
<1>2. ASSUME NEW b \in BOOLEAN, RecordFailedPin(b) PROVE RadioStep
  BY <1>2 DEF RecordFailedPin
<1>3. TurnPinScreen => RadioStep
  BY DEF TurnPinScreen
<1>4. CreateOrEncrypt => RadioStep
  BY <1>1 DEF CreateOrEncrypt
<1>5. Unlock => RadioStep
  BY <1>1, <1>2 DEF Unlock
<1>6. VerifyCurrentPin => RadioStep
  BY <1>2 DEF VerifyCurrentPin
<1>7. CancelPinChange => RadioStep
  BY DEF CancelPinChange, StartRadio, RadioNext
<1>8. ChangePin => RadioStep
  BY DEF ChangePin, StartRadio, RadioNext
<1> QED
  BY <1>3, <1>4, <1>5, <1>6, <1>7, <1>8 DEF PinStep

LEMMA PassUsesRadio == ReviewInv /\ PassStep => RadioStep
<1> SUFFICES ASSUME ReviewInv, PassStep PROVE RadioStep
  OBVIOUS
<1> USE DEF RadioStep, RadioUntouched
<1>1. ASSUME NEW a \in Answer, StartAnswer(a) PROVE RadioStep
  BY <1>1 DEF RadioNext
<1>2. ASSUME Leave PROVE RadioStep
  BY <1>2 DEF Leave, RadioNext
<1>3. CASE CheckRadio
  BY <1>3 DEF CheckRadio, RadioNext
<1>4. CASE RestartRadio
  BY <1>4 DEF RestartRadio, StartRadio, RadioNext
<1>5. CASE TakeRequest
  BY <1>5 DEF TakeRequest, RadioNext
<1>6. CASE CopyRequest
  BY <1>6 DEF CopyRequest, RadioNext
<1>7. CASE HandleRequest
  <2>1. request \in Image
    BY DEF ReviewInv
  <2> QED
    BY <1>1, <1>7, <2>1, RejectionType DEF HandleRequest
<1>8. CASE ReviewButtons
  <2>1. CASE OnReview
    <3>1. request \in Image /\ Supported(request)
      BY <2>1 DEF OnReview, ReviewInv
    <3>2. RejectReview => RadioStep
      BY <1>1, <3>1, RejectionType DEF RejectReview
    <3>3. ApproveRequest => RadioStep
      BY <1>1, <3>1, RejectionType, ApprovalType DEF ApproveRequest
    <3> QED
      BY <1>8, <3>2, <3>3 DEF ReviewButtons, TurnPage, ReviewIdle
  <2> QED
    BY <1>8, <2>1 DEF ReviewButtons, RejectReview, TurnPage, ApproveRequest, ReviewIdle
<1>9. CASE OtherButtons
  BY <1>2, <1>9 DEF OtherButtons
<1>10. CASE CallStep
  BY <1>10 DEF RadioNext
<1> QED
  BY <1>3, <1>4, <1>5, <1>6, <1>7, <1>8, <1>9, <1>10 DEF PassStep

\* Every step of the wallet is a step of the service, or leaves it alone.
LEMMA StepUsesRadio == ReviewInv /\ [Next]_vars => RadioStep
<1> SUFFICES ASSUME ReviewInv, [Next]_vars PROVE RadioStep
  OBVIOUS
<1> USE DEF RadioStep, RadioUntouched
<1>1. CASE HostStep
  BY <1>1 DEF RadioNext
<1>2. CASE OnEnter \/ AcceptWarning \/ SetAsSleepScreen \/ Render
  BY <1>2 DEF OnEnter, AcceptWarning, SetAsSleepScreen, Render
<1>3. CASE OnExit
  BY <1>3 DEF OnExit, Leave, RadioNext
<1>4. CASE BeginPinChange
  BY <1>4 DEF BeginPinChange, RadioNext
<1>5. CASE RestartDue \/ LockoutOver
  BY <1>5 DEF RestartDue, LockoutOver
<1>6. CASE UNCHANGED vars
  BY <1>6 DEF vars
<1> QED
  BY <1>1, <1>2, <1>3, <1>4, <1>5, <1>6, PinUsesRadio, PassUsesRadio DEF Next

\* RadioTypeOK is kept by any step the service allows.
LEMMA RadioStepKeepsType == RadioTypeOK /\ RadioStep => RadioTypeOK'
  BY HostKeepsType, CallKeepsType, StartKeepsType, StutterKeepsType, NextSplit
  DEF RadioStep

LEMMA ReviewInit == Init => ReviewInv
  BY BlankIsImage DEF Init, RadioInit, ReviewInv

LEMMA PinKeepsReview == ReviewInv /\ PinStep => ReviewInv'
<1> SUFFICES ASSUME ReviewInv, PinStep PROVE ReviewInv'
  OBVIOUS
<1> USE DEF reviewVars, vaultVars, callVars, RadioUntouched, radioVars, OnPin
\* A PIN screen leaves the request alone and opens no review.
<1>1. /\ request' = request /\ step' = step
      /\ call' = "taking" => call = "taking"
      /\ screen' = "Review" => screen = "Review"
  <2>1. ASSUME NEW ok \in BOOLEAN, Begin(ok) PROVE call' # "taking"
    BY <2>1 DEF Begin, MainIdle
  <2>2. ASSUME CompleteUnlock PROVE call' = "taking" => call = "taking"
    BY <2>1, <2>2 DEF CompleteUnlock, StartRadio
  <2>3. ASSUME CompleteUnlock PROVE screen' # "Review"
    BY <2>3 DEF CompleteUnlock
  <2>4. CASE TurnPinScreen
    BY <2>4 DEF TurnPinScreen, PinTurn, PinScreen
  <2>5. CASE CreateOrEncrypt
    BY <2>2, <2>3, <2>5 DEF CreateOrEncrypt
  <2>6. CASE Unlock
    BY <2>2, <2>3, <2>6 DEF Unlock, RecordFailedPin
  <2>7. CASE VerifyCurrentPin
    BY <2>7 DEF VerifyCurrentPin, RecordFailedPin
  <2>8. CASE CancelPinChange
    BY <2>1, <2>8 DEF CancelPinChange, StartRadio
  <2>9. CASE ChangePin
    BY <2>1, <2>9 DEF ChangePin, StartRadio
  <2> QED
    BY <2>4, <2>5, <2>6, <2>7, <2>8, <2>9 DEF PinStep
<1> QED
  BY <1>1 DEF ReviewInv, Supported, Body, RequestId

LEMMA StepKeepsReview == TypeOK /\ ReviewInv /\ [Next]_vars => ReviewInv'
<1> SUFFICES ASSUME TypeOK, ReviewInv, [Next]_vars PROVE ReviewInv'
  OBVIOUS
<1> USE DEF ReviewInv, Supported, Body, RequestId, reviewVars, vaultVars, pinVars,
            callVars, RadioUntouched, radioVars, activityVars
<1>1. CASE HostStep /\ UNCHANGED activityVars
  <2>1. call' = call
    BY <1>1 DEF HostStep, OnConnect, OnDisconnect, OnPassKeyDisplay,
       OnAuthenticationComplete, UnauthorizedWrite, MalformedWrite, RefuseWrite,
       ControlBegin, ControlCommit, ControlCancel, DataWrite
  <2> QED
    BY <1>1, <2>1
<1>2. CASE OnEnter \/ AcceptWarning \/ SetAsSleepScreen \/ Render
  <2>1. UNCHANGED <<request, call, step>> /\ (screen' = "Review" => screen = "Review")
    BY <1>2 DEF TypeOK, ActivityTypeOK, OnEnter, AcceptWarning, SetAsSleepScreen, Render
  <2> QED
    BY <2>1
<1>3. ASSUME Leave PROVE ReviewInv'
  BY <1>3, BlankIsImage DEF Leave, End
<1>4. CASE BeginPinChange
  BY <1>4 DEF BeginPinChange, End, MainIdle
<1>5. CASE RestartDue \/ LockoutOver
  BY <1>5 DEF RestartDue, LockoutOver
<1>6. CASE UNCHANGED vars
  BY <1>6 DEF vars
<1>7. CASE CheckRadio
  BY <1>7, BlankIsImage DEF CheckRadio, End, MainIdle
<1>8. CASE RestartRadio
  BY <1>8 DEF RestartRadio, StartRadio, Begin
<1>9. CASE TakeRequest
  BY <1>9 DEF TakeRequest, TakeExchange
<1>10. CASE CopyRequest
  BY <1>10 DEF CopyRequest, TakeCopy, TypeOK, RadioTypeOK
<1>11. CASE HandleRequest
  BY <1>11 DEF HandleRequest, StartAnswer
<1>12. CASE ReviewButtons
  BY <1>12 DEF ReviewButtons, OnReview, RejectReview, TurnPage, ApproveRequest,
     ReviewIdle, StartAnswer
<1>13. CASE OtherButtons
  BY <1>3, <1>13, BlankIsImage DEF OtherButtons
<1>14. CASE CallStep /\ UNCHANGED activityVars
  <2>1. call' # "taking"
    BY <1>14 DEF CallStep, BeginActive, EndStopped, AnswerId, AnswerDigest,
       AnswerState, PublishRead, PublishWrite
  <2> QED
    BY <1>14, <2>1
<1> QED
  BY <1>1, <1>2, <1>3, <1>4, <1>5, <1>6, <1>7, <1>8, <1>9, <1>10, <1>11, <1>12,
     <1>13, <1>14, PinKeepsReview DEF Next, PassStep, OnExit

\* The invariant both theorems below rest on.
WalletInv == TypeOK /\ ReviewInv

LEMMA WalletInvStep == WalletInv /\ [Next]_vars => WalletInv'
  BY StepUsesRadio, StepKeepsReview, StepKeepsActivityType, RadioStepKeepsType
  DEF WalletInv, TypeOK

LEMMA WalletInvHolds == Spec => []WalletInv
<1>1. Init => WalletInv
  BY InitType, InitActivityType, ReviewInit DEF Init, WalletInv, TypeOK
<1> QED
  BY <1>1, WalletInvStep, PTL DEF Spec

\* Every variable of the wallet keeps its range.
THEOREM WalletTypeCorrect == Spec => []TypeOK
<1>1. WalletInv => TypeOK
  BY DEF WalletInv
<1> QED
  BY <1>1, WalletInvHolds, PTL

\* The screen reaches the service through its calls only and one at a time:
\* the wallet implements the service under an arbitrary caller.
THEOREM WalletUsesRadio == Spec => UsesRadio
<1>1. Init => RadioInit
  BY DEF Init
<1>2. WalletInv /\ [Next]_vars => [RadioNext]_radioVars
  BY StepUsesRadio DEF WalletInv, RadioStep
<1> QED
  BY <1>1, <1>2, WalletInvHolds, PTL DEF Spec, UsesRadio, RadioSpec

\* So what the service guarantees to any caller holds in the wallet: requests
\* taken are whole, and "Approved" is published with a digest.
THEOREM WalletRadioSafety ==
  Spec => []RadioTypeOK /\ []TransferHasNoHoles /\ []ReadyIsWhole /\ []ApprovedIsSigned
  BY WalletUsesRadio, TypeCorrect, NoHoles, ReadyRequestIsWhole, ApprovedHasDigest, PTL
  DEF UsesRadio

=============================================================================
