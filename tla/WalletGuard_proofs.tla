------------------------ MODULE WalletGuard_proofs ------------------------
(***************************************************************************)
(* The radio serves only an open wallet, and one that is down while the    *)
(* address is shown is started again.  Both follow from an invariant of    *)
(* screens, vault, restart timer and service (GuardInv, RestartInv), which *)
(* every action of WalletActivity keeps.                                   *)
(* The last part shows that the wallet implements SigningSession, from     *)
(* what was visited of the request under review (SessionInv).              *)
(***************************************************************************)
EXTENDS WalletActivity_proofs

\* How screens, vault, restart timer and service go together.  That the radio
\* is never started for a locked wallet depends on the screen Error: a wallet
\* that could not be created ends there locked, with no restart pending and no
\* radio failure visible, because no radio has ever run for it.
GuardInv ==
  /\ active \/ call = "begun" => unlocked /\ screen \in RadioScreen
  /\ requestReady => HostRunning
  /\ call = "ending" => vault = "sealed" /\ (screen = "Error" => unlocked)
  /\ screen \in {"Waiting", "PinChanged", "Review", "Result",
                 "ChangeCurrentPin", "ChangeNewPin", "ChangeConfirmPin"} => unlocked
  /\ unlocked \/ RadioFailed => vault = "sealed"
  /\ screen \in {"Closed", "CreateWarning", "SetPin", "ConfirmPin"}
     => restart = "off" /\ ~hasAddress
  /\ screen \in {"CreateWarning", "SetPin", "ConfirmPin"} => vault # "sealed"
  /\ screen = "Error" /\ ~unlocked => restart = "off" /\ ~RadioFailed /\ ~hasAddress
  /\ step # "top" => screen \in RadioScreen
  /\ step \in {"restart", "handle"} => unlocked

\* A radio that is down while the address is shown is being started, or will be.
RestartInv ==
  hasAddress /\ screen \in RadioScreen /\ ~active /\ restart = "off"
    => call = "begun" \/ step = "restart"

SafeInv == GuardInv /\ RestartInv

LEMMA SafeInit == Init => SafeInv
  BY DEF Init, RadioInit, SafeInv, GuardInv, RestartInv, RadioFailed, RadioScreen

-----------------------------------------------------------------------------
(* What the calls the screens make do to the service. *)

LEMMA StartFacts ==
  ASSUME NEW ok \in BOOLEAN, StartRadio(ok)
  PROVE  /\ call = "idle" /\ active' = active
         /\ call' \in {"idle", "begun"}
         /\ requestReady' => active /\ requestReady
         /\ restart' = "off" => active \/ call' = "begun"
<1>1. CASE active
  BY <1>1 DEF StartRadio, Begin, radioVars
<1>2. CASE ~active
  BY <1>2 DEF StartRadio, Begin
<1> QED
  BY <1>1, <1>2

LEMMA EndFacts ==
  ASSUME End
  PROVE  /\ call = "idle" /\ ~active'
         /\ call' = IF active THEN "ending" ELSE "idle"
         /\ UNCHANGED <<requestReady, walletState, walletError>>
  BY DEF End, radioVars

\* A callback runs only while the stack is up, and changes neither the flag of
\* the service nor the progress of the main loop.
LEMMA HostFacts ==
  ASSUME HostStep
  PROVE  HostRunning /\ UNCHANGED <<active, call>>
  BY DEF HostStep, OnConnect, OnDisconnect, OnPassKeyDisplay, OnAuthenticationComplete,
     UnauthorizedWrite, MalformedWrite, RefuseWrite, ControlBegin, ControlCommit,
     ControlCancel, DataWrite, callVars

-----------------------------------------------------------------------------
(* One lemma per group of actions. *)

LEMMA HostKeepsSafe == SafeInv /\ HostStep /\ UNCHANGED activityVars => SafeInv'
  BY HostFacts
  DEF SafeInv, GuardInv, RestartInv, HostRunning, RadioFailed, activityVars, vaultVars

LEMMA CallKeepsSafe ==
  RadioTypeOK /\ SafeInv /\ CallStep /\ UNCHANGED activityVars => SafeInv'
<1> SUFFICES ASSUME RadioTypeOK, SafeInv, CallStep, UNCHANGED activityVars
             PROVE  SafeInv'
  OBVIOUS
<1> USE DEF SafeInv, GuardInv, RestartInv, HostRunning, RadioFailed,
            activityVars, vaultVars, sharedVars
<1>1. CASE BeginActive
  BY <1>1 DEF BeginActive
<1>2. CASE EndStopped
  BY <1>2 DEF EndStopped
<1>3. CASE AnswerId
  BY <1>3 DEF AnswerId
<1>4. CASE AnswerDigest
  BY <1>4 DEF AnswerDigest
<1>5. CASE AnswerState
  BY <1>5, AnswerType DEF AnswerState, RadioTypeOK
<1>6. CASE PublishRead
  BY <1>6 DEF PublishRead
<1>7. CASE PublishWrite
  BY <1>7 DEF PublishWrite
<1> QED
  BY <1>1, <1>2, <1>3, <1>4, <1>5, <1>6, <1>7 DEF CallStep

\* Leaving takes the radio down, locks and cancels the restart.
LEMMA LeaveKeepsSafe == SafeInv /\ Leave => SafeInv'
  BY EndFacts
  DEF Leave, Vault!Lock, SafeInv, GuardInv, RestartInv, HostRunning, RadioFailed, RadioScreen

\* The radio is down on a PIN screen, and started only when the vault is open.
LEMMA PinKeepsSafe == ActivityTypeOK /\ SafeInv /\ PinStep => SafeInv'
<1> SUFFICES ASSUME ActivityTypeOK, SafeInv, PinStep PROVE SafeInv'
  OBVIOUS
<1>1. PICK s \in PinScreen : OnPin(s)
  BY DEF PinStep, TurnPinScreen, CreateOrEncrypt, Unlock, VerifyCurrentPin,
     CancelPinChange, ChangePin, PinScreen
<1>2. ~active /\ call = "idle" /\ ~requestReady /\ step = "top"
  BY <1>1 DEF OnPin, MainIdle, SafeInv, GuardInv, HostRunning, PinScreen, RadioScreen
<1> USE DEF SafeInv, GuardInv, RestartInv, HostRunning, RadioFailed, OnPin,
            reviewVars, vaultVars, RadioUntouched, radioVars, RadioScreen
<1>3. ASSUME CompleteUnlock, unlocked', vault' = "sealed", step' = step PROVE SafeInv'
  <2>1. CASE screen' = "Waiting" /\ \E ok \in BOOLEAN : StartRadio(ok)
    BY <1>2, <1>3, <2>1, StartFacts
  <2>2. CASE screen' = "Error" /\ hasAddress' = FALSE /\ UNCHANGED radioVars
    BY <1>2, <1>3, <2>2
  <2> QED
    BY <1>3, <2>1, <2>2 DEF CompleteUnlock
<1>4. ASSUME NEW lockWallet \in BOOLEAN, RecordFailedPin(lockWallet), step' = step,
             lockWallet => screen = "ChangeCurrentPin"
      PROVE  SafeInv'
  BY <1>2, <1>4 DEF RecordFailedPin
<1>5. CASE TurnPinScreen
  BY <1>2, <1>5 DEF TurnPinScreen, PinTurn, PinScreen
<1>6. CASE CreateOrEncrypt
  <2>1. CASE CompleteUnlock /\ unlocked' = TRUE /\ vault' = "sealed"
    BY <1>3, <1>6, <2>1 DEF CreateOrEncrypt
  <2>2. CASE screen' = "Error" /\ UNCHANGED <<unlocked, hasAddress, restart, radioVars>>
    BY <1>2, <1>6, <2>2 DEF CreateOrEncrypt
  <2> QED
    BY <1>6, <2>1, <2>2 DEF CreateOrEncrypt, Vault!Create, Vault!CreateFails
<1>7. CASE Unlock
  BY <1>3, <1>4, <1>7 DEF Unlock, Vault!Open
<1>8. CASE VerifyCurrentPin
  <2>1. CASE RecordFailedPin(TRUE)
    BY <1>4, <1>8, <2>1 DEF VerifyCurrentPin
  <2>2. CASE screen' = "ChangeNewPin" /\ UNCHANGED <<radioVars, restart, vaultVars>>
    BY <1>2, <1>8, <2>2 DEF VerifyCurrentPin
  <2> QED
    BY <1>8, <2>1, <2>2 DEF VerifyCurrentPin
<1>9. CASE CancelPinChange
  BY <1>2, <1>9, StartFacts DEF CancelPinChange
<1>10. CASE ChangePin
  <2>1. ASSUME NEW ok \in BOOLEAN, StartRadio(ok),
               screen' \in {"PinChanged", "Error"}, UNCHANGED unlocked
        PROVE  SafeInv'
    <3>1. unlocked /\ unlocked' /\ vault' = vault /\ step' = step
      BY <1>10, <2>1 DEF ChangePin
    <3> QED
      BY <1>2, <2>1, <3>1, StartFacts
  <2>2. CASE screen' = "UnlockPin"
    BY <1>2, <1>10, <2>2 DEF ChangePin, Vault!Lock
  <2> QED
    BY <1>10, <2>1, <2>2 DEF ChangePin
<1> QED
  BY <1>5, <1>6, <1>7, <1>8, <1>9, <1>10 DEF PinStep

\* A pass keeps the wallet open until it leaves.
LEMMA PassKeepsSafe ==
  ActivityTypeOK /\ RadioTypeOK /\ SafeInv /\ PassStep => SafeInv'
<1> SUFFICES ASSUME ActivityTypeOK, RadioTypeOK, SafeInv, PassStep PROVE SafeInv'
  OBVIOUS
<1> USE DEF SafeInv, GuardInv, RestartInv, HostRunning, RadioFailed, MainIdle,
            reviewVars, vaultVars, pinVars, RadioUntouched, radioVars, sharedVars, RadioScreen
<1>1. CASE CheckRadio
  <2>1. CASE restart = "due"
    <3>1. unlocked
      BY <1>1, <2>1 DEF CheckRadio
    <3> QED
      BY <1>1, <2>1, <3>1, EndFacts DEF CheckRadio
  <2>2. CASE restart # "due"
    BY <1>1, <2>2 DEF CheckRadio
  <2> QED
    BY <2>1, <2>2
<1>2. CASE RestartRadio
  BY <1>2, StartFacts DEF RestartRadio
<1>3. CASE TakeRequest
  BY <1>3 DEF TakeRequest, TakeExchange
<1>4. CASE CopyRequest
  BY <1>4 DEF CopyRequest, TakeCopy
<1>5. CASE HandleRequest
  BY <1>5 DEF HandleRequest, StartAnswer
<1>6. CASE RejectReview
  BY <1>6 DEF RejectReview, OnReview, StartAnswer
<1>7. CASE TurnPage \/ ReviewIdle
  BY <1>7 DEF TurnPage, ReviewIdle, OnReview
<1>8. CASE ApproveRequest
  BY <1>8 DEF ApproveRequest, OnReview, StartAnswer
<1>9. CASE OtherButtons
  <2>1. CASE Leave
    BY <2>1, LeaveKeepsSafe
  <2>2. ASSUME UNCHANGED <<radioVars, vaultVars, restart>>, step' = "top",
               screen' \in {screen, IF screen = "Error" /\ ~unlocked THEN "UnlockPin"
                                                                   ELSE "Waiting"}
        PROVE  SafeInv'
    <3>1. CASE screen' = screen /\ step = "buttons"
      BY <2>2, <3>1
    <3>2. CASE screen' = "UnlockPin"
      BY <2>2, <3>2
    <3>3. CASE screen' = "Waiting" /\ ~(screen = "Error" /\ ~unlocked)
      BY <1>9, <2>2, <3>3 DEF OtherButtons
    <3> QED
      BY <1>9, <2>2, <3>1, <3>2, <3>3 DEF OtherButtons
  <2> QED
    BY <1>9, <2>1, <2>2 DEF OtherButtons
<1> QED
  BY <1>1, <1>2, <1>3, <1>4, <1>5, <1>6, <1>7, <1>8, <1>9, CallKeepsSafe
  DEF PassStep, ReviewButtons

LEMMA SafeStep == WalletInv /\ SafeInv /\ [Next]_vars => SafeInv'
<1> SUFFICES ASSUME WalletInv, SafeInv, [Next]_vars PROVE SafeInv'
  OBVIOUS
<1>0. ActivityTypeOK /\ RadioTypeOK
  BY DEF WalletInv, TypeOK
<1> USE DEF SafeInv, GuardInv, RestartInv, HostRunning, RadioFailed, MainIdle,
            reviewVars, vaultVars, pinVars, RadioUntouched, radioVars, activityVars, RadioScreen
<1>1. CASE OnEnter
  BY <1>0, <1>1 DEF OnEnter, ActivityTypeOK, Vault!Lock
<1>2. CASE AcceptWarning
  BY <1>2 DEF AcceptWarning
<1>3. CASE SetAsSleepScreen \/ Render
  BY <1>3 DEF SetAsSleepScreen, Render
<1>4. CASE BeginPinChange
  BY <1>4, EndFacts DEF BeginPinChange
<1>5. CASE RestartDue \/ LockoutOver
  BY <1>5 DEF RestartDue, LockoutOver
<1>6. CASE UNCHANGED vars
  BY <1>6 DEF vars
<1> QED
  BY <1>0, <1>1, <1>2, <1>3, <1>4, <1>5, <1>6, HostKeepsSafe, LeaveKeepsSafe,
     PinKeepsSafe, PassKeepsSafe
  DEF Next, OnExit

-----------------------------------------------------------------------------

LEMMA SafeInvHolds == Spec => []SafeInv
  BY SafeInit, SafeStep, WalletInvHolds, PTL DEF Spec

\* The radio is up only while the vault is open and a screen is shown whose
\* pass polls it: it never serves a phone while a PIN is asked for.
THEOREM RadioServesOpenWallet == Spec => []RadioOnlyUnlocked
<1>1. SafeInv => RadioOnlyUnlocked
  BY DEF SafeInv, GuardInv, RadioOnlyUnlocked
<1> QED
  BY <1>1, SafeInvHolds, PTL

\* Between passes, a wallet that shows its address either has its radio up or
\* has a restart pending, however the last start or restart went.
THEOREM DownRadioIsRestarted == Spec => []DownMeansRestart
<1>1. SafeInv => DownMeansRestart
  BY DEF SafeInv, RestartInv, DownMeansRestart, MainIdle
<1> QED
  BY <1>1, SafeInvHolds, PTL

-----------------------------------------------------------------------------
(* The calls of the key store. *)

VaultStep == Vault!Next \/ UNCHANGED Vault!vars

LEMMA VaultUntouched == UNCHANGED <<vault, unlocked>> => VaultStep
  BY DEF VaultStep, Vault!vars

LEMMA VaultLocked == Vault!Lock => VaultStep
  BY DEF VaultStep, Vault!Next

\* A key is made or sealed on ConfirmPin only, which is never shown over a
\* sealed vault, so never while one is open.
LEMMA PinUsesVault == SafeInv /\ PinStep => VaultStep
<1> SUFFICES ASSUME SafeInv, PinStep PROVE VaultStep
  OBVIOUS
<1>1. CASE CreateOrEncrypt
  <2>1. ~unlocked
    BY <1>1 DEF CreateOrEncrypt, OnPin, SafeInv, GuardInv
  <2> QED
    BY <1>1, <2>1 DEF CreateOrEncrypt, VaultStep, Vault!Next
<1>2. ASSUME NEW lockWallet \in BOOLEAN, RecordFailedPin(lockWallet) PROVE VaultStep
  <2>1. vault' = vault /\ unlocked' \in {unlocked, FALSE}
    BY <1>2 DEF RecordFailedPin
  <2>2. CASE unlocked' = FALSE
    BY <2>1, <2>2, VaultLocked DEF Vault!Lock
  <2>3. CASE unlocked' = unlocked
    BY <2>1, <2>3, VaultUntouched
  <2> QED
    BY <2>1, <2>2, <2>3
<1>3. CASE Unlock
  BY <1>2, <1>3 DEF Unlock, VaultStep, Vault!Next
<1>4. CASE VerifyCurrentPin
  BY <1>2, <1>4, VaultUntouched DEF VerifyCurrentPin, vaultVars
<1>5. CASE TurnPinScreen \/ CancelPinChange
  BY <1>5, VaultUntouched DEF TurnPinScreen, CancelPinChange, vaultVars
<1>6. CASE ChangePin
  BY <1>6, VaultUntouched, VaultLocked DEF ChangePin
<1> QED
  BY <1>1, <1>3, <1>4, <1>5, <1>6 DEF PinStep

LEMMA StepUsesVault == SafeInv /\ [Next]_vars => VaultStep
<1> SUFFICES ASSUME SafeInv, [Next]_vars PROVE VaultStep
  OBVIOUS
<1> USE VaultUntouched DEF vaultVars
<1>1. CASE OnEnter \/ OnExit
  BY <1>1, VaultLocked DEF OnEnter, OnExit, Leave
<1>2. CASE AcceptWarning \/ SetAsSleepScreen \/ BeginPinChange
  BY <1>2 DEF AcceptWarning, SetAsSleepScreen, BeginPinChange
<1>3. CASE CheckRadio \/ RestartRadio \/ TakeRequest \/ CopyRequest \/ HandleRequest
  BY <1>3 DEF CheckRadio, RestartRadio, TakeRequest, CopyRequest, HandleRequest
<1>4. CASE ReviewButtons
  BY <1>4 DEF ReviewButtons, RejectReview, TurnPage, ApproveRequest, ReviewIdle
<1>5. CASE OtherButtons
  BY <1>5, VaultLocked DEF OtherButtons, Leave
<1>6. CASE RestartDue \/ LockoutOver \/ Render
  BY <1>6 DEF RestartDue, LockoutOver, Render
<1>7. CASE UNCHANGED activityVars \/ UNCHANGED vars
  BY <1>7 DEF activityVars, vars
<1> QED
  BY <1>1, <1>2, <1>3, <1>4, <1>5, <1>6, <1>7, PinUsesVault DEF Next, PassStep

\* The screen calls the key store as its contract asks: createOrEncrypt only
\* while the vault is locked, and nothing else touches it.
THEOREM WalletUsesVault == Spec => UsesVault
<1>1. Init => Vault!Init
  BY DEF Init, Vault!Init
<1>2. SafeInv /\ [Next]_vars => [Vault!Next]_(Vault!vars)
  BY StepUsesVault DEF VaultStep
<1>3. SafeInv => [CreateOrEncrypt => ~unlocked]_vars
  BY DEF SafeInv, GuardInv, CreateOrEncrypt, OnPin
<1> QED
  BY <1>1, <1>2, <1>3, SafeInvHolds, PTL DEF Spec, UsesVault, Vault!Spec

\* The screen keeps to the calls of the radio service and of the key store, so
\* what is shown of both under any caller holds of the wallet.
THEOREM WalletKeepsToCalls == Spec => UsesCalls
  BY WalletUsesRadio, WalletUsesVault DEF UsesCalls

-----------------------------------------------------------------------------
(* The signing session.  Pages are turned one at a time from the first, so  *)
(* the pages visited are those up to the furthest one reached: whoever      *)
(* stands on the last page has seen them all.  From approveRequest until    *)
(* the digest is stored nothing touches the request, because the main loop  *)
(* is inside the call and no callback writes what the screen keeps.         *)

UnderReview == screen = "Review" /\ step # "handle"

ReviewedInv ==
  UnderReview =>
    /\ reviewPage \in visited
    /\ visited \subseteq Pages(request)
    /\ \A p \in visited : 0 .. p \subseteq visited

ApprovedInv ==
  Approving =>
    /\ screen = "Result" /\ Supported(request)
    /\ visited = Pages(request)
    /\ answer.digest = Digest(request)

SessionInv == ReviewedInv /\ ApprovedInv

\* What is true between passes and calls, and what the session reads.
Facts == WalletInv /\ SafeInv /\ SessionInv

LEMMA PageFacts ==
  ASSUME NEW image \in Image, Supported(image)
  PROVE  /\ RequestId(image) \in Request
         /\ PageCount[RequestId(image)] \in Nat \ {0}
         /\ 0 \in Pages(image)
  BY ActivityAssumption DEF Supported, Pages

\* On the last page every page was visited.
LEMMA LastPageSeesAll ==
  ASSUME WalletInv, ReviewedInv, UnderReview, LastPage
  PROVE  visited = Pages(request)
<1>1. request \in Image /\ Supported(request)
  BY DEF WalletInv, ReviewInv, UnderReview
<1>2. 0 .. reviewPage \subseteq visited /\ visited \subseteq Pages(request)
  BY DEF ReviewedInv
<1>3. Pages(request) = 0 .. reviewPage
  BY <1>1, PageFacts DEF LastPage, Pages, WalletInv, TypeOK, ActivityTypeOK
<1> QED
  BY <1>2, <1>3

\* The page turned to is one of the request's, next to one that was visited.
LEMMA TurnFacts ==
  ASSUME WalletInv, ReviewedInv, UnderReview, TurnPage
  PROVE  /\ reviewPage' \in Pages(request)
         /\ reviewPage' = reviewPage + 1 \/ reviewPage = reviewPage' + 1
<1>1. request \in Image /\ Supported(request) /\ reviewPage \in Nat
  BY DEF WalletInv, ReviewInv, UnderReview, TypeOK, ActivityTypeOK
<1>2. PageCount[RequestId(request)] \in Nat
  BY <1>1, PageFacts
<1>3. reviewPage \in 0 .. PageCount[RequestId(request)] - 1
  BY DEF ReviewedInv, Pages
<1>4. CASE reviewPage > 0 /\ reviewPage' = reviewPage - 1
  BY <1>1, <1>2, <1>3, <1>4 DEF Pages
<1>5. CASE ~LastPage /\ reviewPage' = reviewPage + 1
  BY <1>1, <1>2, <1>3, <1>5 DEF Pages, LastPage
<1> QED
  BY <1>4, <1>5 DEF TurnPage

\* Neither Begin nor End is a call that approves, and both leave the signature
\* alone or forget it.
LEMMA StartSession ==
  ASSUME NEW ok \in BOOLEAN, StartRadio(ok)
  PROVE  /\ call = "idle" /\ call' \in {"idle", "begun"}
         /\ signedDigest' \in {signedDigest, Blank}
<1>1. CASE active
  BY <1>1 DEF StartRadio, Begin, radioVars
<1>2. CASE ~active
  BY <1>2 DEF StartRadio, Begin
<1> QED
  BY <1>1, <1>2

LEMMA EndSession ==
  ASSUME End
  PROVE  call = "idle" /\ call' \in {"idle", "ending"} /\ signedDigest' = signedDigest
  BY DEF End, radioVars

LEMMA HostSession ==
  ASSUME HostStep
  PROVE  UNCHANGED <<call, answer, signedDigest>>
  BY DEF HostStep, OnConnect, OnDisconnect, OnPassKeyDisplay, OnAuthenticationComplete,
     UnauthorizedWrite, MalformedWrite, RefuseWrite, ControlBegin, ControlCommit,
     ControlCancel, DataWrite, callVars

\* What a PIN screen may do: never with a request on offer, it opens the wallet,
\* locks it with the radio down, or leaves it as it is.
LEMMA PinSession ==
  ASSUME PinStep
  PROVE  /\ call = "idle" /\ screen \in PinScreen
         /\ call' \in {"idle", "begun"} /\ screen' # "Review"
         /\ signedDigest' \in {signedDigest, Blank}
         /\ \/ unlocked' \in {TRUE, unlocked}
            \/ unlocked' = FALSE /\ signedDigest' = signedDigest
<1> USE DEF RadioUntouched, radioVars, vaultVars
<1>1. call = "idle" /\ screen \in PinScreen
  BY DEF PinStep, TurnPinScreen, CreateOrEncrypt, Unlock, VerifyCurrentPin,
     CancelPinChange, ChangePin, OnPin, MainIdle, PinScreen
<1>2. ASSUME CompleteUnlock
      PROVE  /\ call' \in {"idle", "begun"} /\ screen' # "Review"
             /\ signedDigest' \in {signedDigest, Blank}
  BY <1>1, <1>2, StartSession DEF CompleteUnlock
<1>3. ASSUME NEW lockWallet \in BOOLEAN, RecordFailedPin(lockWallet)
      PROVE  /\ call' = "idle" /\ signedDigest' = signedDigest /\ screen' # "Review"
             /\ unlocked' \in {unlocked, FALSE}
  BY <1>1, <1>3 DEF RecordFailedPin, PinScreen
<1>4. CASE TurnPinScreen
  BY <1>1, <1>4 DEF TurnPinScreen, PinTurn, PinScreen
<1>5. CASE CreateOrEncrypt
  BY <1>1, <1>2, <1>5 DEF CreateOrEncrypt, Vault!Create, Vault!CreateFails
<1>6. CASE Unlock
  BY <1>1, <1>2, <1>3, <1>6 DEF Unlock, Vault!Open
<1>7. CASE VerifyCurrentPin
  BY <1>1, <1>3, <1>7 DEF VerifyCurrentPin
<1>8. CASE CancelPinChange
  BY <1>1, <1>8, StartSession DEF CancelPinChange
<1>9. CASE ChangePin
  BY <1>1, <1>9, StartSession DEF ChangePin, Vault!Lock
<1> QED
  BY <1>1, <1>4, <1>5, <1>6, <1>7, <1>8, <1>9 DEF PinStep

-----------------------------------------------------------------------------
(* The session invariant is kept. *)

LEMMA SessionInit == Init => SessionInv
  BY DEF Init, RadioInit, SessionInv, ReviewedInv, ApprovedInv, UnderReview, Approving

\* Most steps open no review and approve nothing.
LEMMA NothingPending ==
  ASSUME ~UnderReview', ~Approving'
  PROVE  SessionInv'
  BY DEF SessionInv, ReviewedInv, ApprovedInv

\* The others that do not turn pages leave everything as it was.
LEMMA SameSession ==
  ASSUME SessionInv, UNCHANGED <<request, reviewPage, visited>>,
         UnderReview' => UnderReview,
         Approving' => Approving /\ screen' = screen /\ answer' = answer
  PROVE  SessionInv'
  BY DEF SessionInv, ReviewedInv, ApprovedInv, Supported, Body, RequestId, Pages, Digest

\* What the steps do to the session: a step of it, or nothing.
SessionStep == Session!Next \/ UNCHANGED Session!vars

\* A step that leaves nothing on offer withdraws what was, and may lock.
LEMMA OfferEnds ==
  ASSUME ~OnOffer', signedDigest' = signedDigest, unlocked' \in {unlocked, FALSE}
  PROVE  SessionStep
<1>1. CASE unlocked' = unlocked
  BY <1>1 DEF SessionStep, Session!Next, Session!Withdraw
<1>2. CASE unlocked' = FALSE
  BY <1>2 DEF SessionStep, Session!Next, Session!Close
<1> QED
  BY <1>1, <1>2

\* With nothing on offer before or after, the wallet may open and the service
\* may forget its signature.
LEMMA NoOfferMade ==
  ASSUME ~OnOffer, ~OnOffer', signedDigest' \in {signedDigest, Blank},
         unlocked' \in {unlocked, TRUE}
  PROVE  SessionStep
<1>1. CASE unlocked' = TRUE
  BY <1>1 DEF SessionStep, Session!Next, Session!Open
<1>2. CASE unlocked' = unlocked /\ signedDigest' = signedDigest
  BY <1>2 DEF SessionStep, Session!vars
<1>3. CASE unlocked' = unlocked /\ signedDigest' = Blank
  BY <1>3 DEF SessionStep, Session!Next, Session!Forget
<1> QED
  BY <1>1, <1>2, <1>3

\* The offer is what it was; the service may forget its signature.
LEMMA OfferStays ==
  ASSUME OnOffer' = OnOffer, UNCHANGED <<request, visited, unlocked>>,
         signedDigest' \in {signedDigest, Blank}
  PROVE  SessionStep
<1>1. CASE signedDigest' = signedDigest
  BY <1>1 DEF SessionStep, Session!vars
<1>2. CASE signedDigest' = Blank
  BY <1>2 DEF SessionStep, Session!Next, Session!Forget
<1> QED
  BY <1>1, <1>2

\* The pages the session knows of are the request's.
LEMMA OfferFacts ==
  ASSUME NEW image \in Image, Supported(image)
  PROVE  /\ image \in Supportable /\ image # Blank
         /\ Session!Pages(image) = Pages(image)
<1>1. image \in Supportable
  BY DEF Supportable
<1>2. image # Blank
  BY RadioAssumption DEF Supported, RequestId, Blank, Chunk
<1>3. Session!Pages(image) = Pages(image)
  BY <1>1 DEF Session!Pages, Pages
<1> QED
  BY <1>1, <1>2, <1>3

-----------------------------------------------------------------------------
(* One lemma per group of actions: the invariant is kept, and the session   *)
(* makes a step of its own or none.                                         *)

SessionKept == SessionInv' /\ SessionStep

LEMMA HostKeepsSession ==
  SessionInv /\ HostStep /\ UNCHANGED activityVars => SessionKept
<1> SUFFICES ASSUME SessionInv, HostStep, UNCHANGED activityVars PROVE SessionKept
  OBVIOUS
<1>1. UNCHANGED <<call, answer, signedDigest, screen, step, request, reviewPage,
                  visited, unlocked>>
  BY HostSession DEF activityVars, reviewVars, vaultVars
<1>2. OnOffer' = OnOffer /\ UnderReview' = UnderReview /\ Approving' = Approving
  BY <1>1 DEF OnOffer, Approving, UnderReview
<1> QED
  BY <1>1, <1>2, SameSession, OfferStays DEF SessionKept

LEMMA LeaveKeepsSession == Leave => SessionKept
<1> SUFFICES ASSUME Leave PROVE SessionKept
  OBVIOUS
<1>1. /\ ~UnderReview' /\ ~Approving' /\ ~OnOffer'
      /\ signedDigest' = signedDigest /\ unlocked' = FALSE
  BY EndSession DEF Leave, Vault!Lock, UnderReview, Approving, OnOffer
<1> QED
  BY <1>1, NothingPending, OfferEnds DEF SessionKept

LEMMA PinKeepsSession == PinStep => SessionKept
<1> SUFFICES ASSUME PinStep PROVE SessionKept
  OBVIOUS
<1>1. ~OnOffer /\ ~OnOffer' /\ ~UnderReview' /\ ~Approving'
  BY PinSession DEF UnderReview, Approving, OnOffer, PinScreen
<1> QED
  BY <1>1, PinSession, NothingPending, OfferEnds, NoOfferMade DEF SessionKept

\* Storing the digest is the one step that signs.
LEMMA CallKeepsSession ==
  Facts /\ CallStep /\ UNCHANGED activityVars => SessionKept
<1> SUFFICES ASSUME Facts, CallStep, UNCHANGED activityVars PROVE SessionKept
  OBVIOUS
<1>1. /\ UNCHANGED <<screen, step, request, reviewPage, visited, unlocked>>
      /\ SessionInv /\ UnderReview' = UnderReview
  BY DEF activityVars, reviewVars, vaultVars, Facts, UnderReview
<1>2. CASE AnswerDigest
  <2>1. Approving /\ ~Approving' /\ signedDigest' = answer.digest
    BY <1>2 DEF AnswerDigest, Approving
  <2>2. /\ screen = "Result" /\ Supported(request) /\ visited = Pages(request)
        /\ answer.digest = Digest(request) /\ request \in Image /\ unlocked
    BY <2>1 DEF Facts, SessionInv, ApprovedInv, WalletInv, ReviewInv, SafeInv, GuardInv
  <2>3. request \in Supportable /\ request # Blank /\ Session!Pages(request) = Pages(request)
    BY <2>2, OfferFacts
  <2>4. OnOffer /\ ~OnOffer' /\ ~UnderReview'
    BY <1>1, <2>1, <2>2 DEF OnOffer, UnderReview
  <2>5. Session!Sign
    BY <1>1, <2>1, <2>2, <2>3, <2>4 DEF Session!Sign
  <2> QED
    BY <2>1, <2>4, <2>5, NothingPending DEF SessionKept, SessionStep, Session!Next
<1>3. CASE ~AnswerDigest
  <2>1. Approving' = Approving /\ (Approving => answer' = answer)
        /\ signedDigest' = signedDigest
    BY <1>3 DEF CallStep, BeginActive, EndStopped, AnswerId, AnswerDigest, AnswerState,
       PublishRead, PublishWrite, Approving, sharedVars
  <2>2. OnOffer' = OnOffer
    BY <1>1, <2>1 DEF OnOffer
  <2> QED
    BY <1>1, <2>1, <2>2, SameSession, OfferStays DEF SessionKept
<1> QED
  BY <1>2, <1>3

\* The review's buttons: rejecting withdraws, turning a page turns it, approving
\* keeps the offer until the digest is stored.
LEMMA ButtonsKeepSession == Facts /\ ReviewButtons => SessionKept
<1> SUFFICES ASSUME Facts, ReviewButtons PROVE SessionKept
  OBVIOUS
<1> USE DEF RadioUntouched, radioVars, reviewVars, vaultVars, sharedVars
<1>0. OnReview
  BY DEF ReviewButtons, RejectReview, TurnPage, ApproveRequest, ReviewIdle
<1>1. /\ call = "idle" /\ screen = "Review" /\ step = "buttons" /\ step' = "top"
      /\ UnderReview /\ OnOffer /\ ~Approving
  BY <1>0 DEF OnReview, UnderReview, OnOffer, Approving
<1>2. WalletInv /\ SessionInv /\ ReviewedInv /\ unlocked
  BY <1>1 DEF Facts, SafeInv, GuardInv, SessionInv
<1>3. request \in Image /\ Supported(request)
  BY <1>1, <1>2 DEF WalletInv, ReviewInv
<1>4. request \in Supportable /\ request # Blank /\ Session!Pages(request) = Pages(request)
  BY <1>3, OfferFacts
<1>5. CASE RejectReview
  <2>1. ~UnderReview' /\ ~Approving' /\ ~OnOffer'
        /\ signedDigest' = signedDigest /\ unlocked' = unlocked
    BY <1>5 DEF RejectReview, StartAnswer, UnderReview, Approving, OnOffer
  <2> QED
    BY <2>1, NothingPending, OfferEnds DEF SessionKept
<1>6. CASE TurnPage
  <2>1. /\ UNCHANGED <<request, unlocked, signedDigest, call, answer, screen>>
        /\ visited' = visited \cup {reviewPage'}
    BY <1>6 DEF TurnPage
  <2>2. UnderReview' /\ OnOffer' /\ ~Approving'
    BY <1>1, <2>1 DEF UnderReview, OnOffer, Approving
  <2>3. /\ reviewPage' \in Pages(request) /\ reviewPage \in visited
        /\ reviewPage' = reviewPage + 1 \/ reviewPage = reviewPage' + 1
    BY <1>1, <1>2, <1>6, TurnFacts DEF ReviewedInv
  <2>4. Pages(request)' = Pages(request)
    BY <2>1 DEF Pages, RequestId
  <2>5. Session!Turn
    BY <1>1, <1>4, <2>1, <2>2, <2>3 DEF Session!Turn
  <2>6. 0 .. reviewPage' \subseteq visited'
    <3>1. 0 .. reviewPage \subseteq visited /\ reviewPage \in Nat
      BY <1>1, <1>2, <2>3 DEF ReviewedInv, WalletInv, TypeOK, ActivityTypeOK
    <3>2. reviewPage' \in Nat
      BY <1>3, <2>3, PageFacts DEF Pages
    <3>3. \A k, m \in Nat : m = k + 1 \/ k = m + 1 => 0 .. m \subseteq (0 .. k) \cup {m}
      OBVIOUS
    <3>4. 0 .. reviewPage' \subseteq (0 .. reviewPage) \cup {reviewPage'}
      BY <2>3, <3>1, <3>2, <3>3, Zenon
    <3> QED
      BY <2>1, <3>1, <3>4
  <2>7. ReviewedInv'
    <3>1. reviewPage' \in visited' /\ visited' \subseteq Pages(request)
      BY <1>1, <1>2, <2>1, <2>3 DEF ReviewedInv
    <3>2. \A p \in visited' : 0 .. p \subseteq visited'
      BY <1>1, <1>2, <2>1, <2>6 DEF ReviewedInv
    <3> QED
      BY <2>4, <3>1, <3>2 DEF ReviewedInv
  <2>8. SessionInv'
    BY <2>2, <2>7 DEF SessionInv, ApprovedInv
  <2> QED
    BY <2>5, <2>8 DEF SessionKept, SessionStep, Session!Next
<1>7. CASE ApproveRequest
  <2>1. /\ UNCHANGED <<request, visited, unlocked, signedDigest>>
        /\ LastPage /\ call' = "answering"
    BY <1>7 DEF ApproveRequest, StartAnswer
  <2>2. CASE screen' = "Result" /\ answer' = [id |-> RequestId(request),
                state |-> "Approved", error |-> "None", digest |-> Digest(request)]
    <3>1. Approving' /\ OnOffer' /\ ~UnderReview'
      BY <2>1, <2>2 DEF Approving, OnOffer, UnderReview
    <3>2. visited = Pages(request)
      BY <1>1, <1>2, <2>1, LastPageSeesAll
    <3>3. answer'.digest = Digest(request)
      BY <2>2
    <3>4. /\ Pages(request)' = Pages(request) /\ Digest(request)' = Digest(request)
          /\ Supported(request)' = Supported(request)
      BY <2>1 DEF Pages, Digest, Supported, Body, RequestId
    <3>5. ApprovedInv'
      BY <1>3, <2>1, <2>2, <3>2, <3>3, <3>4 DEF ApprovedInv
    <3>6. SessionInv'
      BY <3>1, <3>5 DEF SessionInv, ReviewedInv
    <3> QED
      BY <1>1, <2>1, <3>1, <3>6, OfferStays DEF SessionKept
  <2>3. CASE screen' = "Error" /\ answer'.state = "Error"
    <3>1. ~UnderReview' /\ ~Approving' /\ ~OnOffer'
      BY <2>3 DEF UnderReview, Approving, OnOffer
    <3> QED
      BY <2>1, <3>1, NothingPending, OfferEnds DEF SessionKept
  <2> QED
    BY <1>7, <2>2, <2>3 DEF ApproveRequest, StartAnswer
<1>8. CASE ReviewIdle
  <2>1. UNCHANGED <<request, reviewPage, visited, unlocked, signedDigest, call, answer, screen>>
    BY <1>8 DEF ReviewIdle
  <2>2. UnderReview' /\ OnOffer' /\ ~Approving'
    BY <1>1, <2>1 DEF UnderReview, OnOffer, Approving
  <2> QED
    BY <1>1, <1>2, <2>1, <2>2, SameSession, OfferStays DEF SessionKept
<1> QED
  BY <1>5, <1>6, <1>7, <1>8 DEF ReviewButtons

\* The rest of a pass: the radio's upkeep, the request taken, copied and parsed,
\* and the other screens' buttons.
LEMMA PassKeepsSession == Facts /\ PassStep => SessionKept
<1> SUFFICES ASSUME Facts, PassStep PROVE SessionKept
  OBVIOUS
<1> USE DEF RadioUntouched, radioVars, reviewVars, vaultVars, sharedVars
<1>0. SessionInv /\ TypeOK
  BY DEF Facts, WalletInv
<1>1. CASE CheckRadio
  <2>1. /\ call = "idle" /\ call' \in {"idle", "ending"} /\ step = "top"
        /\ step' \in {"restart", "take"}
        /\ UNCHANGED <<signedDigest, unlocked, reviewPage>>
    BY <1>1, EndSession DEF CheckRadio, MainIdle
  <2>2. CASE screen' = "Waiting"
    <3>1. ~UnderReview' /\ ~Approving' /\ ~OnOffer'
      BY <2>1, <2>2 DEF UnderReview, Approving, OnOffer
    <3> QED
      BY <2>1, <3>1, NothingPending, OfferEnds DEF SessionKept
  <2>3. CASE UNCHANGED <<screen, request, visited>>
    <3>1. UnderReview' = UnderReview /\ ~Approving' /\ OnOffer' = OnOffer
      BY <2>1, <2>3 DEF UnderReview, Approving, OnOffer
    <3> QED
      BY <1>0, <2>1, <2>3, <3>1, SameSession, OfferStays DEF SessionKept
  <2> QED
    BY <1>1, <2>2, <2>3 DEF CheckRadio
<1>2. CASE RestartRadio
  <2>1. /\ call = "idle" /\ call' \in {"idle", "begun"} /\ step = "restart" /\ step' = "take"
        /\ signedDigest' \in {signedDigest, Blank}
        /\ UNCHANGED <<unlocked, request, reviewPage, visited, screen>>
    BY <1>2, StartSession DEF RestartRadio
  <2>2. UnderReview' = UnderReview /\ ~Approving' /\ OnOffer' = OnOffer
    BY <2>1 DEF UnderReview, Approving, OnOffer
  <2> QED
    BY <1>0, <2>1, <2>2, SameSession, OfferStays DEF SessionKept
<1>3. CASE TakeRequest
  <2>1. /\ call = "idle" /\ call' \in {"idle", "taking"} /\ step = "take"
        /\ step' \in {"handle", "buttons"}
        /\ UNCHANGED <<unlocked, request, reviewPage, visited, screen, signedDigest>>
    BY <1>3 DEF TakeRequest, TakeExchange
  <2>2. ~Approving /\ ~Approving'
    BY <2>1 DEF Approving
  <2>3. CASE step' = "handle"
    <3>1. ~UnderReview' /\ ~OnOffer'
      BY <2>2, <2>3 DEF UnderReview, OnOffer
    <3> QED
      BY <2>1, <2>2, <3>1, NothingPending, OfferEnds DEF SessionKept
  <2>4. CASE step' = "buttons"
    <3>1. UnderReview' = UnderReview /\ OnOffer' = OnOffer
      BY <2>1, <2>2, <2>4 DEF UnderReview, OnOffer
    <3> QED
      BY <1>0, <2>1, <2>2, <3>1, SameSession, OfferStays DEF SessionKept
  <2> QED
    BY <2>1, <2>3, <2>4
<1>4. CASE CopyRequest
  <2>1. step = "handle" /\ call = "taking"
    BY <1>4 DEF CopyRequest, TakeCopy, Facts, WalletInv, ReviewInv
  <2>2. step' = "handle" /\ call' = "idle" /\ UNCHANGED <<unlocked, signedDigest>>
    BY <1>4, <2>1 DEF CopyRequest, TakeCopy
  <2>3. ~UnderReview' /\ ~Approving' /\ ~OnOffer'
    BY <2>2 DEF UnderReview, Approving, OnOffer
  <2> QED
    BY <2>2, <2>3, NothingPending, OfferEnds DEF SessionKept
<1>5. CASE HandleRequest
  <2>1. step = "handle" /\ call = "idle" /\ step' = "buttons" /\ request' = request
        /\ UNCHANGED <<unlocked, signedDigest>>
    BY <1>5 DEF HandleRequest, StartAnswer
  <2>2. unlocked /\ request \in Image
    BY <2>1 DEF Facts, SafeInv, GuardInv, WalletInv, ReviewInv
  <2>3. CASE Supported(request)
    <3>1. screen' = "Review" /\ reviewPage' = 0 /\ visited' = {0} /\ call' = "idle"
      BY <1>5, <2>1, <2>3 DEF HandleRequest
    <3>2. UnderReview' /\ OnOffer' /\ ~Approving'
      BY <2>1, <3>1 DEF UnderReview, OnOffer, Approving
    <3>3. request \in Supportable
      BY <2>2, <2>3, OfferFacts
    <3>4. Session!Offer(request)
      BY <2>1, <2>2, <3>1, <3>2 DEF Session!Offer
    <3>5. SessionStep
      BY <3>3, <3>4 DEF SessionStep, Session!Next
    <3>6. Pages(request)' = Pages(request) /\ 0 \in Pages(request)
      BY <2>1, <2>2, <2>3, PageFacts DEF Pages, RequestId
    <3>7. ReviewedInv'
      BY <3>1, <3>6 DEF ReviewedInv
    <3> QED
      BY <3>2, <3>5, <3>7 DEF SessionKept, SessionInv, ApprovedInv
  <2>4. CASE ~Supported(request)
    <3>1. screen' = "Error" /\ answer'.state = "Error"
      BY <1>5, <2>4 DEF HandleRequest, StartAnswer
    <3>2. ~UnderReview' /\ ~Approving' /\ ~OnOffer'
      BY <3>1 DEF UnderReview, Approving, OnOffer
    <3> QED
      BY <2>1, <3>2, NothingPending, OfferEnds DEF SessionKept
  <2> QED
    BY <2>3, <2>4
<1>6. CASE OtherButtons
  <2>1. CASE ~Leave
    <3>1. /\ screen # "Review" /\ call = "idle" /\ call' = "idle" /\ screen' # "Review"
          /\ UNCHANGED <<unlocked, signedDigest>>
      BY <1>6, <2>1 DEF OtherButtons
    <3>2. ~UnderReview' /\ ~Approving' /\ ~OnOffer'
      BY <3>1 DEF UnderReview, Approving, OnOffer
    <3> QED
      BY <3>1, <3>2, NothingPending, OfferEnds DEF SessionKept
  <2> QED
    BY <2>1, LeaveKeepsSession
<1> QED
  BY <1>1, <1>2, <1>3, <1>4, <1>5, <1>6, ButtonsKeepSession, CallKeepsSession DEF PassStep

LEMMA StepKeepsSession == Facts /\ [Next]_vars => SessionKept
<1> SUFFICES ASSUME Facts, [Next]_vars PROVE SessionKept
  OBVIOUS
<1> USE DEF RadioUntouched, radioVars, reviewVars, vaultVars, activityVars, MainIdle
<1>0. SessionInv /\ TypeOK
  BY DEF Facts, WalletInv
<1>1. CASE OnEnter \/ AcceptWarning \/ SetAsSleepScreen
  <2>1. /\ call = "idle" /\ call' = "idle" /\ screen # "Review" /\ screen' # "Review"
        /\ signedDigest' = signedDigest /\ unlocked' \in {unlocked, FALSE}
    BY <1>0, <1>1 DEF OnEnter, AcceptWarning, SetAsSleepScreen, TypeOK, ActivityTypeOK,
       Vault!Lock
  <2>2. ~UnderReview' /\ ~Approving' /\ ~OnOffer'
    BY <2>1 DEF UnderReview, Approving, OnOffer
  <2> QED
    BY <2>1, <2>2, NothingPending, OfferEnds DEF SessionKept
<1>2. CASE BeginPinChange
  <2>1. /\ call' \in {"idle", "ending"} /\ screen' # "Review"
        /\ UNCHANGED <<signedDigest, unlocked>>
    BY <1>2, EndSession DEF BeginPinChange
  <2>2. ~UnderReview' /\ ~Approving' /\ ~OnOffer'
    BY <2>1 DEF UnderReview, Approving, OnOffer
  <2> QED
    BY <2>1, <2>2, NothingPending, OfferEnds DEF SessionKept
<1>3. CASE RestartDue \/ LockoutOver \/ Render \/ UNCHANGED vars
  <2>1. UNCHANGED <<request, reviewPage, visited, unlocked, signedDigest, call, answer,
                    screen, step>>
    BY <1>3 DEF RestartDue, LockoutOver, Render, vars
  <2>2. UnderReview' = UnderReview /\ Approving' = Approving /\ OnOffer' = OnOffer
    BY <2>1 DEF UnderReview, Approving, OnOffer
  <2> QED
    BY <1>0, <2>1, <2>2, SameSession, OfferStays DEF SessionKept
<1> QED
  BY <1>0, <1>1, <1>2, <1>3, HostKeepsSession, LeaveKeepsSession, PinKeepsSession,
     PassKeepsSession
  DEF Next, OnExit

\* The wallet implements the signing session: every signature it makes is of
\* the request under review in an open wallet, whose pages were all turned to
\* since it was taken (handleRequest, the review's buttons, approveRequest and
\* the digest stored by approve), whatever the phone sends meanwhile.
THEOREM WalletImplementsSession == Spec => ImplementsSession
<1>1. Init => Session!Init
  BY DEF Init, RadioInit, Session!Init, OnOffer, Approving
<1>2. Facts /\ [Next]_vars => SessionKept
  BY StepKeepsSession
<1>3. SessionKept => SessionInv' /\ [Session!Next]_(Session!vars)
  BY DEF SessionKept, SessionStep
<1>4. Init => SessionInv
  BY SessionInit
<1>5. Facts <=> WalletInv /\ SafeInv /\ SessionInv
  BY DEF Facts
<1> QED
  BY <1>1, <1>2, <1>3, <1>4, <1>5, WalletInvHolds, SafeInvHolds, PTL
  DEF Spec, ImplementsSession, Session!Spec

=============================================================================
