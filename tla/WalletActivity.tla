--------------------------- MODULE WalletActivity ---------------------------
(***************************************************************************)
(* The wallet screen, src/apps/EvmWalletActivity.cpp, on top of the radio  *)
(* service: PIN screens, review, signing, radio restarts.                  *)
(*                                                                         *)
(* One pass of loop() on the screens that serve the radio is the sequence  *)
(* top -> (restart) -> take -> handle -> buttons.  The buttons are latched *)
(* before the pass (mappedInput) and read at its end: any release may be   *)
(* latched whatever the pass then meets, so it is chosen where it is read. *)
(* Callbacks of the host task may run between any two steps, and the       *)
(* render task at any time.  The vault is known by the calls of            *)
(* VaultContract, which KeyVault implements.                               *)
(***************************************************************************)
EXTENDS WalletRadio

CONSTANTS
  PageCount,      \* review pages a request needs (reviewPageCount)
  BodyChunks,     \* leading chunks that hold the request's payload
  Unsupported,    \* requests the parsers refuse
  FreeForm,       \* plain messages: bytes of another or no request also parse
  FailureLimit,   \* wrong PINs before a lockout (code: 3)
  AttemptWrap     \* failedPinAttempts is a uint8_t (code: 2^8)

ASSUME ActivityAssumption ==
  /\ PageCount \in [Request -> Nat \ {0}]
  /\ BodyChunks \in [Request -> Chunk]
  /\ Unsupported \subseteq Request /\ FreeForm \subseteq Request
  /\ FailureLimit \in Nat \ {0} /\ AttemptWrap \in Nat /\ FailureLimit < AttemptWrap

VARIABLES
  screen,         \* "Closed": no wallet activity on the stack
  step,           \* position in loop()
  request,        \* wire image copied by takeRequest
  reviewPage,
  visited,        \* history: pages reviewPage went through for `request'
  shown,          \* history: pages of `request' the render task has drawn
  hasAddress,
  vault,          \* what NVS holds: "absent", "legacy" (plaintext), "sealed"
  unlocked,       \* EVM_KEY_VAULT.isUnlocked()
  restart,        \* bleRestartAt: "off", "armed", or "due"
  lockout,        \* pinLockedUntil: likewise
  failures        \* failedPinAttempts

reviewVars   == <<request, reviewPage, visited, shown>>
vaultVars    == <<hasAddress, vault, unlocked>>
pinVars      == <<lockout, failures>>
activityVars == <<screen, step, reviewVars, vaultVars, restart, pinVars>>
vars         == <<radioVars, activityVars>>

PinScreen   == {"SetPin", "ConfirmPin", "UnlockPin",
                "ChangeCurrentPin", "ChangeNewPin", "ChangeConfirmPin"}
RadioScreen == {"Waiting", "PinChanged", "Review", "Result", "Error"}
Screen      == {"Closed", "CreateWarning"} \cup PinScreen \cup RadioScreen
Timer       == {"off", "armed", "due"}

ActivityTypeOK ==
  /\ screen \in Screen
  /\ step \in {"top", "restart", "take", "handle", "buttons"}
  /\ request \in Image
  /\ reviewPage \in Nat
  /\ visited \in SUBSET Nat /\ shown \in SUBSET Nat
  /\ hasAddress \in BOOLEAN
  /\ vault \in {"absent", "legacy", "sealed"}
  /\ unlocked \in BOOLEAN
  /\ restart \in Timer /\ lockout \in Timer
  /\ failures \in 0 .. AttemptWrap - 1

\* The ranges of all variables of the wallet screen and its radio service.
TypeOK == RadioTypeOK /\ ActivityTypeOK

Init ==
  /\ RadioInit
  /\ screen = "Closed" /\ step = "top"
  /\ request = Blank /\ reviewPage = 0 /\ visited = {} /\ shown = {}
  /\ hasAddress = FALSE
  /\ vault \in {"absent", "legacy", "sealed"}
  /\ unlocked = FALSE
  /\ restart = "off" /\ lockout = "off" /\ failures = 0

Vault == INSTANCE VaultContract

-----------------------------------------------------------------------------
(* What the parsers make of a wire image (parseEip1559, parseEip712,        *)
(* parsePersonalMessage, parseSiwe).                                        *)

Body(image) == 1 .. BodyChunks[RequestId(image)]

Supported(image) ==
  /\ RequestId(image) \in Request \ Unsupported
  /\ \/ RequestId(image) \in FreeForm
     \/ \A i \in Body(image) : image[i] = RequestId(image)

Digest(image) == [i \in Chunk |-> IF i \in Body(image) THEN image[i] ELSE None]
Pages(image)  == 0 .. PageCount[RequestId(image)] - 1

-----------------------------------------------------------------------------
(* Parts shared by several actions. *)

\* Mutant: a start that failed is not tried again.
MutantStartOnce(ok) == Begin(ok) /\ restart' = "off"

\* startRadio: `ok' is the outcome of begin().
StartRadio(ok) ==
  /\ Begin(ok)
  /\ restart' = IF ok THEN "off" ELSE "armed"

RadioUntouched == UNCHANGED radioVars

\* completeUnlock, after the vault was opened.
CompleteUnlock ==
  \/ /\ hasAddress' = TRUE
     /\ lockout' = "off" /\ failures' = 0
     /\ screen' = "Waiting"
     /\ \E ok \in BOOLEAN : StartRadio(ok)
  \/ /\ hasAddress' = FALSE
     /\ screen' = "Error"
     /\ lockout' = "off"
     /\ RadioUntouched /\ UNCHANGED <<restart, failures>>

\* Mutant: the counter is wider than its range.
MutantNoWrap(lockWallet) ==
  /\ failures' = failures + 1
  /\ lockout' = IF failures' < FailureLimit THEN "off" ELSE "armed"
  /\ RadioUntouched /\ UNCHANGED <<screen, unlocked, restart, hasAddress, vault>>

\* recordFailedPinAttempt; the counter wraps as a uint8_t does.
RecordFailedPin(lockWallet) ==
  /\ failures' = (failures + 1) % AttemptWrap
  /\ IF failures' < FailureLimit
     THEN lockout' = "off" /\ UNCHANGED <<screen, unlocked>>
     ELSE /\ lockout' = "armed"
          /\ IF lockWallet
             THEN unlocked' = FALSE /\ screen' = "UnlockPin"
             ELSE UNCHANGED <<screen, unlocked>>
  /\ RadioUntouched /\ UNCHANGED <<restart, hasAddress, vault>>

\* onExit: end() and lock(); the next wallet screen is a new object.
Leave ==
  /\ End
  /\ Vault!Lock
  /\ screen' = "Closed" /\ step' = "top"
  /\ restart' = "off" /\ lockout' = "off" /\ failures' = 0
  /\ hasAddress' = FALSE
  /\ request' = Blank /\ reviewPage' = 0 /\ visited' = {} /\ shown' = {}

MainIdle == call = "idle" /\ step = "top"

-----------------------------------------------------------------------------
(* Opening and closing. *)

OnEnter ==
  /\ MainIdle /\ screen = "Closed"
  /\ Vault!Lock
  /\ screen' = CASE vault = "sealed" -> "UnlockPin"
                 [] vault = "legacy" -> "SetPin"
                 [] vault = "absent" -> "CreateWarning"
  /\ RadioUntouched
  /\ UNCHANGED <<step, reviewVars, hasAddress, restart, pinVars>>

\* Back on a screen that finishes, or a home gesture, or sleep: between passes.
OnExit == MainIdle /\ screen # "Closed" /\ Leave

\* CreateWarning: Confirm goes on to the choice of a PIN.
AcceptWarning ==
  /\ MainIdle /\ screen = "CreateWarning"
  /\ screen' = "SetPin"
  /\ RadioUntouched
  /\ UNCHANGED <<step, reviewVars, vaultVars, restart, pinVars>>

-----------------------------------------------------------------------------
(* PIN screens: handlePinInput and submitPin.  Moving between digits and    *)
(* turning them is left out; Confirm is its press on the last digit.        *)

OnPin(s) == MainIdle /\ screen = s /\ lockout # "armed"

\* Mutant: a new PIN is confirmed on the screen that makes a wallet.
MutantPinTurn ==
  [SetPin           |-> {"ConfirmPin"},
   ConfirmPin       |-> {"SetPin"},
   UnlockPin        |-> {},
   ChangeCurrentPin |-> {},
   ChangeNewPin     |-> {"ConfirmPin", "ChangeCurrentPin"},
   ChangeConfirmPin |-> {"ChangeNewPin"}]

\* Screens that only compare or remember the digits, and the step back from each.
PinTurn ==
  [SetPin           |-> {"ConfirmPin"},
   ConfirmPin       |-> {"SetPin"},
   UnlockPin        |-> {},
   ChangeCurrentPin |-> {},
   ChangeNewPin     |-> {"ChangeConfirmPin", "ChangeCurrentPin"},
   ChangeConfirmPin |-> {"ChangeNewPin"}]

TurnPinScreen ==
  /\ \E s \in PinScreen : OnPin(s) /\ screen' \in PinTurn[s]
  /\ lockout' = "off"
  /\ RadioUntouched
  /\ UNCHANGED <<step, reviewVars, vaultVars, restart, failures>>

\* ConfirmPin with matching digits: createOrEncrypt.
CreateOrEncrypt ==
  /\ OnPin("ConfirmPin")
  /\ \/ Vault!Create /\ CompleteUnlock
     \/ /\ Vault!CreateFails
        /\ screen' = "Error" /\ lockout' = "off"
        /\ RadioUntouched
        /\ UNCHANGED <<hasAddress, restart, failures>>
  /\ UNCHANGED <<step, reviewVars>>

Unlock ==
  /\ OnPin("UnlockPin")
  /\ \/ Vault!Open /\ CompleteUnlock
     \/ RecordFailedPin(FALSE)
  /\ UNCHANGED <<step, reviewVars>>

VerifyCurrentPin ==
  /\ OnPin("ChangeCurrentPin")
  /\ \/ /\ screen' = "ChangeNewPin"
        /\ lockout' = "off" /\ failures' = 0
        /\ RadioUntouched
        /\ UNCHANGED <<restart, vaultVars>>
     \/ RecordFailedPin(TRUE)
  /\ UNCHANGED <<step, reviewVars>>

\* Back on ChangeCurrentPin: cancelPinChange.
CancelPinChange ==
  /\ OnPin("ChangeCurrentPin")
  /\ screen' = "Waiting" /\ lockout' = "off"
  /\ \E ok \in BOOLEAN : StartRadio(ok)
  /\ UNCHANGED <<step, reviewVars, vaultVars, failures>>

\* ChangeConfirmPin with matching digits: changePin, which locks the vault
\* when the old record could not be put back.
ChangePin ==
  /\ OnPin("ChangeConfirmPin")
  /\ lockout' = "off"
  /\ \/ /\ screen' \in {"PinChanged", "Error"}
        /\ \E ok \in BOOLEAN : StartRadio(ok)
        /\ UNCHANGED <<vault, unlocked>>
     \/ /\ Vault!Lock /\ screen' = "UnlockPin"
        /\ RadioUntouched /\ UNCHANGED restart
  /\ UNCHANGED <<step, reviewVars, hasAddress, failures>>

PinStep == TurnPinScreen \/ CreateOrEncrypt \/ Unlock \/ VerifyCurrentPin
           \/ CancelPinChange \/ ChangePin

-----------------------------------------------------------------------------
(* One pass of loop() on the screens that serve the radio. *)

\* Left and Right on Waiting end the pass before the radio is looked at.
SetAsSleepScreen ==
  /\ MainIdle /\ screen = "Waiting"
  /\ RadioUntouched
  /\ UNCHANGED <<screen, step, reviewVars, vaultVars, restart, pinVars>>

\* Mutant: the radio stays up while the PIN is changed.
MutantPinChangeOnAir ==
  /\ MainIdle /\ screen = "Waiting"
  /\ RadioUntouched
  /\ restart' = "off" /\ screen' = "ChangeCurrentPin"
  /\ UNCHANGED <<step, reviewVars, vaultVars, pinVars>>

BeginPinChange ==
  /\ MainIdle /\ screen = "Waiting"
  /\ End
  /\ restart' = "off" /\ screen' = "ChangeCurrentPin"
  /\ UNCHANGED <<step, reviewVars, vaultVars, pinVars>>

RadioFailed == walletState = "Error" /\ walletError = "RadioFailure"

\* Mutant: every pass puts the restart off.
MutantRestartPutOff ==
  /\ MainIdle /\ screen \in RadioScreen
  /\ restart' = IF restart = "off" THEN "off" ELSE "armed"
  /\ step' = "take"
  /\ RadioUntouched /\ UNCHANGED <<screen, reviewVars, vaultVars, pinVars>>

\* restartRadioIfNeeded up to end(): a radio failure drops the review and arms
\* the timer, and a timer that has run out tears the service down.
CheckRadio ==
  /\ MainIdle /\ screen \in RadioScreen
  /\ IF RadioFailed /\ screen = "Review"
     THEN request' = Blank /\ screen' = "Waiting" /\ visited' = {} /\ shown' = {}
     ELSE UNCHANGED <<request, screen, visited, shown>>
  /\ IF restart = "due"
     THEN End /\ restart' = "off" /\ step' = "restart"
     ELSE /\ RadioUntouched
          /\ restart' = IF RadioFailed THEN "armed" ELSE restart
          /\ step' = "take"
  /\ UNCHANGED <<reviewPage, vaultVars, pinVars>>

RestartRadio ==
  /\ step = "restart" /\ call = "idle"
  /\ \E ok \in BOOLEAN : StartRadio(ok)
  /\ step' = "take"
  /\ UNCHANGED <<screen, reviewVars, vaultVars, pinVars>>

\* Mutant: a request is not taken while another is under review.
MutantTakeNotInReview ==
  /\ step = "take" /\ call = "idle"
  /\ IF requestReady /\ screen # "Review"
     THEN TakeExchange /\ step' = "handle"
     ELSE RadioUntouched /\ step' = "buttons"
  /\ UNCHANGED <<screen, reviewVars, vaultVars, restart, pinVars>>

TakeRequest ==
  /\ step = "take" /\ call = "idle"
  /\ IF requestReady
     THEN TakeExchange /\ step' = "handle"
     ELSE RadioUntouched /\ step' = "buttons"
  /\ UNCHANGED <<screen, reviewVars, vaultVars, restart, pinVars>>

CopyRequest ==
  /\ TakeCopy
  /\ request' = staging /\ visited' = {} /\ shown' = {}
  /\ UNCHANGED <<screen, step, reviewPage, vaultVars, restart, pinVars>>

\* Mutant: a new review opens on the page the last one was left on.
MutantKeepsPage ==
  /\ step = "handle" /\ call = "idle"
  /\ step' = "buttons"
  /\ Supported(request)
  /\ screen' = "Review" /\ visited' = {reviewPage} /\ shown' = {}
  /\ RadioUntouched
  /\ UNCHANGED <<reviewPage, request, vaultVars, restart, pinVars>>

\* handleRequest: parse and open the review, or reject.
HandleRequest ==
  /\ step = "handle" /\ call = "idle"
  /\ step' = "buttons"
  /\ IF Supported(request)
     THEN /\ screen' = "Review" /\ reviewPage' = 0
          /\ visited' = {0} /\ shown' = {}
          /\ RadioUntouched
     ELSE /\ screen' = "Error"
          /\ StartAnswer([id |-> RequestId(request), state |-> "Error",
                          error |-> "Refused", digest |-> Blank])
          /\ UNCHANGED <<reviewPage, visited, shown>>
  /\ UNCHANGED <<request, vaultVars, restart, pinVars>>

\* The review's buttons: Back rejects, Up and Down turn the page, Confirm turns
\* it or, on the last one, approves.
OnReview == step = "buttons" /\ call = "idle" /\ screen = "Review" /\ step' = "top"

LastPage == reviewPage + 1 = PageCount[RequestId(request)]

RejectReview ==
  /\ OnReview
  /\ StartAnswer([id |-> RequestId(request), state |-> "Rejected",
                  error |-> "None", digest |-> Blank])
  /\ screen' = "Waiting"
  /\ UNCHANGED <<reviewVars, vaultVars, restart, pinVars>>

TurnPage ==
  /\ OnReview
  /\ \/ reviewPage > 0 /\ reviewPage' = reviewPage - 1
     \/ ~LastPage /\ reviewPage' = reviewPage + 1
  /\ visited' = visited \cup {reviewPage'}
  /\ RadioUntouched
  /\ UNCHANGED <<screen, request, shown, vaultVars, restart, pinVars>>

\* approveRequest: signDigest refuses when locked and may fail otherwise.
ApproveRequest ==
  /\ OnReview /\ LastPage
  /\ \/ /\ unlocked
        /\ StartAnswer([id |-> RequestId(request), state |-> "Approved",
                        error |-> "None", digest |-> Digest(request)])
        /\ screen' = "Result"
     \/ /\ StartAnswer([id |-> RequestId(request), state |-> "Error",
                        error |-> "Refused", digest |-> Blank])
        /\ screen' = "Error"
  /\ UNCHANGED <<reviewVars, vaultVars, restart, pinVars>>

ReviewIdle ==
  /\ OnReview
  /\ RadioUntouched
  /\ UNCHANGED <<screen, reviewVars, vaultVars, restart, pinVars>>

\* The other screens' buttons: Back leaves, Confirm goes on.  The copy of an
\* earlier request is not read again before the next one replaces it; it is
\* forgotten here.
OtherButtons ==
  /\ step = "buttons" /\ call = "idle" /\ screen # "Review"
  /\ \/ Leave
     \/ /\ step' = "top"
        /\ screen' \in {screen, IF screen = "Error" /\ ~unlocked THEN "UnlockPin" ELSE "Waiting"}
        /\ request' = Blank /\ visited' = {} /\ shown' = {}
        /\ RadioUntouched
        /\ UNCHANGED <<reviewPage, vaultVars, restart, pinVars>>

ReviewButtons == RejectReview \/ TurnPage \/ ApproveRequest \/ ReviewIdle

PassStep == CheckRadio \/ RestartRadio \/ TakeRequest \/ CopyRequest
            \/ HandleRequest \/ ReviewButtons \/ OtherButtons
            \/ (CallStep /\ UNCHANGED activityVars)

-----------------------------------------------------------------------------
(* Time, and the render task. *)

RestartDue  == restart = "armed" /\ restart' = "due"
               /\ UNCHANGED <<radioVars, screen, step, reviewVars, vaultVars, pinVars>>
LockoutOver == lockout = "armed" /\ lockout' = "due"
               /\ UNCHANGED <<radioVars, screen, step, reviewVars, vaultVars,
                              restart, failures>>

\* render() draws the fields as they are when it runs.
Render ==
  /\ screen = "Review"
  /\ shown' = shown \cup {reviewPage}
  /\ RadioUntouched
  /\ UNCHANGED <<screen, step, request, reviewPage, visited, vaultVars,
                 restart, pinVars>>

Next ==
  \/ HostStep /\ UNCHANGED activityVars
  \/ OnEnter \/ OnExit \/ AcceptWarning \/ PinStep
  \/ SetAsSleepScreen \/ BeginPinChange
  \/ PassStep
  \/ RestartDue \/ LockoutOver \/ Render

Spec == Init /\ [][Next]_vars

\* The main loop and the timers run; the user does not use the Left and Right
\* of Waiting in every pass; a stack that is started again and again comes up
\* some time.
LiveSpec ==
  /\ Spec
  /\ WF_vars(PassStep) /\ WF_vars(RestartDue)
  /\ SF_vars(CheckRadio)
  /\ SF_vars(RestartRadio /\ advertising')

-----------------------------------------------------------------------------

\* The radio serves only an open wallet, and only on the screens whose pass of
\* loop() polls it: never while a PIN is asked for or the vault is locked.
RadioOnlyUnlocked == active => unlocked /\ screen \in RadioScreen

\* The screen reaches the service through its calls only, one at a time, so
\* what holds of RadioSpec holds of the wallet.
UsesRadio == RadioSpec

\* The screen keeps to the calls of the key store, and makes or seals a key only
\* while the vault is locked: createOrEncrypt does not look, and with a read of
\* NVS that fails it would seal another key under the session that is open.  So
\* what KeyVault is shown to do holds under this caller.
UsesVault == Vault!Spec /\ [][CreateOrEncrypt => ~unlocked]_vars

\* Both of the above.
UsesCalls == UsesRadio /\ UsesVault

\* While the address is on the screen, a radio that is down between passes has
\* a restart pending (startRadio, scheduleRadioRestart).
DownMeansRestart ==
  MainIdle /\ hasAddress /\ screen \in RadioScreen /\ ~active => restart # "off"

\* A committed request is consumed: the loop takes it, or the phone withdraws
\* it, or the wallet leaves.  It never stays behind.
CommittedIsTaken == requestReady ~> ~requestReady

\* A restart that was scheduled is attempted (or given up on leaving).
RestartIsAttempted == restart # "off" ~> restart = "off"

\* A wallet that showed its address when a radio failure left it deaf becomes
\* reachable again, or the user goes elsewhere (README: automatic BLE restart
\* after recoverable radio failures).
Serving       == hasAddress /\ screen \in RadioScreen
Deaf          == active /\ RadioFailed /\ ~advertising /\ link = "none"
RadioRecovers == Serving /\ Deaf ~> ~Serving \/ advertising

\* The pages of a request whose signature is being published were all drawn on
\* the panel before (docs/ethereum-wallet.md: the X3 displays the review and
\* signs after physical confirmation).
SignedWasDisplayed ==
  call \in {"answering", "answered"} /\ answer.state = "Approved"
    => shown = Pages(request)

(* The signing session this implements.  A request is on offer from the end *)
(* of handleRequest until it is rejected, replaced, dropped or signed.  A   *)
(* blank image stands for none: it is never supported.                      *)

Approving == call \in {"answering", "answered"} /\ answer.state = "Approved"
OnOffer   == (screen = "Review" /\ step # "handle") \/ Approving
Supportable == {image \in Image : Supported(image)}

Session == INSTANCE SigningSession WITH
  Content     <- Supportable,
  NoOffer     <- Blank,
  PageCount   <- [image \in Supportable |-> PageCount[RequestId(image)]],
  DigestOf    <- [image \in Supportable |-> Digest(image)],
  NoSignature <- Blank,
  open        <- unlocked,
  offer       <- IF OnOffer THEN request ELSE Blank,
  visited     <- IF OnOffer THEN visited ELSE {},
  signature   <- signedDigest

\* Every signature answers a request that was on offer in an open wallet and
\* whose every page was reached since it was taken.
ImplementsSession == Session!Spec

=============================================================================
