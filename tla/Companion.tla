------------------------------ MODULE Companion ------------------------------
(***************************************************************************)
(* The wallet side of the iPhone companion: WalletConnectManager takes     *)
(* requests of dapps, CompanionModel holds the one request that is out for *)
(* signing (a dapp's, or a transfer of the user's own), BLESyncManager     *)
(* carries it to the X3 and brings the answer back.                        *)
(*                                                                         *)
(* Everything runs on the main thread, so an action is what one turn of it *)
(* does: up to the next `await', or up to the end of a callback.  An       *)
(* awaiting Task and a Task that has not started yet are part of the       *)
(* state; any other turn may come first.                                   *)
(***************************************************************************)
EXTENDS Integers, Sequences

CONSTANTS
  Request,     \* what dapps ask for, each at most once
  Batch,       \* the wallet_sendCalls among them
  Relayed,     \* the eth_sendTransaction among them
  Message,     \* the personal_sign, eth_sign and eth_signTypedData_v4 among them
  Transfer,    \* the user's own transactions (signEvm)
  CallCount,   \* calls in a batch
  MaxDrops,    \* connections lost for no reason of the phone's
  MaxErrors,   \* writes that fail while the connection stays
  None

ASSUME CompanionAssumption ==
  /\ Batch \subseteq Request /\ Relayed \subseteq Request /\ Message \subseteq Request
  /\ Batch \cap Relayed = {} /\ Message \cap (Batch \cup Relayed) = {}
  /\ Request \cap Transfer = {}
  /\ CallCount \in Nat \ {0} /\ MaxDrops \in Nat /\ MaxErrors \in Nat
  /\ None \notin Request \cup Transfer
  /\ None \notin [of : Request \cup Transfer, call : 1 .. CallCount]

VARIABLES
  asked,           \* requests the dapps have sent
  answers,         \* what each dapp was answered, in order
  pendingRequest,  \* WalletConnectManager.pendingRequest, with pendingMethod
  pendingBatch,    \* WalletConnectManager.pendingBatch
  preparing,       \* requests whose Task awaits prepare
  submitting,      \* Tasks of submitApprovedBatch
  relaying,        \* Tasks that await eth_sendRawTransaction for a single request
  broadcast,       \* transactions the network has accepted, in order
  outstanding,     \* CompanionModel.pendingRequest
  composing,       \* the transfer whose preparation signEvm awaits
  composed,        \* transfers the user has tried
  hops,            \* Tasks BLESyncManager has queued for CompanionModel
  carried,         \* BLESyncManager.pendingWalletRequest
  sendingWallet,
  writing,         \* the request in writeQueue
  link,            \* the connection to the X3's wallet
  notices,         \* status notifications under way
  review,          \* the request the X3 shows
  approved,        \* what the user has approved on the X3
  budget,          \* drops and write errors that are left
  mixed,           \* a transfer took the place of, or stood beside, a dapp's request
  stray            \* a status came that was not about the request carried

dappVars  == <<asked, answers, pendingRequest, pendingBatch, preparing, submitting,
               relaying, broadcast>>
modelVars == <<outstanding, composing, composed, hops>>
linkVars  == <<carried, sendingWallet, writing, link, notices>>
x3Vars    == <<review, approved>>
vars == <<asked, answers, pendingRequest, pendingBatch, preparing, submitting,
          relaying, broadcast, outstanding, composing, composed, hops, carried,
          sendingWallet, writing, link, notices, review, approved, budget, mixed, stray>>

\* One thing to sign: a call of a batch, or the only item of anything else.
Item == [of : Request \cup Transfer, call : 1 .. CallCount]
Call(origin, i) == [of |-> origin, call |-> i]
Only(origin) == Call(origin, 1)
IsTransaction(item) == item.of \notin Message

NoBatch == [of |-> None, signed |-> <<>>]
Submission == [of : Batch, phase : {"queued", "sending"},
               left : Seq(Item), done : Seq(Item)]
Queued(r) == [of |-> r, phase |-> "queued", left |-> <<>>, done |-> <<>>]
\* A status of the X3, and what BLESyncManager makes of it for CompanionModel.
Notice == [kind : {"Approved", "Refused"}, item : Item]

TypeOK ==
  /\ asked \subseteq Request
  /\ answers \in [Request -> Seq(Seq(Item))]       \* <<>> is an error
  /\ pendingRequest \in Request \cup {None}
  /\ pendingBatch \in [of : Batch \cup {None}, signed : Seq(Item)]
  /\ preparing \subseteq asked
  /\ submitting \subseteq Submission
  /\ relaying \subseteq [of : Request, item : Item]
  /\ broadcast \in Seq(Item)
  /\ outstanding \in Item \cup {None}
  /\ composing \in Transfer \cup {None}
  /\ composed \subseteq Transfer
  /\ hops \in Seq(Notice)
  /\ carried \in Item \cup {None} /\ writing \in Item \cup {None}
  /\ sendingWallet \in BOOLEAN
  /\ link \in {"down", "up", "closing"}
  /\ notices \in Seq(Notice)
  /\ review \in Item \cup {None}
  /\ approved \subseteq Item
  /\ budget \in [drops : 0 .. MaxDrops, errors : 0 .. MaxErrors]
  /\ mixed \in BOOLEAN /\ stray \in BOOLEAN

Init ==
  /\ asked = {} /\ answers = [r \in Request |-> <<>>]
  /\ pendingRequest = None /\ pendingBatch = NoBatch
  /\ preparing = {} /\ submitting = {}
  /\ relaying = {} /\ broadcast = <<>>
  /\ outstanding = None /\ composing = None /\ composed = {} /\ hops = <<>>
  /\ carried = None /\ sendingWallet = FALSE /\ writing = None
  /\ link = "down" /\ notices = <<>>
  /\ review = None /\ approved = {}
  /\ budget = [drops |-> MaxDrops, errors |-> MaxErrors]
  /\ mixed = FALSE /\ stray = FALSE

-----------------------------------------------------------------------------
(* Parts of several handlers. *)

\* respond and respondError: a result is made of items, an error of none.  An
\* answer that cannot be sent at all (the `try?' of respondError and
\* respondResult) counts as given: nobody tries it again.
Answer(r, result) == answers' = [answers EXCEPT ![r] = Append(@, result)]
Failure == <<>>

\* The end of the Task of completeSigning: when respond throws, the dapp is told
\* of an error, also of a transaction that the network has accepted.
AnswerSigned(r, item) == Answer(r, <<item>>) \/ Answer(r, Failure)

\* failSigning, where pendingBatch is `batch' when it is called.
FailSigning(batch) ==
  IF pendingRequest = None
  THEN pendingBatch' = batch /\ UNCHANGED <<pendingRequest, answers>>
  ELSE /\ Answer(pendingRequest, Failure)
       /\ pendingRequest' = None /\ pendingBatch' = NoBatch

\* signWallet: the request is kept, and the connection dropped to come back
\* to an X3 whose wallet is open.
SignWallet(item) ==
  /\ carried' = item
  /\ link' = IF link = "up" THEN "closing" ELSE link

\* beginWalletConnectSigning, the signingHandler of WalletConnectManager.
BeginSigning(item, batch) ==
  IF outstanding # None
  THEN FailSigning(batch) /\ UNCHANGED <<outstanding, carried, link>>
  ELSE /\ outstanding' = item /\ SignWallet(item)
       /\ pendingBatch' = batch
       /\ UNCHANGED <<pendingRequest, answers>>

-----------------------------------------------------------------------------
(* WalletConnectManager. *)

\* Mutant: a request takes the place of the one that is pending.
MutantReceiveReplaces(r) ==
  /\ r \notin asked /\ asked' = asked \cup {r}
  /\ pendingRequest' = r /\ preparing' = preparing \cup {r}
  /\ UNCHANGED <<answers, pendingBatch, submitting, relaying, broadcast>>
  /\ UNCHANGED <<modelVars, linkVars, x3Vars, budget, stray>>

\* receive: one request at a time; the others are refused.
Receive(r) ==
  /\ r \notin asked /\ asked' = asked \cup {r}
  /\ \/ pendingRequest # None /\ Answer(r, Failure)
        /\ UNCHANGED <<pendingRequest, preparing>>
     \/ /\ pendingRequest = None
        /\ pendingRequest' = r /\ preparing' = preparing \cup {r}
        /\ UNCHANGED answers
  /\ UNCHANGED <<pendingBatch, submitting, relaying, broadcast>>
  /\ UNCHANGED <<modelVars, linkVars, x3Vars, budget, stray>>

\* prepare returns, after prepareCallBatch has stored the batch.
PrepareSucceeds(r) ==
  /\ r \in preparing /\ preparing' = preparing \ {r}
  /\ BeginSigning(Only(r), IF r \in Batch THEN [of |-> r, signed |-> <<>>] ELSE pendingBatch)
  /\ UNCHANGED <<asked, submitting, relaying, broadcast, composing, composed, hops,
                 sendingWallet, writing, notices, x3Vars, budget, stray>>

\* prepare throws: whatever is pending is forgotten, this request is answered.
PrepareFails(r) ==
  /\ r \in preparing /\ preparing' = preparing \ {r}
  /\ pendingRequest' = None /\ pendingBatch' = NoBatch
  /\ Answer(r, Failure)
  /\ UNCHANGED <<asked, submitting, relaying, broadcast, modelVars, linkVars, x3Vars,
                 budget, stray>>

\* Mutant: nobody counts the calls of the batch.
MutantNoCount(item) ==
  LET signed == Append(pendingBatch.signed, item)
      next   == Call(pendingBatch.of, Len(signed) + 1)
  IN /\ pendingBatch # NoBatch
     /\ pendingBatch' = [pendingBatch EXCEPT !.signed = signed]
     /\ outstanding' = next /\ SignWallet(next)
     /\ UNCHANGED <<pendingRequest, answers, submitting>>

\* completeBatchSigning
CompleteCall(item) ==
  LET signed == Append(pendingBatch.signed, item)
      next   == Call(pendingBatch.of, Len(signed) + 1)
  IN \/ /\ ~IsTransaction(item) \/ pendingBatch = NoBatch
        /\ FailSigning(pendingBatch) /\ outstanding' = None
        /\ UNCHANGED <<submitting, carried, link>>
     \/ /\ IsTransaction(item) /\ pendingBatch # NoBatch
        /\ pendingBatch' = [pendingBatch EXCEPT !.signed = signed]
        /\ \/ /\ Len(signed) < CallCount
              /\ outstanding' = next /\ SignWallet(next)
              /\ UNCHANGED submitting
           \/ /\ Len(signed) >= CallCount
              /\ submitting' = submitting \cup {Queued(pendingRequest)}
              /\ outstanding' = None
              /\ UNCHANGED <<carried, link>>
        /\ UNCHANGED <<pendingRequest, answers>>

\* completeSigning; CompanionModel has cleared its own pendingRequest before.
CompleteSigning(item) ==
  \/ /\ pendingRequest = None
     /\ outstanding' = None
     /\ UNCHANGED <<pendingRequest, pendingBatch, answers, submitting, relaying, carried, link>>
  \/ /\ pendingRequest \in Batch
     /\ CompleteCall(item)
     /\ UNCHANGED relaying
  \/ /\ pendingRequest \in Request \ Batch
     /\ pendingRequest' = None /\ outstanding' = None
     /\ IF pendingRequest \in Relayed /\ IsTransaction(item)
        THEN /\ relaying' = relaying \cup {[of |-> pendingRequest, item |-> item]}
             /\ UNCHANGED answers
        ELSE AnswerSigned(pendingRequest, item) /\ UNCHANGED relaying
     /\ UNCHANGED <<pendingBatch, submitting, carried, link>>

\* Mutant: a refused transaction is answered and tried again.
MutantRelayRetries(task, accepted) ==
  /\ task \in relaying
  /\ IF accepted
     THEN /\ relaying' = relaying \ {task}
          /\ Answer(task.of, <<task.item>>) /\ broadcast' = Append(broadcast, task.item)
     ELSE Answer(task.of, Failure) /\ UNCHANGED <<relaying, broadcast>>
  /\ UNCHANGED <<asked, pendingRequest, pendingBatch, preparing, submitting, modelVars,
                 linkVars, x3Vars, budget, stray>>

\* eth_sendRawTransaction returns, with a hash or an error.
RelayReturns(task, accepted) ==
  /\ task \in relaying /\ relaying' = relaying \ {task}
  /\ IF accepted
     THEN AnswerSigned(task.of, task.item) /\ broadcast' = Append(broadcast, task.item)
     ELSE Answer(task.of, Failure) /\ UNCHANGED broadcast
  /\ UNCHANGED <<asked, pendingRequest, pendingBatch, preparing, submitting, modelVars,
                 linkVars, x3Vars, budget, stray>>

\* submitApprovedBatch starts: it takes a copy of the batch that is pending.
SubmitStarts(task) ==
  /\ task \in submitting /\ task.phase = "queued"
  /\ \/ /\ pendingBatch # NoBatch /\ Len(pendingBatch.signed) = CallCount
        /\ submitting' = (submitting \ {task}) \cup
                         {[task EXCEPT !.phase = "sending", !.left = pendingBatch.signed]}
        /\ UNCHANGED <<pendingRequest, pendingBatch, answers>>
     \/ /\ pendingBatch = NoBatch \/ Len(pendingBatch.signed) # CallCount
        /\ submitting' = submitting \ {task}
        /\ FailSigning(pendingBatch)
  /\ UNCHANGED <<asked, preparing, relaying, broadcast, modelVars, linkVars, x3Vars,
                 budget, stray>>

\* Mutant: a transaction that is refused is skipped, the rest still sent.
MutantSubmitSkips(task) ==
  /\ task \in submitting /\ task.phase = "sending" /\ task.left # <<>>
  /\ submitting' = (submitting \ {task}) \cup {[task EXCEPT !.left = Tail(@)]}
  /\ broadcast' \in {broadcast, Append(broadcast, Head(task.left))}
  /\ UNCHANGED <<asked, answers, pendingRequest, pendingBatch, preparing, relaying,
                 modelVars, linkVars, x3Vars, budget, stray>>

\* The network accepts the next transaction.
SubmitNext(task) ==
  /\ task \in submitting /\ task.phase = "sending" /\ task.left # <<>>
  /\ submitting' = (submitting \ {task}) \cup
                   {[task EXCEPT !.left = Tail(@), !.done = Append(@, Head(task.left))]}
  /\ broadcast' = Append(broadcast, Head(task.left))
  /\ UNCHANGED <<asked, answers, pendingRequest, pendingBatch, preparing, relaying,
                 modelVars, linkVars, x3Vars, budget, stray>>

\* All are accepted, or one is refused and the rest is given up.
SubmitEnds(task) ==
  /\ task \in submitting /\ task.phase = "sending"
  /\ submitting' = submitting \ {task}
  /\ pendingBatch' = NoBatch /\ pendingRequest' = None
  /\ Answer(task.of, task.done)
  /\ UNCHANGED <<asked, preparing, relaying, broadcast, modelVars, linkVars, x3Vars,
                 budget, stray>>

-----------------------------------------------------------------------------
(* CompanionModel. *)

\* signEvm up to the await: the guard is checked here ...
StartTransfer(t) ==
  /\ t \notin composed /\ outstanding = None /\ composing = None
  /\ composing' = t /\ composed' = composed \cup {t}
  /\ UNCHANGED <<dappVars, outstanding, hops, linkVars, x3Vars, budget, stray>>

\* ... and not again here, where the network's values have come.
TransferPrepared ==
  /\ composing # None /\ composing' = None
  /\ outstanding' = Only(composing) /\ SignWallet(Only(composing))
  /\ UNCHANGED <<dappVars, composed, hops, sendingWallet, writing, notices, x3Vars,
                 budget, stray>>

TransferFails ==
  /\ composing # None /\ composing' = None
  /\ UNCHANGED <<dappVars, outstanding, composed, hops, linkVars, x3Vars, budget, stray>>

\* completeWalletRequest, for a signature that can be used.
CompleteWalletRequest ==
  /\ hops # <<>> /\ Head(hops).kind = "Approved" /\ hops' = Tail(hops)
  /\ \/ /\ outstanding # Head(hops).item
        /\ UNCHANGED <<outstanding, answers, pendingRequest, pendingBatch, submitting,
                       relaying, carried, link>>
     \/ outstanding = Head(hops).item /\ CompleteSigning(outstanding)
  /\ UNCHANGED <<asked, preparing, broadcast, composing, composed, sendingWallet, writing,
                 notices, x3Vars, budget, stray>>

\* failWalletRequest, and completeWalletRequest when the signature of the
\* outstanding request cannot be used.
FailWalletRequest ==
  /\ hops # <<>> /\ hops' = Tail(hops)
  /\ Head(hops).kind = "Approved" => outstanding = Head(hops).item
  /\ outstanding' = None
  /\ FailSigning(pendingBatch)
  /\ UNCHANGED <<asked, preparing, submitting, relaying, broadcast, composing, composed,
                 linkVars, x3Vars, budget, stray>>

-----------------------------------------------------------------------------
(* BLESyncManager. *)


\* The wallet's characteristics are discovered: prepareWalletIfReady.
\* Its guard !preparingSnapshot holds on this link: an X3 whose wallet is open
\* offers no calendar service, so prepareSnapshotIfReady never raises the flag,
\* and clearConnection has lowered that of an earlier connection.
Connect ==
  /\ link = "down" /\ link' = "up"
  /\ writing' = carried
  /\ sendingWallet' = (carried # None)
  /\ UNCHANGED <<dappVars, modelVars, carried, notices, x3Vars, budget, stray>>

\* Mutant: a lost connection takes the request with it.
MutantDisconnectForgets ==
  /\ \/ link = "closing" /\ UNCHANGED budget
     \/ link = "up" /\ budget.drops > 0 /\ budget' = [budget EXCEPT !.drops = @ - 1]
  /\ link' = "down" /\ carried' = None
  /\ writing' = None /\ sendingWallet' = FALSE /\ notices' = <<>>
  /\ UNCHANGED <<dappVars, modelVars, x3Vars, stray>>

\* clearConnection, after cancelPeripheralConnection or without it.
Disconnect ==
  /\ \/ link = "closing" /\ UNCHANGED budget
     \/ link = "up" /\ budget.drops > 0 /\ budget' = [budget EXCEPT !.drops = @ - 1]
  /\ link' = "down"
  /\ writing' = None /\ sendingWallet' = FALSE
  /\ notices' = <<>>
  /\ UNCHANGED <<dappVars, modelVars, carried, x3Vars, stray>>

\* The last packet is written and the X3 shows the request.
Deliver ==
  /\ link # "down" /\ writing # None
  /\ writing' = None /\ review' = writing
  /\ UNCHANGED <<dappVars, modelVars, carried, sendingWallet, link, notices, approved,
                 budget, stray>>

\* didWriteValueFor with an error: the X3 may have the request all the same.
\* Nothing of the request need be left to write: a snapshot Task that began
\* under an earlier connection also puts its packets into writeQueue.
WriteFails ==
  /\ link # "down" /\ budget.errors > 0
  /\ budget' = [budget EXCEPT !.errors = @ - 1]
  /\ review' \in {review} \cup ({writing} \ {None})
  /\ writing' = None /\ sendingWallet' = FALSE
  /\ IF sendingWallet
     THEN /\ carried' = None
          /\ hops' = Append(hops, [kind |-> "Refused", item |-> carried])
     ELSE UNCHANGED <<carried, hops>>
  /\ UNCHANGED <<dappVars, outstanding, composing, composed, link, notices, approved, stray>>

\* handleWalletStatus for Approved, Rejected and Error: what was carried is
\* dropped whichever request the status is about.
HandleWalletStatus ==
  /\ notices # <<>> /\ notices' = Tail(notices)
  /\ stray' = (stray \/ Head(notices).item # carried)
  /\ carried' = None /\ sendingWallet' = FALSE
  /\ hops' = Append(hops, Head(notices))
  /\ UNCHANGED <<dappVars, outstanding, composing, composed, link, writing, x3Vars, budget>>

-----------------------------------------------------------------------------
(* The X3, as far as the phone depends on it: it keeps the last request it *)
(* got under review until the user decides, and tells the phone if it is   *)
(* connected at that moment.                                               *)

Decide(kind) ==
  /\ review # None /\ review' = None
  /\ approved' = IF kind = "Approved" THEN approved \cup {review} ELSE approved
  /\ notices' = IF link = "down" THEN notices
                ELSE Append(notices, [kind |-> kind, item |-> review])
  /\ UNCHANGED <<dappVars, modelVars, carried, sendingWallet, writing, link, budget, stray>>

-----------------------------------------------------------------------------
TaskStep ==
  \/ \E r \in Request : PrepareSucceeds(r) \/ PrepareFails(r)
  \/ \E task \in relaying, accepted \in BOOLEAN : RelayReturns(task, accepted)
  \/ \E task \in submitting : SubmitStarts(task) \/ SubmitNext(task) \/ SubmitEnds(task)
HopStep == CompleteWalletRequest \/ FailWalletRequest
LinkStep == Connect \/ Deliver \/ HandleWalletStatus \/ (link = "closing" /\ Disconnect)

Step ==
  \/ TaskStep \/ HopStep
  \/ \E r \in Request : Receive(r)
  \/ \E t \in Transfer : StartTransfer(t)
  \/ TransferPrepared \/ TransferFails
  \/ Connect \/ Disconnect \/ Deliver \/ WriteFails \/ HandleWalletStatus
  \/ \E kind \in {"Approved", "Refused"} : Decide(kind)

\* `mixed' remembers whether a transfer has been out for signing while a
\* dapp's request was pending.
Next ==
  /\ Step
  /\ mixed' = (mixed \/ (pendingRequest' # None /\ outstanding' # None
                         /\ outstanding'.of \in Transfer))

Spec == Init /\ [][Next]_vars

\* Tasks and callbacks run, a phone near the X3 connects and writes.  Nothing
\* is assumed of the user or of the dapps.
FairSpec ==
  /\ Spec
  /\ WF_vars(TaskStep /\ Next) /\ WF_vars(HopStep /\ Next)
  /\ WF_vars(LinkStep /\ Next)

-----------------------------------------------------------------------------
(* Properties. *)

\* How the transaction broadcast[i], of a batch, went out.
GoesOutWhole(i) ==
  LET r == broadcast[i].of
  IN /\ \A c \in 1 .. CallCount : Call(r, c) \in approved
     /\ \A c \in 1 .. broadcast[i].call - 1 : \E j \in 1 .. i - 1 : broadcast[j] = Call(r, c)
     /\ \A j \in 1 .. i - 1 : broadcast[j] # broadcast[i]

ItemsOf(sequence) == {sequence[i] : i \in DOMAIN sequence}
Calm == ~mixed /\ ~stray

\* A dapp is answered at most once, however tasks, callbacks and a lost
\* connection interleave (completeSigning, failSigning and the catch of
\* receive all answer).  Calm excludes the two ways in which an answer can be
\* taken for another request's: a transfer stands beside a dapp's request
\* (mixed), or a status comes while its request is not what is carried (stray):
\* late, after a write of it failed, or for the second time, when it was sent
\* again under the first answer.  handleWalletStatus does not compare ids.
AnsweredOnce == Calm => \A r \in Request : Len(answers[r]) <= 1

\* What a dapp is answered with are signatures of what it asked for.
AnswerIsOwn ==
  \A r \in Request : \A i \in DOMAIN answers[r] :
    \A item \in ItemsOf(answers[r][i]) : item.of = r

\* The same of every run in which no answer was taken for another request's.
CalmAnswerIsOwn == Calm => AnswerIsOwn

\* A transaction of a batch reaches the network only after the user has
\* approved every call of the batch, once, and behind the calls before it, in
\* every run that is Calm.
BatchIsWhole ==
  Calm => \A i \in DOMAIN broadcast :
    broadcast[i].of \in Batch => GoesOutWhole(i)

\* The item that CompanionModel has out for signing is never forgotten:
\* BLESyncManager carries it, also over a lost connection (clearConnection), or
\* its answer has come as far as CompanionModel.  Calm leaves out the status that
\* is not about what is carried: handleWalletStatus drops that all the same.
NotForgotten ==
  Calm /\ outstanding # None =>
    \/ carried = outstanding
    \/ \E i \in DOMAIN hops : hops[i].item = outstanding

=============================================================================
