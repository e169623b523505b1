--------------------------- MODULE Companion_proofs ---------------------------
(***************************************************************************)
(* The wallet side of the companion answers a dapp once and with its own   *)
(* signatures, sends a batch whole and in order, and never forgets what is *)
(* out for signing: for any requests, batches, transfers, lost connections *)
(* and failed writes, as long as no answer was taken for another request's *)
(* (Calm).                                                                 *)
(*                                                                         *)
(* The types hold always.  The rest needs to know where the one pending    *)
(* request is (PendInv): being prepared, out for signing, or being         *)
(* submitted; that CompanionModel, BLESyncManager and the queued Task      *)
(* between them hold one and the same item (CarryInv); and what the Tasks  *)
(* that outlive it still have to do (TaskInv, RelayInv).                   *)
(***************************************************************************)
EXTENDS Companion, SequenceTheorems, TLAPS

\* Types, with what they need: something is sent only while it is carried,
\* and a batch that is pending is of a wallet_sendCalls.
TypeInv ==
  /\ TypeOK
  /\ sendingWallet => carried # None
  /\ pendingBatch = NoBatch \/ pendingBatch.of \in Batch

\* The item that is out is with BLESyncManager, or its answer is on the way to
\* CompanionModel; nothing else is.  Only what was approved comes back as such.
Honest(notice) == notice.kind = "Approved" => notice.item \in approved

CarryInv ==
  /\ \/ carried = outstanding /\ hops = <<>>
     \/ /\ outstanding # None /\ carried = None
        /\ \E reply \in Notice : hops = <<reply>> /\ reply.item = outstanding /\ Honest(reply)
  /\ \A i \in DOMAIN notices : Honest(notices[i])

\* Where the pending request is.
InReview ==
  /\ outstanding # None /\ outstanding.of = pendingRequest
  /\ submitting = {}
  /\ pendingRequest \notin Batch => outstanding.call = 1 /\ pendingBatch = NoBatch
  /\ pendingRequest \in Batch => /\ pendingBatch.of = pendingRequest
                                 /\ outstanding.call = Len(pendingBatch.signed) + 1

InSubmission ==
  /\ outstanding = None
  /\ pendingRequest \in Batch /\ pendingBatch.of = pendingRequest
  /\ Len(pendingBatch.signed) = CallCount
  /\ \E task \in submitting : submitting = {task} /\ task.of = pendingRequest

PendInv ==
  /\ preparing \subseteq {pendingRequest}
  /\ pendingRequest = None =>
       /\ pendingBatch = NoBatch /\ submitting = {}
       /\ outstanding # None => outstanding.of \in Transfer /\ composing = None
  /\ pendingRequest \in preparing => /\ pendingBatch = NoBatch /\ submitting = {}
                                     /\ outstanding = None
  /\ pendingRequest \notin preparing \cup {None} => InReview \/ InSubmission

\* The calls a batch has been signed for are the first ones.
SignedInv ==
  \A i \in 1 .. Len(pendingBatch.signed) :
    /\ pendingBatch.signed[i] = Call(pendingBatch.of, i)
    /\ pendingBatch.signed[i] \in approved

\* What a submission has sent and has left is the whole batch, all approved.
Progress(task) ==
  /\ Len(task.done) + Len(task.left) = CallCount
  /\ \A i \in 1 .. Len(task.done) : task.done[i] = Call(task.of, i)
  /\ \A i \in 1 .. Len(task.left) : task.left[i] = Call(task.of, Len(task.done) + i)
  /\ \A i \in 1 .. CallCount : Call(task.of, i) \in approved

TaskInv ==
  \A task \in submitting :
    /\ task.phase = "queued" => task = Queued(task.of)
    /\ task.phase = "sending" => Progress(task)

\* A single transaction that is being sent is all that is left of its request.
RelayInv ==
  \A task \in relaying :
    /\ task.item = Only(task.of) /\ task.of \in asked \ Batch
    /\ task.of # pendingRequest /\ answers[task.of] = <<>>

\* What a dapp was told: nothing, or one thing made of its own items.
Told(r) ==
  answers[r] # <<>> =>
    /\ Len(answers[r]) = 1
    /\ \A i \in 1 .. Len(answers[r][1]) : answers[r][1][i].of = r

AnswerInv ==
  /\ \A r \in Request : Told(r)
  /\ \A r \in Request \ asked : answers[r] = <<>>
  /\ pendingRequest # None => pendingRequest \in asked /\ answers[pendingRequest] = <<>>

\* What the network has of a batch: the batch was answered, or its submission
\* is at it.
SentInv ==
  /\ \A i \in DOMAIN broadcast :
       /\ broadcast[i].of \in asked
       /\ broadcast[i].of \in Batch =>
            /\ GoesOutWhole(i)
            /\ \/ answers[broadcast[i].of] # <<>>
               \/ \E task \in submitting : /\ task.of = broadcast[i].of
                                           /\ broadcast[i].call <= Len(task.done)
  /\ \A task \in submitting : \A i \in 1 .. Len(task.done) :
       \E j \in DOMAIN broadcast : broadcast[j] = task.done[i]

CalmInv ==
  CarryInv /\ PendInv /\ SignedInv /\ TaskInv /\ RelayInv /\ AnswerInv /\ SentInv

IInv == TypeInv /\ (Calm => CalmInv)
-----------------------------------------------------------------------------
(* Facts about the data. *)

LEMMA Names ==
  /\ None \notin Request /\ None \notin Transfer /\ None \notin Item
  /\ Batch \subseteq Request /\ Request \cap Transfer = {}
  /\ Batch \cap Message = {} /\ Relayed \cap Batch = {}
  /\ CallCount \in Nat /\ CallCount >= 1
  /\ MaxDrops \in Nat /\ MaxErrors \in Nat
BY CompanionAssumption DEF Item

LEMMA Items ==
  /\ \A o \in Request \cup Transfer, c \in 1 .. CallCount :
        Call(o, c) \in Item /\ Call(o, c).of = o /\ Call(o, c).call = c
  /\ \A o \in Request \cup Transfer :
        Only(o) \in Item /\ Only(o).of = o /\ Only(o).call = 1
  /\ \A item \in Item : /\ item.of \in Request \cup Transfer /\ item.call \in 1 .. CallCount
                         /\ item = Call(item.of, item.call)
BY Names, SMT DEF Call, Only, Item

\* A sequence with one more element.
LEMMA Longer ==
  ASSUME NEW S, NEW s \in Seq(S), NEW x \in S
  PROVE  /\ Append(s, x) \in Seq(S) /\ Append(s, x) # <<>>
         /\ Len(Append(s, x)) = Len(s) + 1
         /\ \A i \in 1 .. Len(s) : Append(s, x)[i] = s[i]
         /\ Append(s, x)[Len(s) + 1] = x
         /\ s = <<>> => Append(s, x) = <<x>>
<1>1. Append(s, x) \in Seq(S) /\ Append(s, x) # <<>>
  BY AppendProperties
<1>2. /\ Len(Append(s, x)) = Len(s) + 1
      /\ \A i \in 1 .. Len(s) : Append(s, x)[i] = s[i]
      /\ Append(s, x)[Len(s) + 1] = x
  BY AppendProperties
<1>3. s = <<>> => Append(s, x) = <<x>>
  OBVIOUS
<1> QED
  BY <1>1, <1>2, <1>3

\* A sequence without its first element.
LEMMA Shorter ==
  ASSUME NEW S, NEW s \in Seq(S), s # <<>>
  PROVE  /\ Head(s) \in S /\ Tail(s) \in Seq(S)
         /\ Len(s) >= 1 /\ Len(Tail(s)) = Len(s) - 1 /\ Head(s) = s[1]
         /\ \A i \in 1 .. Len(Tail(s)) : Tail(s)[i] = s[i + 1]
BY HeadTailProperties, EmptySeq, SMT

LEMMA Single ==
  ASSUME NEW x
  PROVE  <<x>> # <<>> /\ Head(<<x>>) = x /\ Tail(<<x>>) = <<>> /\ Len(<<x>>) = 1
BY SMT

\* Two parts of a whole, and one more in the first of them.
LEMMA Parts ==
  ASSUME NEW S, NEW done \in Seq(S), NEW left \in Seq(S), NEW whole \in Nat,
         Len(done) + Len(left) = whole
  PROVE  /\ \A i \in 1 .. Len(done) : i \in 1 .. whole
         /\ Len(left) >= 1 => /\ Len(done) + 1 \in 1 .. whole
                              /\ (Len(done) + 1) + (Len(left) - 1) = whole
         /\ \A i \in 1 .. Len(left) - 1 :
              i + 1 \in 1 .. Len(left) /\ Len(done) + (i + 1) = (Len(done) + 1) + i
OBVIOUS

-----------------------------------------------------------------------------
(* Types. *)

LEMMA TypeStarts == Init => TypeInv
<1> SUFFICES ASSUME Init PROVE TypeInv
  OBVIOUS
<1>1. MaxDrops \in 0 .. MaxDrops /\ MaxErrors \in 0 .. MaxErrors
  BY Names
<1>2. <<>> \in Seq(Item) /\ <<>> \in Seq(Notice) /\ <<>> \in Seq(Seq(Item))
  BY EmptySeq
<1> QED
  BY <1>1, <1>2, Zenon DEF Init, TypeInv, TypeOK, NoBatch

\* What WalletConnectManager has pending, and its answers.
ManagerType ==
  /\ answers \in [Request -> Seq(Seq(Item))]
  /\ pendingRequest \in Request \cup {None}
  /\ pendingBatch \in [of : Batch \cup {None}, signed : Seq(Item)]
  /\ pendingBatch = NoBatch \/ pendingBatch.of \in Batch

LEMMA BatchTypes ==
  /\ NoBatch \in [of : Batch \cup {None}, signed : Seq(Item)]
  /\ \A r \in Batch : [of |-> r, signed |-> <<>>] \in [of : Batch \cup {None}, signed : Seq(Item)]
  /\ \A r \in Batch : [of |-> r, signed |-> <<>>].of \in Batch
  /\ \A r \in Batch : Queued(r) \in Submission
BY EmptySeq DEF NoBatch, Queued, Submission

LEMMA AnswerTypes ==
  ASSUME ManagerType, NEW r \in Request, NEW result \in Seq(Item), Answer(r, result)
  PROVE  answers' \in [Request -> Seq(Seq(Item))]
<1>1. Append(answers[r], result) \in Seq(Seq(Item))
  BY Longer DEF ManagerType
<1> QED
  BY <1>1, Zenon DEF Answer, ManagerType

LEMMA FailTypes ==
  ASSUME ManagerType, NEW batch \in [of : Batch \cup {None}, signed : Seq(Item)],
         batch = NoBatch \/ batch.of \in Batch, FailSigning(batch)
  PROVE  ManagerType'
<1>1. CASE pendingRequest = None
  BY <1>1 DEF FailSigning, ManagerType
<1>2. CASE pendingRequest # None
  <2>1. pendingRequest \in Request /\ Answer(pendingRequest, Failure) /\ Failure \in Seq(Item)
    BY <1>2, EmptySeq DEF FailSigning, ManagerType, Failure
  <2> QED BY <1>2, <2>1, AnswerTypes, BatchTypes DEF FailSigning, ManagerType
<1> QED
  BY <1>1, <1>2

LEMMA SignTypes ==
  ASSUME TypeInv, NEW item \in Item, SignWallet(item)
  PROVE  /\ carried' \in Item /\ carried' # None
         /\ link' \in {"down", "up", "closing"}
BY Names DEF SignWallet, TypeInv, TypeOK

\* The variables of the dapp side and what is out, in the steps of the Tasks.
LEMMA CompleteTypes ==
  ASSUME TypeInv, outstanding \in Item, CompleteSigning(outstanding)
  PROVE  /\ ManagerType' /\ submitting' \subseteq Submission
         /\ relaying' \subseteq [of : Request, item : Item]
         /\ outstanding' \in Item \cup {None} /\ carried' \in Item \cup {None}
         /\ sendingWallet => carried' # None
         /\ link' \in {"down", "up", "closing"}
<1>0. ManagerType
  BY DEF TypeInv, TypeOK, ManagerType
<1>1. CASE pendingRequest = None
  BY <1>0, <1>1, Names DEF CompleteSigning, TypeInv, TypeOK, ManagerType
<1>2. CASE pendingRequest \in Batch /\ CompleteCall(outstanding)
  <2> DEFINE signed == Append(pendingBatch.signed, outstanding)
             next   == Call(pendingBatch.of, Len(signed) + 1)
  <2>1. relaying' = relaying
    BY <1>2, Names DEF CompleteSigning
  <2>2. CASE FailSigning(pendingBatch) /\ outstanding' = None /\ UNCHANGED <<submitting, carried, link>>
    <3>1. ManagerType'
      BY <1>0, <2>2, FailTypes DEF TypeInv, TypeOK
    <3> QED BY <2>1, <2>2, <3>1 DEF TypeInv, TypeOK
  <2>3. CASE /\ pendingBatch # NoBatch
             /\ pendingBatch' = [pendingBatch EXCEPT !.signed = signed]
             /\ UNCHANGED <<pendingRequest, answers>>
             /\ \/ /\ Len(signed) < CallCount
                   /\ outstanding' = next /\ SignWallet(next) /\ UNCHANGED submitting
                \/ /\ submitting' = submitting \cup {Queued(pendingRequest)}
                   /\ outstanding' = None /\ UNCHANGED <<carried, link>>
    <3>1. signed \in Seq(Item) /\ Len(signed) = Len(pendingBatch.signed) + 1
          /\ Len(pendingBatch.signed) \in Nat
      BY Longer, LenProperties DEF TypeInv, TypeOK
    <3>2. ManagerType'
      BY <1>0, <2>3, <3>1, Zenon DEF ManagerType
    <3>3. Len(signed) < CallCount => next \in Item
      <4>1. pendingBatch.of \in Request \cup Transfer
        BY <2>3, Names DEF TypeInv
      <4>2. Len(signed) < CallCount => Len(signed) + 1 \in 1 .. CallCount
        BY <3>1, Names
      <4> QED BY <4>1, <4>2, Items
    <3>4. Queued(pendingRequest) \in Submission
      BY <1>2, BatchTypes
    <3>5. CASE Len(signed) < CallCount /\ outstanding' = next /\ SignWallet(next) /\ UNCHANGED submitting
      <4> HIDE DEF next, signed
      <4> QED BY <2>1, <3>2, <3>3, <3>5, SignTypes DEF TypeInv, TypeOK
    <3>6. CASE /\ submitting' = submitting \cup {Queued(pendingRequest)}
               /\ outstanding' = None /\ UNCHANGED <<carried, link>>
      BY <2>1, <3>2, <3>4, <3>6 DEF TypeInv, TypeOK
    <3> QED BY <2>3, <3>5, <3>6
  <2> QED BY <1>2, <2>2, <2>3 DEF CompleteCall
<1>3. CASE pendingRequest \in Request \ Batch
  <2>1. /\ pendingRequest' = None /\ outstanding' = None
        /\ UNCHANGED <<pendingBatch, submitting, carried, link>>
        /\ \/ /\ relaying' = relaying \cup {[of |-> pendingRequest, item |-> outstanding]}
              /\ UNCHANGED answers
           \/ AnswerSigned(pendingRequest, outstanding) /\ UNCHANGED relaying
    BY <1>3, Names, Zenon DEF CompleteSigning
  <2>2. <<outstanding>> \in Seq(Item) /\ Failure \in Seq(Item)
    BY EmptySeq DEF Failure
  <2>3. answers' \in [Request -> Seq(Seq(Item))]
    BY <1>0, <1>3, <2>1, <2>2, AnswerTypes DEF ManagerType, AnswerSigned
  <2>4. relaying' \subseteq [of : Request, item : Item]
    BY <1>3, <2>1 DEF TypeInv, TypeOK
  <2> QED BY <1>0, <2>1, <2>3, <2>4 DEF ManagerType, TypeInv, TypeOK
<1> QED
  BY <1>1, <1>2, <1>3, Names DEF CompleteSigning, TypeInv, TypeOK

\* Notices and items stay what they are.
LEMMA QueueTypes ==
  /\ \A q \in Seq(Notice), n \in Notice : Append(q, n) \in Seq(Notice)
  /\ \A q \in Seq(Notice) : q # <<>> => Head(q) \in Notice /\ Tail(q) \in Seq(Notice)
  /\ \A q \in Seq(Item), item \in Item : Append(q, item) \in Seq(Item)
  /\ \A q \in Seq(Item) : q # <<>> => Head(q) \in Item /\ Tail(q) \in Seq(Item)
  /\ \A item \in Item, kind \in {"Approved", "Refused"} : [kind |-> kind, item |-> item] \in Notice
<1>1. \A q \in Seq(Notice), n \in Notice : Append(q, n) \in Seq(Notice)
  BY Longer
<1>2. \A q \in Seq(Notice) : q # <<>> => Head(q) \in Notice /\ Tail(q) \in Seq(Notice)
  BY Shorter
<1>3. \A q \in Seq(Item), item \in Item : Append(q, item) \in Seq(Item)
  BY Longer
<1>4. \A q \in Seq(Item) : q # <<>> => Head(q) \in Item /\ Tail(q) \in Seq(Item)
  BY Shorter
<1> QED
  BY <1>1, <1>2, <1>3, <1>4 DEF Notice

LEMMA TaskStepTypes == TypeInv /\ TaskStep /\ mixed' \in BOOLEAN => TypeInv'
<1> SUFFICES ASSUME TypeInv, TaskStep, mixed' \in BOOLEAN PROVE TypeInv'
  OBVIOUS
<1>0. TypeOK /\ ManagerType
  BY DEF TypeInv, TypeOK, ManagerType
<1> USE DEF modelVars, linkVars, x3Vars
<1>1. ASSUME NEW r \in Request, PrepareSucceeds(r) PROVE TypeInv'
  <2> DEFINE batch == IF r \in Batch THEN [of |-> r, signed |-> <<>>] ELSE pendingBatch
  <2>1. /\ batch \in [of : Batch \cup {None}, signed : Seq(Item)]
        /\ batch = NoBatch \/ batch.of \in Batch
    BY <1>0, BatchTypes DEF ManagerType
  <2>2. BeginSigning(Only(r), batch)
    BY <1>1 DEF PrepareSucceeds
  <2> HIDE DEF batch
  <2>3. CASE FailSigning(batch) /\ UNCHANGED <<outstanding, carried, link>>
    <3>1. ManagerType'
      BY <1>0, <2>1, <2>3, FailTypes
    <3> QED BY <1>0, <1>1, <2>3, <3>1 DEF PrepareSucceeds, ManagerType, TypeInv, TypeOK
  <2>4. CASE /\ outstanding' = Only(r) /\ SignWallet(Only(r)) /\ pendingBatch' = batch
             /\ UNCHANGED <<pendingRequest, answers>>
    <3>1. Only(r) \in Item
      BY Items
    <3>2. carried' \in Item /\ carried' # None /\ link' \in {"down", "up", "closing"}
      BY <2>4, <3>1, SignTypes
    <3> QED BY <1>0, <1>1, <2>1, <2>4, <3>1, <3>2 DEF PrepareSucceeds, TypeInv, TypeOK
  <2> QED BY <2>2, <2>3, <2>4 DEF BeginSigning
<1>2. ASSUME NEW r \in Request, PrepareFails(r) PROVE TypeInv'
  <2>1. answers' \in [Request -> Seq(Seq(Item))]
    BY <1>0, <1>2, AnswerTypes, EmptySeq DEF PrepareFails, Failure
  <2> QED BY <1>0, <1>2, <2>1, BatchTypes DEF PrepareFails, TypeInv, TypeOK
<1>3. ASSUME NEW task \in relaying, NEW accepted \in BOOLEAN, RelayReturns(task, accepted)
      PROVE  TypeInv'
  <2>1. task.of \in Request /\ task.item \in Item
    BY <1>0 DEF TypeOK
  <2>2. <<task.item>> \in Seq(Item) /\ Failure \in Seq(Item)
    BY <2>1, EmptySeq DEF Failure
  <2>3. answers' \in [Request -> Seq(Seq(Item))]
    BY <1>0, <1>3, <2>1, <2>2, AnswerTypes DEF RelayReturns, AnswerSigned
  <2>4. broadcast' \in Seq(Item)
    <3>1. Append(broadcast, task.item) \in Seq(Item)
      BY <1>0, <2>1, QueueTypes DEF TypeOK
    <3> QED BY <1>0, <1>3, <3>1, Zenon DEF RelayReturns, TypeOK
  <2> QED BY <1>0, <1>3, <2>3, <2>4 DEF RelayReturns, TypeInv, TypeOK
<1>4. ASSUME NEW task \in submitting, SubmitStarts(task) PROVE TypeInv'
  <2>1. task \in Submission
    BY <1>0 DEF TypeOK
  <2>2. CASE /\ submitting' = (submitting \ {task}) \cup
                              {[task EXCEPT !.phase = "sending", !.left = pendingBatch.signed]}
             /\ UNCHANGED <<pendingRequest, pendingBatch, answers>>
    <3>1. [task EXCEPT !.phase = "sending", !.left = pendingBatch.signed] \in Submission
      BY <1>0, <2>1 DEF TypeOK, Submission
    <3> QED BY <1>0, <1>4, <2>2, <3>1 DEF SubmitStarts, TypeInv, TypeOK
  <2>3. CASE submitting' = submitting \ {task} /\ FailSigning(pendingBatch)
    <3>1. ManagerType'
      BY <1>0, <2>3, FailTypes DEF ManagerType
    <3> QED BY <1>0, <1>4, <2>3, <3>1 DEF SubmitStarts, ManagerType, TypeInv, TypeOK
  <2> QED BY <1>4, <2>2, <2>3 DEF SubmitStarts
<1>5. ASSUME NEW task \in submitting, SubmitNext(task) PROVE TypeInv'
  <2>1. task \in Submission /\ Head(task.left) \in Item /\ Tail(task.left) \in Seq(Item)
    BY <1>0, <1>5, QueueTypes DEF SubmitNext, TypeOK, Submission
  <2>2. Append(task.done, Head(task.left)) \in Seq(Item)
    BY <2>1, QueueTypes DEF Submission
  <2>3. [task EXCEPT !.left = Tail(@), !.done = Append(@, Head(task.left))] \in Submission
    BY <2>1, <2>2 DEF Submission
  <2>4. broadcast' \in Seq(Item)
    BY <1>0, <1>5, <2>1, QueueTypes DEF SubmitNext, TypeOK
  <2> QED BY <1>0, <1>5, <2>3, <2>4 DEF SubmitNext, TypeInv, TypeOK
<1>6. ASSUME NEW task \in submitting, SubmitEnds(task) PROVE TypeInv'
  <2>1. task.of \in Request /\ task.done \in Seq(Item)
    BY <1>0, Names DEF TypeOK, Submission
  <2>2. answers' \in [Request -> Seq(Seq(Item))]
    BY <1>0, <1>6, <2>1, AnswerTypes DEF SubmitEnds
  <2> QED BY <1>0, <1>6, <2>2, BatchTypes DEF SubmitEnds, TypeInv, TypeOK
<1> QED
  BY <1>1, <1>2, <1>3, <1>4, <1>5, <1>6 DEF TaskStep

LEMMA HopStepTypes == TypeInv /\ HopStep /\ mixed' \in BOOLEAN => TypeInv'
<1> SUFFICES ASSUME TypeInv, HopStep, mixed' \in BOOLEAN PROVE TypeInv'
  OBVIOUS
<1>0. TypeOK /\ ManagerType
  BY DEF TypeInv, TypeOK, ManagerType
<1> USE DEF linkVars, x3Vars
<1>1. hops # <<>> /\ hops' = Tail(hops) /\ Head(hops) \in Notice /\ hops' \in Seq(Notice)
  BY <1>0, QueueTypes, Zenon DEF HopStep, CompleteWalletRequest, FailWalletRequest, TypeOK
<1>2. CASE CompleteWalletRequest
  <2>1. CASE UNCHANGED <<outstanding, answers, pendingRequest, pendingBatch, submitting,
                         relaying, carried, link>>
    BY <1>0, <1>1, <1>2, <2>1 DEF CompleteWalletRequest, TypeInv, TypeOK
  <2>2. CASE outstanding = Head(hops).item /\ CompleteSigning(outstanding)
    <3>1. outstanding \in Item
      BY <1>1, <2>2 DEF Notice
    <3> HIDE DEF TypeInv
    <3>2. /\ ManagerType' /\ submitting' \subseteq Submission
          /\ relaying' \subseteq [of : Request, item : Item]
          /\ outstanding' \in Item \cup {None} /\ carried' \in Item \cup {None}
          /\ sendingWallet => carried' # None
          /\ link' \in {"down", "up", "closing"}
      BY <2>2, <3>1, CompleteTypes
    <3> QED BY <1>0, <1>1, <1>2, <3>2 DEF CompleteWalletRequest, ManagerType, TypeInv, TypeOK
  <2> QED BY <1>2, <2>1, <2>2 DEF CompleteWalletRequest
<1>3. CASE FailWalletRequest
  <2>1. ManagerType'
    BY <1>0, <1>3, FailTypes DEF FailWalletRequest, ManagerType
  <2> QED BY <1>0, <1>1, <1>3, <2>1 DEF FailWalletRequest, ManagerType, TypeInv, TypeOK
<1> QED
  BY <1>2, <1>3 DEF HopStep

\* A receipt, a transfer, the link and the X3.
LEMMA OtherTypes ==
  ASSUME TypeInv, mixed' \in BOOLEAN,
         \/ \E r \in Request : Receive(r)
         \/ \E t \in Transfer : StartTransfer(t)
         \/ TransferPrepared \/ TransferFails
         \/ Connect \/ Disconnect \/ Deliver \/ WriteFails \/ HandleWalletStatus
         \/ \E kind \in {"Approved", "Refused"} : Decide(kind)
  PROVE  TypeInv'
<1>0. TypeOK /\ ManagerType
  BY DEF TypeInv, TypeOK, ManagerType
<1> USE DEF dappVars, modelVars, linkVars, x3Vars
<1>1. ASSUME NEW r \in Request, Receive(r) PROVE TypeInv'
  <2>1. answers' \in [Request -> Seq(Seq(Item))]
    BY <1>0, <1>1, AnswerTypes, EmptySeq DEF Receive, Failure, TypeOK
  <2> QED BY <1>0, <1>1, <2>1 DEF Receive, TypeInv, TypeOK
<1>2. ASSUME NEW t \in Transfer, StartTransfer(t) PROVE TypeInv'
  BY <1>0, <1>2 DEF StartTransfer, TypeInv, TypeOK
<1>3. CASE TransferPrepared
  <2>1. composing \in Transfer /\ Only(composing) \in Item
    BY <1>0, <1>3, Items DEF TransferPrepared, TypeOK
  <2>2. carried' \in Item /\ carried' # None /\ link' \in {"down", "up", "closing"}
    BY <1>3, <2>1, SignTypes DEF TransferPrepared
  <2> QED BY <1>0, <1>3, <2>1, <2>2 DEF TransferPrepared, TypeInv, TypeOK
<1>4. CASE TransferFails
  BY <1>0, <1>4 DEF TransferFails, TypeInv, TypeOK
<1>5. CASE Connect
  BY <1>0, <1>5 DEF Connect, TypeInv, TypeOK
<1>6. CASE Disconnect
  <2>1. budget' \in [drops : 0 .. MaxDrops, errors : 0 .. MaxErrors]
    BY <1>0, <1>6, Names DEF Disconnect, TypeOK
  <2>2. notices' \in Seq(Notice)
    BY <1>6, EmptySeq DEF Disconnect
  <2> QED BY <1>0, <1>6, <2>1, <2>2 DEF Disconnect, TypeInv, TypeOK
<1>7. CASE Deliver
  BY <1>0, <1>7 DEF Deliver, TypeInv, TypeOK
<1>8. CASE WriteFails
  <2>1. budget' \in [drops : 0 .. MaxDrops, errors : 0 .. MaxErrors]
    <3>1. budget.errors > 0 /\ budget' = [budget EXCEPT !.errors = @ - 1]
      BY <1>8, Zenon DEF WriteFails
    <3>2. budget \in [drops : 0 .. MaxDrops, errors : 0 .. MaxErrors]
      BY <1>0 DEF TypeOK
    <3>3. budget.errors - 1 \in 0 .. MaxErrors
      BY <3>1, <3>2, Names
    <3> QED BY <3>1, <3>2, <3>3
  <2>2. hops' \in Seq(Notice) /\ carried' \in Item \cup {None} /\ sendingWallet' = FALSE
    <3>1. sendingWallet => [kind |-> "Refused", item |-> carried] \in Notice
      BY <1>0, QueueTypes DEF TypeInv, TypeOK
    <3>2. \/ sendingWallet /\ carried' = None
             /\ hops' = Append(hops, [kind |-> "Refused", item |-> carried])
          \/ UNCHANGED <<carried, hops>>
      BY <1>8, Zenon DEF WriteFails
    <3>3. sendingWallet' = FALSE
      BY <1>8, Zenon DEF WriteFails
    <3>4. hops \in Seq(Notice) /\ carried \in Item \cup {None}
      BY <1>0 DEF TypeOK
    <3>5. CASE sendingWallet /\ hops' = Append(hops, [kind |-> "Refused", item |-> carried])
               /\ carried' = None
      BY <3>1, <3>3, <3>4, <3>5, QueueTypes
    <3> QED BY <3>2, <3>3, <3>4, <3>5
  <2>3. review' \in Item \cup {None} /\ writing' = None
    BY <1>0, <1>8 DEF WriteFails, TypeOK
  <2> QED BY <1>0, <1>8, <2>1, <2>2, <2>3 DEF WriteFails, TypeInv, TypeOK
<1>9. CASE HandleWalletStatus
  <2>1. /\ Head(notices) \in Notice /\ notices' \in Seq(Notice) /\ hops' \in Seq(Notice)
        /\ stray' \in BOOLEAN
    BY <1>0, <1>9, QueueTypes DEF HandleWalletStatus, TypeOK
  <2> QED BY <1>0, <1>9, <2>1 DEF HandleWalletStatus, TypeInv, TypeOK
<1>10. ASSUME NEW kind \in {"Approved", "Refused"}, Decide(kind) PROVE TypeInv'
  <2>1. review \in Item /\ [kind |-> kind, item |-> review] \in Notice
    BY <1>0, <1>10, QueueTypes DEF Decide, TypeOK
  <2>2. notices' \in Seq(Notice) /\ approved' \subseteq Item
    BY <1>0, <1>10, <2>1, QueueTypes DEF Decide, TypeOK
  <2> QED BY <1>0, <1>10, <2>2 DEF Decide, TypeInv, TypeOK
<1> QED
  BY <1>1, <1>2, <1>3, <1>4, <1>5, <1>6, <1>7, <1>8, <1>9, <1>10

LEMMA TypeStep == TypeInv /\ [Next]_vars => TypeInv'
<1> SUFFICES ASSUME TypeInv, [Next]_vars PROVE TypeInv'
  OBVIOUS
<1>1. CASE Next
  <2>1. mixed' \in BOOLEAN
    BY <1>1 DEF Next, TypeInv, TypeOK
  <2> QED BY <1>1, <2>1, TaskStepTypes, HopStepTypes, OtherTypes DEF Next, Step
<1>2. CASE UNCHANGED vars
  BY <1>2 DEF vars, TypeInv, TypeOK
<1> QED
  BY <1>1, <1>2

LEMMA TypeAlways == Spec => []TypeInv
BY TypeStarts, TypeStep, PTL DEF Spec

\* Every variable of the phone keeps its range, also after answers were mixed
\* up: what is carried, queued or told is always an item that was asked for.
THEOREM CompanionTypeCorrect == Spec => []TypeOK
<1>1. TypeInv => TypeOK
  BY DEF TypeInv
<1> QED
  BY <1>1, TypeAlways, PTL

-----------------------------------------------------------------------------
(* What a calm step does. *)

\* An answer is the first, and changes that of one request only.
LEMMA Answered ==
  ASSUME TypeInv, NEW r \in Request, NEW result, Answer(r, result), answers[r] = <<>>
  PROVE  /\ answers'[r] = <<result>>
         /\ \A s \in Request \ {r} : answers'[s] = answers[s]
<1>1. answers'[r] = Append(<<>>, result) /\ \A s \in Request \ {r} : answers'[s] = answers[s]
  BY Zenon DEF Answer, TypeInv, TypeOK
<1>2. Append(<<>>, result) = <<result>>
  OBVIOUS
<1> QED
  BY <1>1, <1>2, Zenon

\* How FailSigning answers the pending request.
LEMMA Failed ==
  ASSUME TypeInv, CalmInv, NEW batch, FailSigning(batch)
  PROVE  \/ pendingRequest = None /\ pendingBatch' = batch /\ UNCHANGED <<pendingRequest, answers>>
         \/ /\ pendingRequest \in Request /\ pendingRequest' = None /\ pendingBatch' = NoBatch
            /\ Answer(pendingRequest, Failure) /\ answers[pendingRequest] = <<>>
BY Zenon DEF FailSigning, TypeInv, TypeOK, CalmInv, AnswerInv

\* A reply that has come is about the item that is out, and leaves nothing
\* behind.
LEMMA Replied ==
  ASSUME TypeInv, CalmInv, hops # <<>>
  PROVE  /\ outstanding \in Item /\ outstanding # None /\ carried = None
         /\ Head(hops).item = outstanding /\ Tail(hops) = <<>>
         /\ Head(hops).kind = "Approved" => outstanding \in approved
<1>1. PICK reply \in Notice : /\ outstanding # None /\ carried = None
                              /\ hops = <<reply>> /\ reply.item = outstanding /\ Honest(reply)
  BY Zenon DEF CalmInv, CarryInv
<1>2. Head(hops) = reply /\ Tail(hops) = <<>>
  BY <1>1, Single
<1> QED
  BY <1>1, <1>2, Zenon DEF Honest, TypeInv, TypeOK

\* While something is out, the pending request is in review; while a
\* submission runs, it is in submission.
LEMMA WhereReview ==
  ASSUME TypeInv, CalmInv, outstanding # None, pendingRequest # None
  PROVE  InReview /\ pendingRequest \notin preparing
BY Zenon DEF CalmInv, PendInv, InSubmission

LEMMA WhereSubmission ==
  ASSUME TypeInv, CalmInv, NEW task \in submitting
  PROVE  /\ InSubmission /\ pendingRequest \notin preparing
         /\ submitting = {task} /\ task.of = pendingRequest
         /\ task.of \in Batch /\ task \in Submission
<1>1. pendingRequest \notin preparing \cup {None}
  BY Zenon DEF CalmInv, PendInv
<1>2. InSubmission
  BY <1>1, Zenon DEF CalmInv, PendInv, InReview
<1>3. submitting = {task} /\ task.of = pendingRequest
  BY <1>2 DEF InSubmission
<1> QED
  BY <1>1, <1>2, <1>3, Zenon DEF InSubmission, TypeInv, TypeOK

\* What the network has stays as it was, when nothing more is sent.
LEMMA SentKept ==
  ASSUME TypeInv, CalmInv, broadcast' = broadcast, asked \subseteq asked', approved \subseteq approved',
         \A r \in Request : answers[r] # <<>> => answers'[r] # <<>>,
         \A t \in submitting : \/ answers'[t.of] # <<>>
                               \/ \E n \in submitting' : n.of = t.of /\ n.done = t.done,
         \A n \in submitting' : n.done = <<>> \/ \E t \in submitting : n.done = t.done
  PROVE  SentInv'
<1>1. ASSUME NEW i \in DOMAIN broadcast, broadcast[i].of \in Batch PROVE GoesOutWhole(i)'
  <2>1. GoesOutWhole(i)
    BY <1>1, Zenon DEF CalmInv, SentInv
  <2> QED BY <2>1 DEF GoesOutWhole
<1>2. ASSUME NEW i \in DOMAIN broadcast, broadcast[i].of \in Batch
      PROVE  \/ answers'[broadcast[i].of] # <<>>
             \/ \E n \in submitting' : n.of = broadcast[i].of /\ broadcast[i].call <= Len(n.done)
  <2>1. CASE answers[broadcast[i].of] # <<>>
    BY <1>2, <2>1, Names, Zenon
  <2>2. ASSUME NEW t \in submitting, t.of = broadcast[i].of, broadcast[i].call <= Len(t.done)
        PROVE  \/ answers'[broadcast[i].of] # <<>>
               \/ \E n \in submitting' : n.of = broadcast[i].of /\ broadcast[i].call <= Len(n.done)
    BY <2>2, Zenon
  <2> QED BY <1>2, <2>1, <2>2, Zenon DEF CalmInv, SentInv
<1>3. ASSUME NEW n \in submitting', NEW i \in 1 .. Len(n.done)
      PROVE  \E j \in DOMAIN broadcast : broadcast[j] = n.done[i]
  <2>1. n.done # <<>>
    OBVIOUS
  <2>2. PICK t \in submitting : n.done = t.done
    BY <2>1, Zenon
  <2>3. i \in 1 .. Len(t.done) /\ n.done[i] = t.done[i]
    BY <2>2, Zenon
  <2>4. PICK j \in DOMAIN broadcast : broadcast[j] = t.done[i]
    BY <2>3, Zenon DEF CalmInv, SentInv
  <2> QED BY <2>3, <2>4
<1>4. \A i \in DOMAIN broadcast : broadcast[i].of \in asked'
  BY Zenon DEF CalmInv, SentInv
<1> QED
  BY <1>1, <1>2, <1>3, <1>4, Zenon DEF SentInv

\* Steps beside the dapps' requests: what they disturb is CarryInv.
LEMMA DappsKept ==
  ASSUME TypeInv, CalmInv, UNCHANGED <<dappVars, outstanding>>, approved \subseteq approved',
         composing' \in {composing, None} \/ outstanding = None
  PROVE  PendInv' /\ SignedInv' /\ TaskInv' /\ RelayInv' /\ AnswerInv' /\ SentInv'
<1> USE DEF dappVars
<1>1. PendInv'
  BY Zenon DEF CalmInv, PendInv, InReview, InSubmission
<1>2. SignedInv'
  BY Zenon DEF CalmInv, SignedInv
<1>3. TaskInv'
  <2>1. \A task \in submitting : Progress(task) => Progress(task)'
    BY Zenon DEF Progress
  <2> QED BY <2>1, Zenon DEF CalmInv, TaskInv
<1>4. RelayInv' /\ AnswerInv'
  BY Zenon DEF CalmInv, RelayInv, AnswerInv, Told
<1>5. SentInv'
  <2>1. broadcast' = broadcast /\ asked \subseteq asked' /\ answers' = answers /\ submitting' = submitting
    OBVIOUS
  <2> QED BY <2>1, SentKept, Zenon
<1> QED
  BY <1>1, <1>2, <1>3, <1>4, <1>5

-----------------------------------------------------------------------------
(* The link, the X3 and a transfer's preparation. *)

LEMMA LinkSteps ==
  ASSUME TypeInv, CalmInv, ~stray', Connect \/ Disconnect \/ Deliver \/ WriteFails \/ HandleWalletStatus
  PROVE  CalmInv'
<1> USE DEF dappVars, modelVars, linkVars, x3Vars
<1>1. UNCHANGED <<dappVars, outstanding>> /\ approved' = approved /\ composing' = composing
  BY Zenon DEF Connect, Disconnect, Deliver, WriteFails, HandleWalletStatus
<1>2. PendInv' /\ SignedInv' /\ TaskInv' /\ RelayInv' /\ AnswerInv' /\ SentInv'
  BY <1>1, DappsKept
<1>3. CarryInv'
  <2>1. CASE UNCHANGED <<carried, hops, outstanding, approved>> /\ (notices' = notices \/ notices' = <<>>)
    <3>1. \A i \in DOMAIN notices' : Honest(notices'[i])
      BY <2>1 DEF CalmInv, CarryInv
    <3> QED BY <2>1, <3>1, Zenon DEF CalmInv, CarryInv, Honest
  <2>2. CASE WriteFails /\ sendingWallet
    <3>1. carried \in Item /\ outstanding = carried /\ outstanding # None /\ hops = <<>>
      BY <2>2, Zenon DEF TypeInv, TypeOK, CalmInv, CarryInv
    <3> DEFINE refusal == [kind |-> "Refused", item |-> carried]
    <3>2. /\ hops' = Append(hops, refusal) /\ carried' = None
          /\ notices' = notices /\ approved' = approved /\ outstanding' = outstanding
      BY <2>2, Zenon DEF WriteFails
    <3>3. refusal \in Notice /\ refusal.item = carried /\ Honest(refusal)
      BY <3>1, QueueTypes DEF Honest
    <3>4. hops' = <<refusal>>
      BY <3>1, <3>2
    <3> HIDE DEF refusal
    <3> QED BY <3>1, <3>2, <3>3, <3>4, Zenon DEF CalmInv, CarryInv, Honest
  <2>3. CASE HandleWalletStatus
    <3> DEFINE status == Head(notices)
    <3>1. /\ notices \in Seq(Notice) /\ notices # <<>> /\ notices' = Tail(notices)
          /\ hops' = Append(hops, status) /\ carried' = None
          /\ approved' = approved /\ outstanding' = outstanding /\ status.item = carried
      BY <2>3, Zenon DEF HandleWalletStatus, TypeInv, TypeOK
    <3>2. /\ status \in Notice /\ status = notices[1] /\ 1 \in DOMAIN notices
          /\ \A i \in DOMAIN notices' : i + 1 \in DOMAIN notices /\ notices'[i] = notices[i + 1]
      BY <3>1, Shorter, LenProperties
    <3>3. Honest(status) /\ \A i \in DOMAIN notices' : Honest(notices'[i])
      BY <3>2, Zenon DEF CalmInv, CarryInv
    <3>4. carried # None
      BY <3>1, <3>2, Names DEF Notice
    <3>5. outstanding = carried /\ hops = <<>>
      BY <3>4, Zenon DEF CalmInv, CarryInv
    <3>6. hops' = <<status>>
      BY <3>1, <3>5
    <3> HIDE DEF status
    <3> QED BY <3>1, <3>2, <3>3, <3>4, <3>5, <3>6, Zenon DEF CarryInv, Honest
  <2>4. \/ UNCHANGED <<carried, hops, outstanding, approved>> /\ (notices' = notices \/ notices' = <<>>)
        \/ WriteFails /\ sendingWallet
        \/ HandleWalletStatus
    BY Zenon DEF Connect, Disconnect, Deliver, WriteFails
  <2> QED BY <2>1, <2>2, <2>3, <2>4
<1> QED
  BY <1>2, <1>3 DEF CalmInv

LEMMA DecideStep ==
  ASSUME TypeInv, CalmInv, NEW kind \in {"Approved", "Refused"}, Decide(kind)
  PROVE  CalmInv'
<1> USE DEF dappVars, modelVars
<1>1. UNCHANGED <<dappVars, outstanding, carried, hops>> /\ composing' = composing
  BY Zenon DEF Decide
<1>2. approved \subseteq approved' /\ (kind = "Approved" => review \in approved')
  BY DEF Decide
<1>3. PendInv' /\ SignedInv' /\ TaskInv' /\ RelayInv' /\ AnswerInv' /\ SentInv'
  BY <1>1, <1>2, DappsKept
<1>4. \A i \in DOMAIN notices' : notices'[i].kind = "Approved" => notices'[i].item \in approved'
  <2> DEFINE status == [kind |-> kind, item |-> review]
  <2>1. status.kind = "Approved" => status.item \in approved'
    BY <1>2
  <2>2. status \in Notice
    BY QueueTypes DEF Decide, TypeInv, TypeOK
  <2>3. notices' \in {notices, Append(notices, status)} /\ notices \in Seq(Notice)
    BY DEF Decide, TypeInv, TypeOK
  <2>4. \A i \in DOMAIN notices : notices[i].kind = "Approved" => notices[i].item \in approved'
    BY <1>2 DEF CalmInv, CarryInv, Honest
  <2> HIDE DEF status
  <2>5. CASE notices' = Append(notices, status)
    <3>1. \A i \in DOMAIN notices' : notices'[i] = status \/ (i \in DOMAIN notices /\ notices'[i] = notices[i])
      BY <2>2, <2>3, <2>5, Longer, LenProperties
    <3> QED BY <2>1, <2>4, <3>1
  <2>6. CASE notices' = notices
    BY <2>4, <2>6
  <2> QED BY <2>3, <2>5, <2>6
<1>5. CarryInv'
  <2>1. \A reply \in Notice : Honest(reply) => (reply.kind = "Approved" => reply.item \in approved')
    BY <1>2 DEF Honest
  <2> QED BY <1>1, <1>4, <2>1, Zenon DEF CalmInv, CarryInv, Honest
<1> QED
  BY <1>3, <1>5 DEF CalmInv

\* A transfer that is prepared goes out alone: otherwise it is beside a dapp's
\* request, and mixed.
LEMMA TransferSteps ==
  ASSUME TypeInv, CalmInv,
         ~(pendingRequest' # None /\ outstanding' # None /\ outstanding'.of \in Transfer),
         (\E t \in Transfer : StartTransfer(t)) \/ TransferPrepared \/ TransferFails
  PROVE  CalmInv'
<1> USE DEF dappVars, linkVars, x3Vars
<1>1. CASE (\E t \in Transfer : StartTransfer(t)) \/ TransferFails
  <2>1. /\ UNCHANGED <<dappVars, outstanding, carried, hops, notices, approved>>
        /\ composing' \in {composing, None} \/ outstanding = None
    BY <1>1, Zenon DEF StartTransfer, TransferFails
  <2>2. PendInv' /\ SignedInv' /\ TaskInv' /\ RelayInv' /\ AnswerInv' /\ SentInv'
    BY <2>1, DappsKept
  <2>3. CarryInv'
    BY <2>1, Zenon DEF CalmInv, CarryInv, Honest
  <2> QED BY <2>2, <2>3 DEF CalmInv
<1>2. CASE TransferPrepared
  <2>1. /\ composing \in Transfer /\ composing' = None
        /\ outstanding' = Only(composing) /\ carried' = Only(composing)
        /\ UNCHANGED <<dappVars, hops, notices, approved>>
    BY <1>2, Zenon DEF TransferPrepared, SignWallet, TypeInv, TypeOK
  <2>2. outstanding' \in Item /\ outstanding'.of \in Transfer /\ outstanding' # None
    BY <2>1, Items, Names
  <2>3. pendingRequest = None /\ outstanding = None
    BY <2>1, <2>2, Names, Zenon DEF CalmInv, PendInv
  <2>4. PendInv'
    <3>1. None \notin preparing
      BY Names, Zenon DEF TypeInv, TypeOK
    <3> QED BY <2>1, <2>2, <2>3, <3>1, Zenon DEF CalmInv, PendInv
  <2>5. SignedInv' /\ TaskInv' /\ RelayInv' /\ AnswerInv'
    <3>1. \A task \in submitting : Progress(task) => Progress(task)'
      BY <2>1, Zenon DEF Progress
    <3> QED BY <2>1, <3>1, Zenon DEF CalmInv, SignedInv, TaskInv, RelayInv, AnswerInv, Told
  <2>6. SentInv'
    <3>1. broadcast' = broadcast /\ asked \subseteq asked' /\ answers' = answers
          /\ submitting' = submitting /\ approved \subseteq approved'
      BY <2>1
    <3> QED BY <3>1, SentKept, Zenon
  <2>7. CarryInv'
    BY <2>1, <2>3, Zenon DEF CalmInv, CarryInv, Honest
  <2> QED BY <2>4, <2>5, <2>6, <2>7 DEF CalmInv
<1> QED
  BY <1>1, <1>2

-----------------------------------------------------------------------------
(* A request is received, and prepared. *)

\* The first answer to a request, made of its own items.
LEMMA ToldStill ==
  ASSUME TypeInv, CalmInv, NEW r \in Request, NEW result \in Seq(Item),
         \A i \in 1 .. Len(result) : result[i].of = r,
         Answer(r, result), answers[r] = <<>>
  PROVE  /\ \A s \in Request : Told(s)'
         /\ answers'[r] # <<>> /\ \A s \in Request \ {r} : answers'[s] = answers[s]
         /\ \A s \in Request : answers[s] # <<>> => answers'[s] # <<>>
<1>1. answers'[r] = <<result>> /\ \A s \in Request \ {r} : answers'[s] = answers[s]
  BY Answered
<1>2. <<result>> # <<>> /\ Len(<<result>>) = 1 /\ <<result>>[1] = result
  BY Single
<1>3. Told(r)'
  BY <1>1, <1>2 DEF Told
<1>4. \A s \in Request \ {r} : Told(s)'
  BY <1>1, Zenon DEF CalmInv, AnswerInv, Told
<1> QED
  BY <1>1, <1>2, <1>3, <1>4, Zenon

\* An error is made of no items at all.
LEMMA Empty == Failure \in Seq(Item) /\ \A r \in Request : \A i \in 1 .. Len(Failure) : Failure[i].of = r
BY EmptySeq DEF Failure

LEMMA ReceiveStep ==
  ASSUME TypeInv, CalmInv, NEW r \in Request, Receive(r),
         ~(pendingRequest' # None /\ outstanding' # None /\ outstanding'.of \in Transfer)
  PROVE  CalmInv'
<1> USE DEF modelVars, linkVars, x3Vars
<1>1. /\ r \notin asked /\ asked' = asked \cup {r} /\ answers[r] = <<>>
      /\ UNCHANGED <<pendingBatch, submitting, relaying, broadcast, outstanding, composing,
                     carried, hops, notices, approved>>
  BY Zenon DEF Receive, CalmInv, AnswerInv
<1>2. CarryInv' /\ SignedInv' /\ TaskInv'
  <2>1. \A task \in submitting : Progress(task) => Progress(task)'
    BY <1>1, Zenon DEF Progress
  <2> QED BY <1>1, <2>1, Zenon DEF CalmInv, CarryInv, SignedInv, TaskInv, Honest
<1>3. \A task \in relaying : task.of # r /\ task.of \in asked'
  BY <1>1, Zenon DEF CalmInv, RelayInv
<1>4. CASE pendingRequest # None /\ Answer(r, Failure) /\ UNCHANGED <<pendingRequest, preparing>>
  <2>1. /\ \A s \in Request : Told(s)'
        /\ answers'[r] # <<>> /\ \A s \in Request \ {r} : answers'[s] = answers[s]
        /\ \A s \in Request : answers[s] # <<>> => answers'[s] # <<>>
    BY <1>1, <1>4, ToldStill, Empty
  <2>2. PendInv'
    BY <1>1, <1>4, Zenon DEF CalmInv, PendInv, InReview, InSubmission
  <2>3. RelayInv'
    BY <1>1, <1>3, <1>4, <2>1 DEF CalmInv, RelayInv, TypeInv, TypeOK
  <2>4. AnswerInv'
    BY <1>1, <1>4, <2>1, Zenon DEF CalmInv, AnswerInv, TypeInv, TypeOK
  <2>5. SentInv'
    <3>1. asked \subseteq asked' /\ approved \subseteq approved'
      BY <1>1
    <3> QED BY <1>1, <2>1, <3>1, SentKept, Zenon
  <2> QED BY <1>2, <2>2, <2>3, <2>4, <2>5 DEF CalmInv
<1>5. CASE /\ pendingRequest = None /\ pendingRequest' = r
           /\ preparing' = preparing \cup {r} /\ UNCHANGED answers
  <2>1. outstanding = None /\ pendingBatch = NoBatch /\ submitting = {} /\ r # None
    BY <1>1, <1>5, Names, Zenon DEF CalmInv, PendInv
  <2>2. PendInv'
    <3>1. preparing = {}
      BY <1>5, Names DEF CalmInv, PendInv, TypeInv, TypeOK
    <3> QED BY <1>1, <1>5, <2>1, <3>1 DEF PendInv
  <2>3. RelayInv'
    BY <1>1, <1>3, <1>5, Zenon DEF CalmInv, RelayInv
  <2>4. AnswerInv'
    BY <1>1, <1>5 DEF CalmInv, AnswerInv, Told
  <2>5. SentInv'
    <3>1. asked \subseteq asked' /\ approved \subseteq approved'
      BY <1>1
    <3> QED BY <1>1, <1>5, <3>1, SentKept, Zenon
  <2> QED BY <1>2, <2>2, <2>3, <2>4, <2>5 DEF CalmInv
<1> QED
  BY <1>4, <1>5, Zenon DEF Receive

\* Signing starts: nothing else can be out.
LEMMA PrepareSucceedsStep ==
  ASSUME TypeInv, CalmInv, NEW r \in Request, PrepareSucceeds(r)
  PROVE  CalmInv'
<1> USE DEF x3Vars
<1>1. /\ pendingRequest = r /\ pendingBatch = NoBatch /\ submitting = {} /\ outstanding = None
      /\ preparing' = {} /\ r # None /\ carried = None /\ hops = <<>>
  <2>1. pendingRequest = r /\ preparing' = {} /\ r \in preparing
    BY DEF PrepareSucceeds, CalmInv, PendInv
  <2> QED BY <2>1, Names, Zenon DEF CalmInv, PendInv, CarryInv
<1>2. /\ outstanding' = Only(r) /\ carried' = Only(r)
      /\ pendingBatch' = IF r \in Batch THEN [of |-> r, signed |-> <<>>] ELSE NoBatch
      /\ UNCHANGED <<asked, answers, pendingRequest, submitting, relaying, broadcast,
                     composing, hops, notices, approved>>
  BY <1>1, Zenon DEF PrepareSucceeds, BeginSigning, SignWallet
<1>3. Only(r) \in Item /\ Only(r).of = r /\ Only(r).call = 1 /\ Only(r) # None
  BY Items, Names
<1>4. CarryInv'
  BY <1>1, <1>2, Zenon DEF CalmInv, CarryInv, Honest
<1>5. pendingBatch'.signed = <<>> /\ Len(pendingBatch'.signed) = 0
  BY <1>1, <1>2 DEF NoBatch
<1>6. PendInv'
  <2>1. InReview'
    <3>1. r \in Batch => pendingBatch'.of = r
      BY <1>2
    <3> QED BY <1>1, <1>2, <1>3, <1>5, <3>1 DEF InReview
  <2> QED BY <1>1, <1>2, <2>1, Zenon DEF PendInv
<1>7. SignedInv' /\ TaskInv'
  BY <1>1, <1>2, <1>5 DEF SignedInv, TaskInv
<1>8. RelayInv' /\ AnswerInv'
  BY <1>2, Zenon DEF CalmInv, RelayInv, AnswerInv, Told
<1>9. SentInv'
  <2>1. asked \subseteq asked' /\ approved \subseteq approved'
    BY <1>2
  <2> QED BY <1>2, <2>1, SentKept, Zenon
<1> QED
  BY <1>4, <1>6, <1>7, <1>8, <1>9 DEF CalmInv

\* The pending request is answered with an error, and forgotten: nothing of it
\* is out any more.
LEMMA Forgotten ==
  ASSUME TypeInv, CalmInv, pendingRequest \in Request, Answer(pendingRequest, Failure),
         pendingRequest' = None, pendingBatch' = NoBatch, submitting = {},
         preparing' = {}, outstanding' = None, carried' = None, hops' = <<>>,
         UNCHANGED <<asked, submitting, relaying, broadcast, composing, notices, approved>>
  PROVE  CalmInv'
<1>1. answers[pendingRequest] = <<>> /\ pendingRequest \in asked /\ pendingRequest # None
  BY Names, Zenon DEF CalmInv, AnswerInv
<1>2. /\ \A s \in Request : Told(s)'
      /\ answers'[pendingRequest] # <<>>
      /\ \A s \in Request \ {pendingRequest} : answers'[s] = answers[s]
      /\ \A s \in Request : answers[s] # <<>> => answers'[s] # <<>>
  BY <1>1, ToldStill, Empty
<1>3. CarryInv'
  BY Zenon DEF CalmInv, CarryInv, Honest
<1>4. PendInv' /\ TaskInv'
  BY DEF PendInv, TaskInv
<1>5. SignedInv'
  BY DEF SignedInv, NoBatch
<1>6. RelayInv'
  <2>1. ASSUME NEW task \in relaying
        PROVE  /\ task.of \in Request \ {pendingRequest} /\ task.item = Only(task.of)
               /\ task.of \in asked \ Batch /\ answers[task.of] = <<>> /\ task.of # None
    BY Names, Zenon DEF CalmInv, RelayInv, TypeInv, TypeOK
  <2> QED BY <1>2, <2>1, Zenon DEF RelayInv
<1>7. AnswerInv'
  BY <1>1, <1>2, Zenon DEF CalmInv, AnswerInv
<1>8. SentInv'
  <2>1. asked \subseteq asked' /\ approved \subseteq approved'
    OBVIOUS
  <2> QED BY <1>2, <2>1, SentKept, Zenon
<1> QED
  BY <1>3, <1>4, <1>5, <1>6, <1>7, <1>8 DEF CalmInv

LEMMA PrepareFailsStep ==
  ASSUME TypeInv, CalmInv, NEW r \in Request, PrepareFails(r)
  PROVE  CalmInv'
<1> USE DEF modelVars, linkVars, x3Vars
<1>1. r \in preparing /\ pendingRequest = r /\ preparing' = {}
  BY DEF PrepareFails, CalmInv, PendInv
<1>2. submitting = {} /\ outstanding = None /\ carried = None /\ hops = <<>>
  BY <1>1, Names, Zenon DEF CalmInv, PendInv, CarryInv
<1>3. /\ Answer(pendingRequest, Failure) /\ pendingRequest' = None /\ pendingBatch' = NoBatch
      /\ UNCHANGED <<asked, submitting, relaying, broadcast, composing, notices, approved,
                     outstanding, carried, hops>>
  BY <1>1, Zenon DEF PrepareFails
<1> QED
  BY <1>1, <1>2, <1>3, Forgotten, Zenon

-----------------------------------------------------------------------------
(* What CompanionModel is told of the item that is out. *)

LEMMA FailWalletStep ==
  ASSUME TypeInv, CalmInv, FailWalletRequest
  PROVE  CalmInv'
<1> USE DEF linkVars, x3Vars
<1>1. /\ outstanding # None /\ carried = None /\ outstanding' = None
      /\ hops' = <<>> /\ carried' = None /\ FailSigning(pendingBatch)
      /\ UNCHANGED <<asked, preparing, submitting, relaying, broadcast, composing, notices, approved>>
  BY Replied, Zenon DEF FailWalletRequest
<1>2. CASE pendingRequest = None
  <2>1. UNCHANGED <<pendingBatch, pendingRequest, answers>> /\ pendingBatch = NoBatch /\ submitting = {}
    BY <1>1, <1>2, Zenon DEF FailSigning, CalmInv, PendInv
  <2>2. CarryInv'
    BY <1>1, Zenon DEF CalmInv, CarryInv, Honest
  <2>3. PendInv'
    BY <1>1, <1>2, <2>1, Zenon DEF CalmInv, PendInv, TypeInv, TypeOK
  <2>4. SignedInv' /\ TaskInv' /\ RelayInv' /\ AnswerInv'
    <3>1. TaskInv'
      BY <1>1, <2>1 DEF TaskInv
    <3> QED BY <1>1, <2>1, <3>1, Zenon DEF CalmInv, SignedInv, RelayInv, AnswerInv, Told
  <2>5. SentInv'
    <3>1. asked \subseteq asked' /\ approved \subseteq approved'
      BY <1>1
    <3> QED BY <1>1, <2>1, <3>1, SentKept, Zenon
  <2> QED BY <2>2, <2>3, <2>4, <2>5 DEF CalmInv
<1>3. CASE pendingRequest # None
  <2>1. /\ pendingRequest \in Request /\ Answer(pendingRequest, Failure)
        /\ pendingRequest' = None /\ pendingBatch' = NoBatch
    BY <1>1, <1>3, Failed, Zenon
  <2>2. submitting = {} /\ preparing = {}
    BY <1>1, <1>3, WhereReview DEF InReview, CalmInv, PendInv
  <2> QED BY <1>1, <2>1, <2>2, Forgotten, Zenon
<1> QED
  BY <1>2, <1>3

\* The next call of a batch goes out, or the whole batch is queued.
LEMMA CallSigned ==
  ASSUME TypeInv, CalmInv, outstanding \in approved, outstanding \in Item, outstanding # None,
         pendingRequest \in Batch, CompleteCall(outstanding),
         carried = None, hops' = <<>>,
         UNCHANGED <<asked, preparing, relaying, broadcast, composing, notices, approved>>
  PROVE  CalmInv'
<1> DEFINE signed == Append(pendingBatch.signed, outstanding)
           next   == Call(pendingBatch.of, Len(signed) + 1)
<1>1. /\ pendingRequest \in Request /\ pendingRequest # None /\ InReview
      /\ pendingRequest \notin preparing /\ preparing = {}
  <2>1. pendingRequest \in Request /\ pendingRequest # None
    BY Names
  <2>2. InReview /\ pendingRequest \notin preparing
    BY <2>1, WhereReview
  <2> QED BY <2>1, <2>2 DEF CalmInv, PendInv
<1>2. /\ pendingBatch.of = pendingRequest /\ submitting = {}
      /\ outstanding = Call(pendingRequest, Len(pendingBatch.signed) + 1)
      /\ Len(pendingBatch.signed) + 1 \in 1 .. CallCount
  BY <1>1, Items DEF InReview
<1>3. pendingBatch # NoBatch /\ IsTransaction(outstanding)
  BY <1>1, <1>2, Names, Items DEF NoBatch, IsTransaction
<1>4. /\ signed \in Seq(Item) /\ Len(signed) = Len(pendingBatch.signed) + 1
      /\ Len(pendingBatch.signed) \in Nat
      /\ \A i \in 1 .. Len(signed) : signed[i] = Call(pendingRequest, i) /\ signed[i] \in approved
  <2>1. pendingBatch.signed \in Seq(Item)
    BY DEF TypeInv, TypeOK
  <2>2. \A i \in 1 .. Len(pendingBatch.signed) :
          pendingBatch.signed[i] = Call(pendingRequest, i) /\ pendingBatch.signed[i] \in approved
    BY <1>2, Zenon DEF CalmInv, SignedInv
  <2>3. /\ signed \in Seq(Item) /\ Len(signed) = Len(pendingBatch.signed) + 1
        /\ \A i \in 1 .. Len(pendingBatch.signed) : signed[i] = pendingBatch.signed[i]
        /\ signed[Len(pendingBatch.signed) + 1] = outstanding
    BY <2>1, Longer
  <2>4. Len(pendingBatch.signed) \in Nat
    BY <2>1, LenProperties
  <2> HIDE DEF signed
  <2>5. ASSUME NEW i \in 1 .. Len(signed)
        PROVE  signed[i] = Call(pendingRequest, i) /\ signed[i] \in approved
    <3>1. i \in 1 .. Len(pendingBatch.signed) \/ i = Len(pendingBatch.signed) + 1
      BY <2>3, <2>4
    <3> QED BY <1>2, <2>2, <2>3, <3>1
  <2> QED BY <2>3, <2>4, <2>5
<1>5. /\ pendingBatch' = [pendingBatch EXCEPT !.signed = signed]
      /\ UNCHANGED <<pendingRequest, answers>>
      /\ \/ /\ Len(signed) < CallCount
            /\ outstanding' = next /\ carried' = next /\ UNCHANGED submitting
         \/ /\ Len(signed) >= CallCount
            /\ submitting' = submitting \cup {Queued(pendingRequest)}
            /\ outstanding' = None /\ carried' = None
  BY <1>3, Zenon DEF CompleteCall, SignWallet
<1>6. pendingBatch'.signed = signed /\ pendingBatch'.of = pendingRequest
  BY <1>2, <1>5 DEF TypeInv, TypeOK
<1> HIDE DEF signed
<1>7. SignedInv'
  <2>1. approved' = approved
    OBVIOUS
  <2> QED BY <1>4, <1>6, <2>1, Zenon DEF SignedInv
<1>8. RelayInv' /\ AnswerInv'
  BY <1>5, Zenon DEF CalmInv, RelayInv, AnswerInv, Told
<1>9. CarryInv'
  BY <1>5, Zenon DEF CalmInv, CarryInv, Honest
<1>10. CASE /\ Len(signed) < CallCount
            /\ outstanding' = next /\ carried' = next /\ UNCHANGED submitting
  <2>1. Len(signed) + 1 \in 1 .. CallCount
    BY <1>4, <1>10, Names
  <2>2. /\ next \in Item /\ next.of = pendingRequest /\ next.call = Len(signed) + 1 /\ next # None
    BY <1>1, <1>2, <2>1, Items, Names
  <2> HIDE DEF next
  <2>3. InReview'
    BY <1>2, <1>5, <1>6, <1>10, <2>2 DEF InReview
  <2>4. PendInv' /\ TaskInv'
    BY <1>1, <1>2, <1>5, <1>10, <2>3 DEF PendInv, TaskInv
  <2>5. SentInv'
    <3>1. asked \subseteq asked' /\ approved \subseteq approved'
      OBVIOUS
    <3> QED BY <1>2, <1>5, <1>10, <3>1, SentKept, Zenon
  <2> QED BY <1>7, <1>8, <1>9, <2>4, <2>5 DEF CalmInv
<1>11. CASE /\ Len(signed) >= CallCount
            /\ submitting' = submitting \cup {Queued(pendingRequest)}
            /\ outstanding' = None /\ carried' = None
  <2>1. /\ submitting' = {Queued(pendingRequest)} /\ Len(signed) = CallCount
        /\ Queued(pendingRequest).of = pendingRequest /\ Queued(pendingRequest).done = <<>>
        /\ Queued(pendingRequest).phase = "queued"
    BY <1>2, <1>4, <1>11, Names DEF Queued
  <2>2. InSubmission'
    BY <1>5, <1>6, <1>11, <2>1 DEF InSubmission
  <2>3. PendInv' /\ TaskInv'
    <3>1. TaskInv'
      BY <2>1 DEF TaskInv
    <3> QED BY <1>1, <1>5, <2>2, <3>1 DEF PendInv
  <2>4. SentInv'
    <3>1. asked \subseteq asked' /\ approved \subseteq approved'
      OBVIOUS
    <3> QED BY <1>2, <1>5, <2>1, <3>1, SentKept, Zenon
  <2> QED BY <1>7, <1>8, <1>9, <2>3, <2>4 DEF CalmInv
<1> QED
  BY <1>5, <1>10, <1>11

\* The only item of a request is signed: it is answered, or relayed.
LEMMA SingleSigned ==
  ASSUME TypeInv, CalmInv, outstanding \in Item, outstanding # None,
         pendingRequest \in Request \ Batch, CompleteSigning(outstanding),
         carried = None, hops' = <<>>,
         UNCHANGED <<asked, preparing, broadcast, composing, notices, approved>>
  PROVE  CalmInv'
<1>1. /\ pendingRequest # None /\ InReview /\ preparing = {}
      /\ pendingRequest \in asked /\ answers[pendingRequest] = <<>>
  <2>1. pendingRequest # None
    BY Names
  <2>2. InReview /\ pendingRequest \notin preparing
    BY <2>1, WhereReview
  <2> QED BY <2>1, <2>2 DEF CalmInv, PendInv, AnswerInv
<1>2. /\ outstanding = Only(pendingRequest) /\ outstanding.of = pendingRequest
      /\ pendingBatch = NoBatch /\ submitting = {}
  BY <1>1, Items DEF InReview, Only
<1>3. /\ pendingRequest' = None /\ outstanding' = None
      /\ UNCHANGED <<pendingBatch, submitting, carried, link>>
      /\ \/ /\ relaying' = relaying \cup {[of |-> pendingRequest, item |-> outstanding]}
            /\ UNCHANGED answers
         \/ AnswerSigned(pendingRequest, outstanding) /\ UNCHANGED relaying
  BY Names, Zenon DEF CompleteSigning
<1>4. CarryInv'
  BY <1>3, Zenon DEF CalmInv, CarryInv, Honest
<1>5. PendInv' /\ TaskInv'
  BY <1>1, <1>2, <1>3 DEF PendInv, TaskInv
<1>6. SignedInv'
  BY <1>2, <1>3 DEF SignedInv, NoBatch
<1>7. \A task \in relaying : /\ task.of \in Request \ {pendingRequest} /\ task.item = Only(task.of)
                             /\ task.of \in asked \ Batch /\ answers[task.of] = <<>> /\ task.of # None
  BY Names, Zenon DEF CalmInv, RelayInv, TypeInv, TypeOK
<1>8. asked \subseteq asked' /\ approved \subseteq approved'
  OBVIOUS
<1>9. CASE /\ relaying' = relaying \cup {[of |-> pendingRequest, item |-> outstanding]}
           /\ UNCHANGED answers
  <2>1. RelayInv'
    BY <1>1, <1>2, <1>3, <1>7, <1>9 DEF RelayInv
  <2>2. AnswerInv'
    BY <1>3, <1>9, Zenon DEF CalmInv, AnswerInv, Told
  <2>3. SentInv'
    BY <1>3, <1>8, <1>9, SentKept, Zenon
  <2> QED BY <1>4, <1>5, <1>6, <2>1, <2>2, <2>3 DEF CalmInv
<1>10. CASE AnswerSigned(pendingRequest, outstanding) /\ UNCHANGED relaying
  <2>1. PICK result \in Seq(Item) : /\ Answer(pendingRequest, result)
                                    /\ \A i \in 1 .. Len(result) : result[i].of = pendingRequest
    <3>1. /\ <<outstanding>> \in Seq(Item)
          /\ \A i \in 1 .. Len(<<outstanding>>) : <<outstanding>>[i].of = pendingRequest
      BY <1>2
    <3> QED BY <1>10, <3>1, Empty DEF AnswerSigned
  <2>2. /\ \A s \in Request : Told(s)'
        /\ answers'[pendingRequest] # <<>>
        /\ \A s \in Request \ {pendingRequest} : answers'[s] = answers[s]
        /\ \A s \in Request : answers[s] # <<>> => answers'[s] # <<>>
    BY <1>1, <1>10, <2>1, ToldStill
  <2>3. RelayInv'
    BY <1>3, <1>7, <1>10, <2>2, Zenon DEF RelayInv
  <2>4. AnswerInv'
    BY <1>1, <1>3, <2>2, Zenon DEF CalmInv, AnswerInv
  <2>5. SentInv'
    BY <1>2, <1>3, <1>8, <2>2, SentKept, Zenon
  <2> QED BY <1>4, <1>5, <1>6, <2>3, <2>4, <2>5 DEF CalmInv
<1> QED
  BY <1>3, <1>9, <1>10

LEMMA CompleteWalletStep ==
  ASSUME TypeInv, CalmInv, CompleteWalletRequest
  PROVE  CalmInv'
<1> USE DEF x3Vars
<1>1. /\ outstanding \in Item /\ outstanding # None /\ carried = None /\ hops' = <<>>
      /\ outstanding \in approved /\ CompleteSigning(outstanding)
      /\ UNCHANGED <<asked, preparing, broadcast, composing, notices, approved>>
  BY Replied, Zenon DEF CompleteWalletRequest
<1>2. CASE pendingRequest = None
  <2>1. outstanding' = None
        /\ UNCHANGED <<pendingRequest, pendingBatch, answers, submitting, relaying, carried>>
    BY <1>1, <1>2, Names, Zenon DEF CompleteSigning
  <2>2. pendingBatch = NoBatch /\ submitting = {}
    BY <1>2, Zenon DEF CalmInv, PendInv
  <2>3. CarryInv'
    BY <1>1, <2>1, Zenon DEF CalmInv, CarryInv, Honest
  <2>4. PendInv'
    <3>1. None \notin preparing
      BY Names, Zenon DEF TypeInv, TypeOK
    <3> QED BY <1>1, <1>2, <2>1, <3>1, Zenon DEF CalmInv, PendInv
  <2>5. SignedInv' /\ TaskInv' /\ RelayInv' /\ AnswerInv'
    <3>1. TaskInv'
      BY <2>1, <2>2 DEF TaskInv
    <3> QED BY <1>1, <2>1, <3>1, Zenon DEF CalmInv, SignedInv, RelayInv, AnswerInv, Told
  <2>6. SentInv'
    <3>1. asked \subseteq asked' /\ approved \subseteq approved'
      BY <1>1
    <3> QED BY <1>1, <2>1, <3>1, SentKept, Zenon
  <2> QED BY <2>3, <2>4, <2>5, <2>6 DEF CalmInv
<1>3. CASE pendingRequest \in Batch
  <2>1. CompleteCall(outstanding) /\ UNCHANGED relaying
    BY <1>1, <1>3, Names, Zenon DEF CompleteSigning
  <2> QED BY <1>1, <1>3, <2>1, CallSigned, Zenon
<1>4. CASE pendingRequest \in Request \ Batch
  BY <1>1, <1>4, SingleSigned, Zenon
<1> QED
  BY <1>2, <1>3, <1>4 DEF TypeInv, TypeOK

-----------------------------------------------------------------------------
(* What goes to the network. *)

\* One transaction more, after which everything before it stands as it did.
LEMMA SentMore ==
  ASSUME TypeInv, CalmInv, NEW item \in Item, broadcast' = Append(broadcast, item),
         approved' = approved
  PROVE  /\ DOMAIN broadcast = 1 .. Len(broadcast) /\ Len(broadcast) \in Nat
         /\ DOMAIN broadcast' = 1 .. Len(broadcast) + 1
         /\ \A i \in DOMAIN broadcast : broadcast'[i] = broadcast[i]
         /\ broadcast'[Len(broadcast) + 1] = item
         /\ \A i \in DOMAIN broadcast : broadcast[i].of \in Batch => GoesOutWhole(i)'
<1>1. broadcast \in Seq(Item)
  BY DEF TypeInv, TypeOK
<1>2. /\ broadcast' \in Seq(Item) /\ Len(broadcast') = Len(broadcast) + 1
      /\ \A i \in 1 .. Len(broadcast) : broadcast'[i] = broadcast[i]
      /\ broadcast'[Len(broadcast) + 1] = item
  BY <1>1, Longer
<1>3. /\ DOMAIN broadcast = 1 .. Len(broadcast) /\ Len(broadcast) \in Nat
      /\ DOMAIN broadcast' = 1 .. Len(broadcast')
  BY <1>1, <1>2, LenProperties
<1>4. ASSUME NEW i \in DOMAIN broadcast, broadcast[i].of \in Batch PROVE GoesOutWhole(i)'
  <2>1. GoesOutWhole(i)
    BY <1>4, Zenon DEF CalmInv, SentInv
  <2>2. /\ i \in 1 .. Len(broadcast) /\ broadcast'[i] = broadcast[i]
        /\ \A j \in 1 .. i - 1 : broadcast'[j] = broadcast[j]
    BY <1>2, <1>3
  <2> QED BY <2>1, <2>2 DEF GoesOutWhole
<1> QED
  BY <1>2, <1>3, <1>4

LEMMA RelayStep ==
  ASSUME TypeInv, CalmInv, NEW task \in relaying, NEW accepted \in BOOLEAN,
         RelayReturns(task, accepted)
  PROVE  CalmInv'
<1> USE DEF modelVars, linkVars, x3Vars
<1>1. /\ task.of \in Request /\ task.item \in Item /\ task.item.of = task.of
      /\ task.item = Only(task.of) /\ task.of \in asked \ Batch
      /\ task.of # pendingRequest /\ answers[task.of] = <<>>
  <2>1. task \in [of : Request, item : Item]
    BY DEF TypeInv, TypeOK
  <2>2. task.of \in Request /\ task.item \in Item
    BY <2>1
  <2> QED BY <2>2, Items, Zenon DEF CalmInv, RelayInv
<1>2. /\ relaying' = relaying \ {task}
      /\ UNCHANGED <<asked, pendingRequest, pendingBatch, preparing, submitting, outstanding,
                     composing, hops, carried, notices, approved>>
      /\ \/ AnswerSigned(task.of, task.item) /\ broadcast' = Append(broadcast, task.item)
         \/ Answer(task.of, Failure) /\ UNCHANGED broadcast
  BY Zenon DEF RelayReturns
<1>3. PICK result \in Seq(Item) : /\ Answer(task.of, result)
                                  /\ \A i \in 1 .. Len(result) : result[i].of = task.of
  <2>1. <<task.item>> \in Seq(Item) /\ \A i \in 1 .. Len(<<task.item>>) : <<task.item>>[i].of = task.of
    BY <1>1
  <2> QED BY <1>1, <1>2, <2>1, Empty DEF AnswerSigned
<1>4. /\ \A s \in Request : Told(s)'
      /\ \A s \in Request \ {task.of} : answers'[s] = answers[s]
      /\ \A s \in Request : answers[s] # <<>> => answers'[s] # <<>>
  BY <1>1, <1>3, ToldStill
<1>5. CarryInv' /\ PendInv' /\ SignedInv' /\ TaskInv'
  <2>1. \A t \in submitting : Progress(t) => Progress(t)'
    BY <1>2, Zenon DEF Progress
  <2> QED BY <1>2, <2>1, Zenon DEF CalmInv, CarryInv, PendInv, InReview, InSubmission, SignedInv,
                                   TaskInv, Honest
<1>6. RelayInv'
  <2>1. ASSUME NEW other \in relaying' PROVE other.of \in Request \ {task.of} /\ other \in relaying
    <3>1. other \in relaying /\ other # task
      BY <1>2
    <3>2. other \in [of : Request, item : Item] /\ task \in [of : Request, item : Item]
      BY <3>1 DEF TypeInv, TypeOK
    <3>3. other.item = Only(other.of)
      BY <3>1, Zenon DEF CalmInv, RelayInv
    <3> QED BY <1>1, <3>1, <3>2, <3>3
  <2> QED BY <1>2, <1>4, <2>1, Zenon DEF CalmInv, RelayInv
<1>7. AnswerInv'
  BY <1>1, <1>2, <1>4, Zenon DEF CalmInv, AnswerInv, TypeInv, TypeOK
<1>8. SentInv'
  <2>1. CASE UNCHANGED broadcast
    <3>1. asked \subseteq asked' /\ approved \subseteq approved'
      BY <1>2
    <3> QED BY <1>2, <1>4, <2>1, <3>1, SentKept, Zenon
  <2>2. CASE broadcast' = Append(broadcast, task.item)
    <3>1. /\ DOMAIN broadcast = 1 .. Len(broadcast) /\ Len(broadcast) \in Nat
          /\ DOMAIN broadcast' = 1 .. Len(broadcast) + 1
          /\ \A i \in DOMAIN broadcast : broadcast'[i] = broadcast[i]
          /\ broadcast'[Len(broadcast) + 1] = task.item
          /\ \A i \in DOMAIN broadcast : broadcast[i].of \in Batch => GoesOutWhole(i)'
      BY <1>1, <1>2, <2>2, SentMore
    <3>2. ASSUME NEW i \in DOMAIN broadcast'
          PROVE  i \in DOMAIN broadcast \/ broadcast'[i] = task.item
      BY <3>1
    <3>3. ASSUME NEW i \in DOMAIN broadcast, broadcast[i].of \in Batch
          PROVE  \/ answers'[broadcast[i].of] # <<>>
                 \/ \E t \in submitting : t.of = broadcast[i].of /\ broadcast[i].call <= Len(t.done)
      BY <1>4, <3>3, Names, Zenon DEF CalmInv, SentInv
    <3>4. \A t \in submitting : \A i \in 1 .. Len(t.done) :
            \E j \in DOMAIN broadcast' : broadcast'[j] = t.done[i]
      <4>1. DOMAIN broadcast \subseteq DOMAIN broadcast'
        BY <3>1
      <4> QED BY <3>1, <4>1, Zenon DEF CalmInv, SentInv
    <3>5. task.item.of \in asked' /\ task.item.of \notin Batch
      BY <1>1, <1>2
    <3>6. \A i \in DOMAIN broadcast : broadcast[i].of \in asked'
      BY <1>2, Zenon DEF CalmInv, SentInv
    <3>7. submitting' = submitting
      BY <1>2
    <3> QED BY <3>1, <3>2, <3>3, <3>4, <3>5, <3>6, <3>7, Zenon DEF SentInv
  <2> QED BY <1>2, <2>1, <2>2
<1> QED
  BY <1>5, <1>6, <1>7, <1>8 DEF CalmInv

\* The copy it takes is the whole batch.
LEMMA SubmitStartsStep ==
  ASSUME TypeInv, CalmInv, NEW task \in submitting, SubmitStarts(task)
  PROVE  CalmInv'
<1> USE DEF modelVars, linkVars, x3Vars
<1>1. /\ pendingRequest \in Batch /\ pendingBatch.of = pendingRequest
      /\ Len(pendingBatch.signed) = CallCount /\ submitting = {task} /\ task.of = pendingRequest
      /\ pendingRequest \notin preparing /\ outstanding = None /\ pendingRequest # None
  BY WhereSubmission, Names DEF InSubmission
<1>2. task.phase = "queued" /\ task = Queued(task.of) /\ task.done = <<>>
  BY DEF SubmitStarts, CalmInv, TaskInv, Queued
<1> DEFINE started == [task EXCEPT !.phase = "sending", !.left = pendingBatch.signed]
<1>3. /\ submitting' = {started}
      /\ UNCHANGED <<pendingRequest, pendingBatch, answers, asked, preparing, relaying, broadcast,
                     outstanding, composing, hops, carried, notices, approved>>
  <2>1. pendingBatch # NoBatch
    BY <1>1 DEF NoBatch
  <2>2. /\ submitting' = (submitting \ {task}) \cup {started}
        /\ UNCHANGED <<pendingRequest, pendingBatch, answers, asked, preparing, relaying, broadcast,
                       outstanding, composing, hops, carried, notices, approved>>
    BY <1>1, <2>1, Zenon DEF SubmitStarts
  <2> QED BY <1>1, <2>2
<1>4. /\ started.of = task.of /\ started.phase = "sending" /\ started.done = <<>>
      /\ started.left = pendingBatch.signed
  BY <1>2 DEF Queued
<1> HIDE DEF started
<1>5. TaskInv'
  <2>1. /\ Len(started.done) = 0 /\ Len(started.left) = CallCount
        /\ \A i \in 1 .. CallCount : /\ started.left[i] = Call(task.of, i)
                                     /\ Call(task.of, i) \in approved
    <3>1. Len(started.done) = 0
      BY <1>4
    <3> QED BY <1>1, <1>4, <3>1, Zenon DEF CalmInv, SignedInv
  <2>2. \A i \in 1 .. CallCount : 0 + i = i
    BY Names
  <2>3. Progress(started)
    <3>1. 0 + CallCount = CallCount /\ \A i : i \notin 1 .. 0
      BY Names
    <3> QED BY <1>4, <2>1, <2>2, <3>1 DEF Progress
  <2>4. ASSUME NEW t \in submitting' PROVE Progress(t)' /\ t.phase = "sending"
    <3>1. t = started /\ Progress(t)
      BY <1>3, <2>3
    <3> QED BY <1>3, <1>4, <3>1 DEF Progress
  <2> QED BY <2>4 DEF TaskInv
<1>6. CarryInv' /\ RelayInv' /\ AnswerInv' /\ SignedInv'
  BY <1>3, Zenon DEF CalmInv, CarryInv, RelayInv, AnswerInv, SignedInv, Honest, Told
<1>7. PendInv'
  <2>1. InSubmission'
    BY <1>1, <1>3, <1>4, Zenon DEF InSubmission
  <2> QED BY <1>1, <1>3, <2>1, Zenon DEF CalmInv, PendInv
<1>8. SentInv'
  <2>1. /\ asked \subseteq asked' /\ approved \subseteq approved'
        /\ \A t \in submitting : \E n \in submitting' : n.of = t.of /\ n.done = t.done
        /\ \A n \in submitting' : n.done = <<>>
    BY <1>1, <1>2, <1>3, <1>4
  <2> QED BY <1>3, <2>1, SentKept, Zenon
<1> QED
  BY <1>5, <1>6, <1>7, <1>8 DEF CalmInv

\* The next transaction is that of the next call, and goes out the first time.
LEMMA SubmitNextStep ==
  ASSUME TypeInv, CalmInv, NEW task \in submitting, SubmitNext(task)
  PROVE  CalmInv'
<1> USE DEF modelVars, linkVars, x3Vars
<1>1. /\ pendingRequest \in Batch /\ pendingBatch.of = pendingRequest
      /\ Len(pendingBatch.signed) = CallCount /\ submitting = {task} /\ task.of = pendingRequest
      /\ pendingRequest \notin preparing /\ outstanding = None /\ pendingRequest # None
      /\ task \in Submission /\ task.of \in Batch /\ pendingRequest \in Request
  BY WhereSubmission, Names DEF InSubmission
<1>2. Progress(task) /\ task.left # <<>> /\ task.phase = "sending"
  BY Zenon DEF SubmitNext, CalmInv, TaskInv
<1> DEFINE item == Head(task.left)
           after == [task EXCEPT !.left = Tail(@), !.done = Append(@, item)]
           n == Len(task.done) + 1
<1>3. /\ submitting' = {after} /\ broadcast' = Append(broadcast, item)
      /\ UNCHANGED <<asked, answers, pendingRequest, pendingBatch, preparing, relaying,
                     outstanding, composing, hops, carried, notices, approved>>
  <2>1. /\ submitting' = (submitting \ {task}) \cup {after} /\ broadcast' = Append(broadcast, item)
        /\ UNCHANGED <<asked, answers, pendingRequest, pendingBatch, preparing, relaying,
                       outstanding, composing, hops, carried, notices, approved>>
    BY Zenon DEF SubmitNext
  <2> QED BY <1>1, <2>1
<1>4. task.left \in Seq(Item) /\ task.done \in Seq(Item)
  BY <1>1 DEF Submission
<1>5. Len(task.left) >= 1
  BY <1>2, <1>4, Shorter
<1>6. Len(task.done) + Len(task.left) = CallCount
  BY <1>2, Zenon DEF Progress
<1>7. /\ Len(task.done) + 1 \in 1 .. CallCount
       /\ (Len(task.done) + 1) + (Len(task.left) - 1) = CallCount
       /\ \A i \in 1 .. Len(task.left) - 1 :
            i + 1 \in 1 .. Len(task.left) /\ Len(task.done) + (i + 1) = (Len(task.done) + 1) + i
  <2>1. CallCount \in Nat
    BY Names
  <2>2. \A done, left \in Seq(Item) : Len(done) + Len(left) = CallCount /\ Len(left) >= 1 =>
          /\ Len(done) + 1 \in 1 .. CallCount
          /\ (Len(done) + 1) + (Len(left) - 1) = CallCount
          /\ \A i \in 1 .. Len(left) - 1 :
               i + 1 \in 1 .. Len(left) /\ Len(done) + (i + 1) = (Len(done) + 1) + i
    BY <2>1, Parts
  <2> QED BY <1>4, <1>5, <1>6, <2>2, Zenon
<1>8. /\ item \in Item /\ Len(task.left) >= 1 /\ item = task.left[1]
      /\ Len(Tail(task.left)) = Len(task.left) - 1
      /\ \A i \in 1 .. Len(Tail(task.left)) : Tail(task.left)[i] = task.left[i + 1]
      /\ Len(task.left) \in Nat /\ Len(task.done) \in Nat
  BY <1>2, <1>4, Shorter, LenProperties
<1>9. /\ Len(Append(task.done, item)) = n
      /\ \A i \in 1 .. Len(task.done) : Append(task.done, item)[i] = task.done[i]
      /\ Append(task.done, item)[n] = item
  BY <1>4, <1>8, Longer
<1>10. item = Call(task.of, n) /\ n \in 1 .. CallCount
  <2>1. 1 \in 1 .. Len(task.left)
    BY <1>8
  <2>2. task.left[1] = Call(task.of, n) /\ Len(task.done) + Len(task.left) = CallCount
    BY <1>2, <2>1, Zenon DEF Progress
  <2> QED BY <1>7, <1>8, <2>2, Zenon
<1>11. item.of = task.of /\ item.call = n
  BY <1>1, <1>10, Items
<1>12. /\ after.of = task.of /\ after.phase = "sending"
      /\ after.left = Tail(task.left) /\ after.done = Append(task.done, item)
  BY <1>1, <1>2 DEF Submission
<1> HIDE DEF after, item
<1>13. TaskInv'
  <2>1. Len(after.done) = n /\ Len(after.left) = Len(task.left) - 1
    BY <1>8, <1>9, <1>12
  <2>2. \A i \in 1 .. Len(after.done) : after.done[i] = Call(task.of, i)
    <3> TAKE i \in 1 .. Len(after.done)
    <3>1. i \in 1 .. Len(task.done) \/ i = n
      BY <1>8, <2>1
    <3> QED BY <1>2, <1>9, <1>10, <1>12, <3>1 DEF Progress
  <2>3. \A i \in 1 .. Len(after.left) : after.left[i] = Call(task.of, n + i)
    <3> TAKE i \in 1 .. Len(after.left)
    <3>1. i \in 1 .. Len(task.left) - 1 /\ i \in 1 .. Len(Tail(task.left))
      BY <1>8, <2>1, <1>12
    <3>2. i + 1 \in 1 .. Len(task.left) /\ Len(task.done) + (i + 1) = n + i
      BY <1>7, <3>1, Zenon
    <3>3. task.left[i + 1] = Call(task.of, Len(task.done) + (i + 1))
      BY <1>2, <3>2, Zenon DEF Progress
    <3> QED BY <1>8, <1>12, <3>1, <3>2, <3>3
  <2>4. ASSUME NEW t \in submitting' PROVE Progress(t)' /\ t.phase = "sending"
    <3>1. t = after
      BY <1>3
    <3>2. Len(after.done) + Len(after.left) = CallCount
      BY <1>7, <2>1, Zenon
    <3>3. \A i \in 1 .. CallCount : Call(task.of, i) \in approved'
      BY <1>2, <1>3 DEF Progress
    <3> QED BY <1>12, <2>1, <2>2, <2>3, <3>1, <3>2, <3>3 DEF Progress
  <2> QED BY <2>4 DEF TaskInv
<1>14. CarryInv' /\ RelayInv' /\ AnswerInv' /\ SignedInv'
  BY <1>3, Zenon DEF CalmInv, CarryInv, RelayInv, AnswerInv, SignedInv, Honest, Told
<1>15. PendInv'
  <2>1. InSubmission'
    BY <1>1, <1>3, <1>12, Zenon DEF InSubmission
  <2> QED BY <1>1, <1>3, <2>1, Zenon DEF CalmInv, PendInv
<1>16. /\ DOMAIN broadcast = 1 .. Len(broadcast) /\ Len(broadcast) \in Nat
       /\ DOMAIN broadcast' = 1 .. Len(broadcast) + 1
       /\ \A i \in DOMAIN broadcast : broadcast'[i] = broadcast[i]
       /\ broadcast'[Len(broadcast) + 1] = item
       /\ \A i \in DOMAIN broadcast : broadcast[i].of \in Batch => GoesOutWhole(i)'
  BY <1>3, <1>8, SentMore
<1>17. \A i \in 1 .. Len(task.done) : \E j \in DOMAIN broadcast : broadcast[j] = Call(task.of, i)
  <2>1. \A i \in 1 .. Len(task.done) : task.done[i] = Call(task.of, i)
    BY <1>2 DEF Progress
  <2> QED BY <2>1, Zenon DEF CalmInv, SentInv
<1>18. \A j \in DOMAIN broadcast : broadcast[j] # item
  <2> SUFFICES ASSUME NEW j \in DOMAIN broadcast, broadcast[j] = item PROVE FALSE
    OBVIOUS
  <2>1. broadcast[j].of = pendingRequest /\ broadcast[j].of \in Batch /\ broadcast[j].call = n
    BY <1>1, <1>11
  <2>2. answers[pendingRequest] = <<>>
    BY <1>1, Zenon DEF CalmInv, AnswerInv
  <2>3. PICK t \in submitting : broadcast[j].call <= Len(t.done)
    BY <2>1, <2>2, Zenon DEF CalmInv, SentInv
  <2> QED BY <1>1, <1>8, <2>1, <2>3
<1>19. PICK last \in Nat : last = Len(broadcast) + 1
  BY <1>16
<1>20. GoesOutWhole(last)'
  <2>1. broadcast'[last] = item /\ 1 .. last - 1 = DOMAIN broadcast
    BY <1>16, <1>19
  <2>2. \A c \in 1 .. CallCount : Call(task.of, c) \in approved'
    BY <1>2, <1>3 DEF Progress
  <2>3. \A c \in 1 .. item.call - 1 : \E j \in 1 .. last - 1 : broadcast'[j] = Call(task.of, c)
    <3>1. 1 .. item.call - 1 = 1 .. Len(task.done)
      BY <1>8, <1>11
    <3> QED BY <1>16, <1>17, <2>1, <3>1
  <2>4. \A j \in 1 .. last - 1 : broadcast'[j] # broadcast'[last]
    BY <1>16, <1>18, <2>1
  <2> QED BY <1>11, <2>1, <2>2, <2>3, <2>4 DEF GoesOutWhole
<1>21. SentInv'
  <2>1. \A i \in DOMAIN broadcast' : i \in DOMAIN broadcast \/ i = last
    BY <1>16, <1>19
  <2>2. task.of \in asked'
    BY <1>1, <1>3, Zenon DEF CalmInv, AnswerInv
  <2>3. \A i \in DOMAIN broadcast' : broadcast'[i].of \in asked'
    <3>1. \A i \in DOMAIN broadcast : broadcast[i].of \in asked'
      BY <1>3, Zenon DEF CalmInv, SentInv
    <3> QED BY <1>11, <1>16, <1>19, <2>1, <2>2, <3>1
  <2>4. Len(after.done) = n /\ after \in submitting'
    BY <1>3, <1>9, <1>12
  <2>5. ASSUME NEW i \in DOMAIN broadcast, broadcast[i].of \in Batch
        PROVE  \/ answers'[broadcast[i].of] # <<>>
               \/ after.of = broadcast[i].of /\ broadcast[i].call <= Len(after.done)
    <3>1. CASE answers[broadcast[i].of] # <<>>
      BY <1>3, <3>1
    <3>2. ASSUME NEW t \in submitting, t.of = broadcast[i].of, broadcast[i].call <= Len(t.done)
          PROVE  after.of = broadcast[i].of /\ broadcast[i].call <= Len(after.done)
      <4>1. broadcast[i] \in Item
        BY <1>16 DEF TypeInv, TypeOK
      <4>2. t = task /\ broadcast[i].call \in Nat
        BY <1>1, <4>1, Items
      <4> QED BY <1>8, <1>12, <2>4, <3>2, <4>2
    <3> QED BY <2>5, <3>1, <3>2, Zenon DEF CalmInv, SentInv
  <2>6. ASSUME NEW i \in DOMAIN broadcast', broadcast'[i].of \in Batch
        PROVE  /\ GoesOutWhole(i)'
               /\ \/ answers'[broadcast'[i].of] # <<>>
                  \/ \E t \in submitting' : t.of = broadcast'[i].of /\ broadcast'[i].call <= Len(t.done)
    <3>1. CASE i \in DOMAIN broadcast
      BY <1>16, <2>4, <2>5, <2>6, <3>1
    <3>2. CASE i = last
      <4>1. broadcast'[i] = item /\ item.call <= Len(after.done)
        BY <1>8, <1>11, <1>16, <1>19, <2>4, <3>2
      <4> QED BY <1>11, <1>12, <1>20, <2>4, <3>2, <4>1
    <3> QED BY <2>1, <3>1, <3>2
  <2>7. ASSUME NEW t \in submitting', NEW i \in 1 .. Len(t.done)
        PROVE  \E j \in DOMAIN broadcast' : broadcast'[j] = t.done[i]
    <3>1. t = after /\ i \in 1 .. n
      BY <1>3, <2>4, <2>7
    <3>2. CASE i = n
      <4>1. last \in DOMAIN broadcast' /\ broadcast'[last] = item
        BY <1>16, <1>19
      <4> QED BY <1>9, <1>12, <3>1, <3>2, <4>1
    <3>3. CASE i \in 1 .. Len(task.done)
      <4>1. t.done[i] = task.done[i]
        BY <1>9, <1>12, <3>1, <3>3
      <4>2. PICK j \in DOMAIN broadcast : broadcast[j] = task.done[i]
        BY <3>3, Zenon DEF CalmInv, SentInv
      <4>3. j \in DOMAIN broadcast' /\ broadcast'[j] = broadcast[j]
        BY <1>16
      <4> QED BY <4>1, <4>2, <4>3
    <3> QED BY <1>8, <3>1, <3>2, <3>3
  <2> QED BY <2>3, <2>6, <2>7, Zenon DEF SentInv
<1> QED
  BY <1>13, <1>14, <1>15, <1>21 DEF CalmInv

\* All are accepted, or one is refused: the request is answered with what has
\* been sent.
LEMMA SubmitEndsStep ==
  ASSUME TypeInv, CalmInv, NEW task \in submitting, SubmitEnds(task)
  PROVE  CalmInv'
<1> USE DEF modelVars, linkVars, x3Vars
<1>1. /\ submitting = {task} /\ task.of = pendingRequest /\ outstanding = None
      /\ pendingRequest \notin preparing /\ pendingRequest # None
      /\ task \in Submission /\ task.of \in Batch /\ task.of \in Request
  BY WhereSubmission, Names DEF InSubmission
<1>2. Progress(task)
  BY Zenon DEF SubmitEnds, CalmInv, TaskInv
<1>3. /\ submitting' = {} /\ pendingBatch' = NoBatch /\ pendingRequest' = None
      /\ Answer(task.of, task.done)
      /\ UNCHANGED <<asked, preparing, relaying, broadcast, outstanding, composing, hops,
                     carried, notices, approved>>
  <2>1. /\ submitting' = submitting \ {task} /\ pendingBatch' = NoBatch /\ pendingRequest' = None
        /\ Answer(task.of, task.done)
        /\ UNCHANGED <<asked, preparing, relaying, broadcast, outstanding, composing, hops,
                       carried, notices, approved>>
    BY Zenon DEF SubmitEnds
  <2> QED BY <1>1, <2>1
<1>4. preparing' = {}
  BY <1>1, <1>3 DEF CalmInv, PendInv
<1>5. pendingRequest \in asked /\ answers[pendingRequest] = <<>>
  BY <1>1, Zenon DEF CalmInv, AnswerInv
<1>6. task.done \in Seq(Item) /\ \A i \in 1 .. Len(task.done) : task.done[i].of = task.of
  <2>1. task.done \in Seq(Item) /\ task.left \in Seq(Item)
    BY <1>1 DEF Submission
  <2>2. \A i \in 1 .. Len(task.done) : i \in 1 .. CallCount /\ task.done[i] = Call(task.of, i)
    <3>1. /\ Len(task.done) + Len(task.left) = CallCount
          /\ \A i \in 1 .. Len(task.done) : task.done[i] = Call(task.of, i)
      BY <1>2, Zenon DEF Progress
    <3>2. \A i \in 1 .. Len(task.done) : i \in 1 .. CallCount
      BY <2>1, <3>1, Names, Parts, Zenon
    <3> QED BY <3>1, <3>2, Zenon
  <2> QED BY <1>1, <2>1, <2>2, Items
<1>7. /\ \A s \in Request : Told(s)'
      /\ answers'[task.of] # <<>>
      /\ \A s \in Request \ {task.of} : answers'[s] = answers[s]
      /\ \A s \in Request : answers[s] # <<>> => answers'[s] # <<>>
  BY <1>1, <1>3, <1>5, <1>6, ToldStill
<1>8. CarryInv'
  BY <1>3, Zenon DEF CalmInv, CarryInv, Honest
<1>9. PendInv' /\ TaskInv'
  BY <1>1, <1>3, <1>4 DEF PendInv, TaskInv
<1>10. SignedInv'
  BY <1>3 DEF SignedInv, NoBatch
<1>11. RelayInv'
  <2>1. ASSUME NEW other \in relaying
        PROVE  /\ other.of \in Request \ {pendingRequest} /\ other.item = Only(other.of)
               /\ other.of \in asked \ Batch /\ answers[other.of] = <<>> /\ other.of # None
    BY Names, Zenon DEF CalmInv, RelayInv, TypeInv, TypeOK
  <2> QED BY <1>1, <1>3, <1>7, <2>1, Zenon DEF RelayInv
<1>12. AnswerInv'
  BY <1>1, <1>3, <1>5, <1>7, Zenon DEF CalmInv, AnswerInv
<1>13. SentInv'
  <2>1. /\ asked \subseteq asked' /\ approved \subseteq approved'
        /\ \A t \in submitting : answers'[t.of] # <<>>
    BY <1>1, <1>3, <1>7
  <2> QED BY <1>3, <1>7, <2>1, SentKept, Zenon
<1> QED
  BY <1>8, <1>9, <1>10, <1>11, <1>12, <1>13 DEF CalmInv

-----------------------------------------------------------------------------
(* All together. *)

LEMMA CalmStep == TypeInv /\ CalmInv /\ Next /\ Calm' => CalmInv'
<1> SUFFICES ASSUME TypeInv, CalmInv, Next, Calm' PROVE CalmInv'
  OBVIOUS
<1>1. /\ ~stray' /\ Step
      /\ ~(pendingRequest' # None /\ outstanding' # None /\ outstanding'.of \in Transfer)
  BY Zenon DEF Next, Calm
<1>2. CASE TaskStep
  BY <1>2, PrepareSucceedsStep, PrepareFailsStep, RelayStep, SubmitStartsStep, SubmitNextStep,
     SubmitEndsStep, Zenon DEF TaskStep
<1>3. CASE HopStep
  BY <1>3, CompleteWalletStep, FailWalletStep, Zenon DEF HopStep
<1>4. CASE \E r \in Request : Receive(r)
  BY <1>1, <1>4, ReceiveStep, Zenon
<1>5. CASE (\E t \in Transfer : StartTransfer(t)) \/ TransferPrepared \/ TransferFails
  BY <1>1, <1>5, TransferSteps, Zenon
<1>6. CASE Connect \/ Disconnect \/ Deliver \/ WriteFails \/ HandleWalletStatus
  BY <1>1, <1>6, LinkSteps, Zenon
<1>7. CASE \E kind \in {"Approved", "Refused"} : Decide(kind)
  BY <1>7, DecideStep, Zenon
<1> QED
  BY <1>1, <1>2, <1>3, <1>4, <1>5, <1>6, <1>7, Zenon DEF Step

\* Once answers are mixed up, they stay so.
LEMMA CalmBefore == TypeInv /\ Next /\ Calm' => Calm
<1> SUFFICES ASSUME TypeInv, Next, stray PROVE stray' \/ mixed'
  BY Zenon DEF Calm, Next
<1>1. UNCHANGED stray \/ HandleWalletStatus
  <2>1. TaskStep => UNCHANGED stray
    BY Zenon DEF TaskStep, PrepareSucceeds, PrepareFails, RelayReturns, SubmitStarts, SubmitNext,
                 SubmitEnds
  <2>2. HopStep => UNCHANGED stray
    BY Zenon DEF HopStep, CompleteWalletRequest, FailWalletRequest
  <2> QED
    BY <2>1, <2>2, Zenon DEF Next, Step, Receive, StartTransfer, TransferPrepared, TransferFails,
                             Connect, Disconnect, Deliver, WriteFails, Decide
<1>2. CASE HandleWalletStatus
  BY <1>2, Zenon DEF HandleWalletStatus
<1> QED
  BY <1>1, <1>2, Zenon

LEMMA Starts == Init => IInv
<1> SUFFICES ASSUME Init PROVE CalmInv
  BY TypeStarts DEF IInv
<1>1. CarryInv
  BY EmptySeq DEF Init, CarryInv
<1>2. PendInv
  BY DEF Init, PendInv
<1>3. SignedInv /\ TaskInv /\ RelayInv
  BY DEF Init, SignedInv, TaskInv, RelayInv, NoBatch
<1>4. AnswerInv
  BY DEF Init, AnswerInv, Told
<1>5. SentInv
  BY DEF Init, SentInv
<1> QED
  BY <1>1, <1>2, <1>3, <1>4, <1>5 DEF CalmInv

LEMMA StepKeeps == IInv /\ [Next]_vars => IInv'
<1> SUFFICES ASSUME IInv, [Next]_vars PROVE IInv'
  OBVIOUS
<1>1. TypeInv'
  BY TypeStep DEF IInv
<1>2. CASE Next
  BY <1>1, <1>2, CalmStep, CalmBefore, Zenon DEF IInv
<1>3. CASE UNCHANGED vars
  <2>1. UNCHANGED <<dappVars, outstanding, composing, approved, carried, hops, notices, mixed, stray>>
    BY <1>3 DEF vars, dappVars
  <2>2. ASSUME Calm PROVE CalmInv'
    <3>1. CalmInv /\ approved \subseteq approved' /\ composing' \in {composing, None}
      BY <2>1, <2>2 DEF IInv
    <3>2. PendInv' /\ SignedInv' /\ TaskInv' /\ RelayInv' /\ AnswerInv' /\ SentInv'
      BY <2>1, <3>1, DappsKept DEF IInv
    <3>3. CarryInv'
      BY <2>1, <3>1, Zenon DEF CalmInv, CarryInv, Honest
    <3> QED BY <3>2, <3>3 DEF CalmInv
  <2>3. Calm' = Calm
    BY <2>1 DEF Calm
  <2> QED BY <1>1, <2>2, <2>3 DEF IInv
<1> QED
  BY <1>2, <1>3

LEMMA IInvAlways == Spec => []IInv
BY Starts, StepKeeps, PTL DEF Spec

\* However Tasks, callbacks and lost connections interleave, completeSigning,
\* failSigning and the catch of receive answer a request at most once between
\* them, in every run that is Calm so far: no transfer has stood beside a dapp's
\* request, and no status has come that was not about the request carried (late,
\* after a failed write, or a second time).  The next three are of these runs.
THEOREM CompanionAnswersOnce == Spec => []AnsweredOnce
<1>1. IInv => AnsweredOnce
  <2> SUFFICES ASSUME IInv, Calm, NEW r \in Request PROVE Len(answers[r]) <= 1
    BY DEF AnsweredOnce
  <2>1. Told(r)
    BY Zenon DEF IInv, CalmInv, AnswerInv
  <2>2. answers[r] = <<>> => Len(answers[r]) = 0
    OBVIOUS
  <2>3. answers[r] # <<>> => Len(answers[r]) = 1
    BY <2>1, Zenon DEF Told
  <2>4. 0 <= 1 /\ 1 <= 1
    OBVIOUS
  <2> QED BY <2>2, <2>3, <2>4, Zenon
<1> QED
  BY <1>1, IInvAlways, PTL

\* While the run is Calm, what a dapp gets for a result is signed for it: a
\* signature of another request never reaches it.
THEOREM CompanionAnswersOwn == Spec => []CalmAnswerIsOwn
<1>1. IInv => CalmAnswerIsOwn
  <2> SUFFICES ASSUME IInv, Calm, NEW r \in Request, NEW i \in DOMAIN answers[r],
                      NEW item \in ItemsOf(answers[r][i])
               PROVE  item.of = r
    BY Zenon DEF CalmAnswerIsOwn, AnswerIsOwn
  <2>1. answers[r] \in Seq(Seq(Item))
    BY Zenon DEF IInv, TypeInv, TypeOK
  <2>2. DOMAIN answers[r] = 1 .. Len(answers[r]) /\ answers[r] # <<>> /\ answers[r][i] \in Seq(Item)
    BY <2>1
  <2>3. Told(r)
    BY Zenon DEF IInv, CalmInv, AnswerInv
  <2>4. i = 1
    BY <2>2, <2>3 DEF Told
  <2>5. DOMAIN answers[r][1] = 1 .. Len(answers[r][1])
    BY <2>2, <2>4, LenProperties
  <2> QED BY <2>2, <2>3, <2>4, <2>5 DEF Told, ItemsOf
<1> QED
  BY <1>1, IInvAlways, PTL

\* While the run is Calm, a transaction of a batch goes out only after every
\* call of the batch has been approved on the X3, behind the calls before it,
\* and once, also when the submission breaks off.
THEOREM CompanionSendsWhole == Spec => []BatchIsWhole
<1>1. IInv => BatchIsWhole
  BY Zenon DEF IInv, CalmInv, SentInv, BatchIsWhole
<1> QED
  BY <1>1, IInvAlways, PTL

\* While the run is Calm, the item CompanionModel has out for signing is carried,
\* also across a lost connection, or its answer waits for CompanionModel.
THEOREM CompanionForgetsNothing == Spec => []NotForgotten
<1>1. IInv => NotForgotten
  <2> SUFFICES ASSUME IInv, Calm, outstanding # None, carried # outstanding
               PROVE  \E i \in DOMAIN hops : hops[i].item = outstanding
    BY Zenon DEF NotForgotten
  <2>1. PICK reply \in Notice : hops = <<reply>> /\ reply.item = outstanding
    BY Zenon DEF IInv, CalmInv, CarryInv
  <2>2. 1 \in DOMAIN hops /\ hops[1] = reply
    BY <2>1
  <2> QED BY <2>1, <2>2
<1> QED
  BY <1>1, IInvAlways, PTL

===============================================================================
