------------------------ MODULE ActivityManager_proofs ------------------------
(***************************************************************************)
(* The activities are owned, called back and waited for as they should be, *)
(* for any number of activities and any depth of the stack.                *)
(***************************************************************************)
EXTENDS ActivityManager, SequenceTheorems, FiniteSetTheorems, TLAPS

\* The ranges of the main loop's variables.
ScreenTypeOK ==
  /\ current \in Activity \cup {None}
  /\ stack \in Seq(Activity)
  /\ pendingActivity \in Activity \cup {None}
  /\ expects \in [Activity -> Activity \cup {None}]

\* The positions of the stack, and the activity above each.
Places == 1 .. Len(stack)
Above(i) == IF i = Len(stack) THEN current ELSE stack[i + 1]

\* Every activity is in one place, and one to come is in none.
PlaceInv ==
  /\ \A i, j \in Places : stack[i] = stack[j] => i = j
  /\ \A i \in Places : stack[i] # current /\ stack[i] # pendingActivity
  /\ current = None <=> main = "home"
  /\ pendingActivity # None => pendingActivity # current
  /\ pendingAction \in {"Push", "Replace"} => pendingActivity # None
  /\ entered \subseteq Activity
  /\ \A a \in Activity : a \in entered <=> a = current \/ \E i \in Places : stack[i] = a
  /\ drawing # None => drawing = current
  /\ render # "drawing" => drawing = None

\* A handler is for the child above, or the one that is to be pushed.
HandlerInv ==
  /\ \A i \in Places : expects[stack[i]] \in {None, Above(i)}
  /\ \A a \in Activity : a \notin entered => expects[a] = None
  /\ current # None /\ (main = "poll" \/ pendingAction = "None") => expects[current] = None
  /\ pendingAction = "Push" => expects[current] \in {None, pendingActivity}

ScreenInv == ScreenTypeOK /\ PlaceInv /\ HandlerInv

\* One wake is on its way for one wait.
WaitInv ==
  /\ waiting \in BOOLEAN /\ woken \in BOOLEAN
  /\ call = "no" => ~waiting /\ ~woken
  /\ call # "no" => (woken <=> ~waiting)
  /\ call = "blocked" => woken \/ notified \/ render # "idle"

-----------------------------------------------------------------------------
(* Waiting. *)

LEMMA WaitStarts == Init => WaitInv
BY DEF Init, WaitInv

LEMMA WaitKept == WaitInv /\ [Next]_vars => WaitInv'
<1> SUFFICES ASSUME WaitInv, [Next]_vars PROVE WaitInv'
  OBVIOUS
<1> USE DEF WaitInv
<1>1. ASSUME NEW immediate \in BOOLEAN, RequestUpdate(immediate) PROVE WaitInv'
  BY <1>1 DEF RequestUpdate, waitVars, renderVars
<1>2. CASE AnnounceWait
  BY <1>2 DEF AnnounceWait, InCode
<1>3. CASE NotifyAndBlock \/ WaitReturns
  <2>1. CASE NotifyAndBlock
    BY <2>1 DEF NotifyAndBlock
  <2>2. CASE WaitReturns
    BY <2>2 DEF WaitReturns
  <2> QED BY <1>3, <2>1, <2>2
<1>4. CASE StartForResult \/ PushActivity \/ PopActivity \/ ReplaceActivity \/ Gesture \/ StartPass
  BY <1>4 DEF StartForResult, PushActivity, PopActivity, ReplaceActivity, Gesture, StartPass,
              waitVars, renderVars
<1>5. CASE CodeReturns \/ HandlerReturns \/ Pop \/ PopLast \/ GoHome \/ Replace \/ Push \/ EndPass
  BY <1>5 DEF CodeReturns, HandlerReturns, Pop, PopLast, GoHome, Replace, Push, EndPass,
              waitVars, renderVars
<1>6. CASE RenderWakes \/ RenderLocks \/ RenderReturns
  BY <1>6 DEF RenderWakes, RenderLocks, RenderReturns, waitVars
<1>7. CASE WakeWaiter
  BY <1>7 DEF WakeWaiter
<1>8. CASE UNCHANGED vars
  BY <1>8 DEF vars, waitVars, renderVars
<1> QED
  BY <1>1, <1>2, <1>3, <1>4, <1>5, <1>6, <1>7, <1>8
  DEF Next, WaitStep, CodeEnds, DrainStep, RenderStep

\* Whatever updates, passes and renders come between, requestUpdateAndWait is
\* never woken by what is left of an earlier one, and its wake is on its way.
THEOREM WaitAlwaysSound == Spec => []WaitIsSound
<1>1. WaitInv => WaitIsSound
  BY DEF WaitInv, WaitIsSound
<1> QED
  BY <1>1, WaitStarts, WaitKept, PTL DEF Spec

-----------------------------------------------------------------------------
(* The stack. *)

\* An activity that is not alive is nowhere.
LEMMA FreshFacts ==
  ASSUME ScreenInv, NEW a \in Fresh
  PROVE  /\ a \in Activity /\ a # None /\ a # current /\ a # pendingActivity
         /\ \A i \in Places : stack[i] # a
         /\ a \notin entered /\ expects[a] = None
<1>1. a \in Activity /\ a # None /\ a # current /\ a # pendingActivity /\ a \notin Range(stack)
  BY ActivityAssumption DEF Fresh, Alive
<1>2. \A i \in Places : stack[i] # a
  BY <1>1 DEF Range, ScreenInv, ScreenTypeOK, Places
<1> QED
  BY <1>1, <1>2 DEF ScreenInv, PlaceInv, HandlerInv

LEMMA StackFacts ==
  ASSUME ScreenTypeOK
  PROVE  /\ Len(stack) \in Nat /\ None \notin Activity
         /\ \A i \in Places : stack[i] \in Activity
         /\ stack = <<>> <=> Len(stack) = 0
BY ActivityAssumption, SMT DEF ScreenTypeOK, Places

LEMMA FrontOf ==
  ASSUME NEW s \in Seq(Activity), NEW n \in Nat, Len(s) = n + 1
  PROVE  /\ SubSeq(s, 1, n) \in Seq(Activity) /\ Len(SubSeq(s, 1, n)) = n
         /\ \A i \in 1 .. n : SubSeq(s, 1, n)[i] = s[i]
BY SMT

LEMMA PopFacts ==
  ASSUME ScreenTypeOK, stack # <<>>, stack' = SubSeq(stack, 1, Len(stack) - 1)
  PROVE  /\ stack' \in Seq(Activity) /\ Len(stack') = Len(stack) - 1
         /\ Len(stack) \in Places /\ Len(stack) \notin Places'
         /\ \A i \in Places : i # Len(stack) => i \in Places'
         /\ \A i \in Places' : i \in Places /\ i # Len(stack) /\ stack'[i] = stack[i]
         /\ \A i \in Places' : i # Len(stack') => i + 1 \in Places'
<1>1. stack \in Seq(Activity) /\ Len(stack) \in Nat /\ Len(stack) # 0
  BY StackFacts DEF ScreenTypeOK
<1>2. Len(stack) - 1 \in Nat /\ Len(stack) = (Len(stack) - 1) + 1
  BY <1>1, SMT
<1>3. /\ stack' \in Seq(Activity) /\ Len(stack') = Len(stack) - 1
      /\ \A i \in 1 .. Len(stack) - 1 : stack'[i] = stack[i]
  BY <1>1, <1>2, FrontOf, Zenon
<1> QED
  BY <1>1, <1>3, SMT DEF Places

LEMMA PushFacts ==
  ASSUME ScreenTypeOK, current # None, stack' = Append(stack, current)
  PROVE  /\ stack' \in Seq(Activity) /\ Len(stack') = Len(stack) + 1
         /\ Len(stack') \in Places' /\ stack'[Len(stack')] = current
         /\ \A i \in Places : i \in Places' /\ i # Len(stack') /\ stack'[i] = stack[i]
         /\ \A i \in Places' : i = Len(stack') \/ i \in Places
         /\ \A i \in Places : i # Len(stack) => i + 1 \in Places
         /\ \A i \in Places : i + 1 = Len(stack') <=> i = Len(stack)
<1>1. stack \in Seq(Activity) /\ Len(stack) \in Nat /\ current \in Activity
  BY StackFacts DEF ScreenTypeOK
<1>2. /\ stack' \in Seq(Activity) /\ Len(stack') = Len(stack) + 1
      /\ \A i \in 1 .. Len(stack) : stack'[i] = stack[i]
      /\ stack'[Len(stack) + 1] = current
  BY <1>1, AppendProperties, SMT
<1> QED
  BY <1>1, <1>2, SMT DEF Places

LEMMA ScreenStarts == Init => ScreenInv
<1> SUFFICES ASSUME Init PROVE ScreenInv
  OBVIOUS
<1>1. Places = {} /\ stack \in Seq(Activity) /\ current \in Activity /\ current # None
  BY ActivityAssumption, SMT DEF Init, Places
<1>2. ScreenTypeOK
  BY <1>1 DEF Init, ScreenTypeOK
<1>3. PlaceInv
  BY <1>1 DEF Init, PlaceInv
<1>4. HandlerInv
  BY <1>1 DEF Init, HandlerInv
<1> QED
  BY <1>2, <1>3, <1>4 DEF ScreenInv

\* The code of activities, and passes of the main loop, between the moves.
LEMMA CodeKeeps ==
  ASSUME ScreenInv,
         \/ StartForResult \/ PushActivity \/ PopActivity \/ ReplaceActivity \/ Gesture
         \/ StartPass \/ CodeReturns \/ HandlerReturns \/ EndPass
  PROVE  ScreenInv'
<1>0. ScreenTypeOK /\ PlaceInv /\ HandlerInv
  BY DEF ScreenInv
<1>1. UNCHANGED <<current, stack, entered, render, drawing>>
  BY DEF StartForResult, PushActivity, PopActivity, ReplaceActivity, Gesture,
         StartPass, CodeReturns, HandlerReturns, EndPass, renderVars
<1>2. Places' = Places /\ \A i : Above(i)' = Above(i)
  BY <1>1 DEF Places, Above
<1>3. CASE StartForResult
  <2>1. PICK child \in Fresh : /\ expects' = [expects EXCEPT ![current] = child]
                               /\ Calls("Push", child)
    BY <1>3 DEF StartForResult
  <2>2. main' = main /\ main \in {"loop", "enter", "handler"}
    BY <1>3 DEF StartForResult, InCode
  <2>3. current \in Activity /\ current # None
    BY <1>0, <2>2 DEF ScreenTypeOK, PlaceInv
  <2>4. child \in Activity /\ child # None /\ child # current /\ \A i \in Places : stack[i] # child
    BY <2>1, FreshFacts
  <2>5. /\ expects' \in [Activity -> Activity \cup {None}] /\ expects'[current] = child
        /\ \A a \in Activity : a # current => expects'[a] = expects[a]
    BY <1>0, <2>1, <2>3, <2>4 DEF ScreenTypeOK
  <2>6. ScreenTypeOK'
    BY <1>0, <1>1, <2>1, <2>4, <2>5 DEF ScreenTypeOK, Calls
  <2>7. PlaceInv'
    BY <1>0, <1>1, <1>2, <2>1, <2>2, <2>4 DEF PlaceInv, Calls
  <2>8. HandlerInv'
    BY <1>0, <1>1, <1>2, <2>1, <2>2, <2>3, <2>5, StackFacts DEF HandlerInv, PlaceInv, Calls
  <2> QED BY <2>6, <2>7, <2>8 DEF ScreenInv
<1>4. CASE PushActivity \/ ReplaceActivity \/ Gesture
  <2>1. PICK next \in Fresh : pendingActivity' = next /\ pendingAction' \in {"Push", "Replace"}
    BY <1>4 DEF PushActivity, ReplaceActivity, Gesture, Calls
  <2>2. main' = main /\ main # "home" /\ expects' = expects
    BY <1>4 DEF PushActivity, ReplaceActivity, Gesture, InCode
  <2>3. next \in Activity /\ next # None /\ next # current /\ \A i \in Places : stack[i] # next
    BY <2>1, FreshFacts
  <2>4. pendingAction' = "Push" => expects[current] = None
    BY <1>0, <1>4 DEF PushActivity, ReplaceActivity, Gesture, Calls, HandlerInv, PlaceInv
  <2>5. ScreenTypeOK'
    BY <1>0, <1>1, <2>1, <2>2, <2>3 DEF ScreenTypeOK
  <2>6. PlaceInv'
    BY <1>0, <1>1, <1>2, <2>1, <2>2, <2>3 DEF PlaceInv
  <2>7. HandlerInv'
    BY <1>0, <1>1, <1>2, <2>1, <2>2, <2>4 DEF HandlerInv
  <2> QED BY <2>5, <2>6, <2>7 DEF ScreenInv
<1>5. CASE PopActivity
  <2>1. /\ main' = main /\ main \in {"loop", "enter", "handler"} /\ expects' = expects
        /\ pendingAction' = "Pop" /\ pendingActivity' = None
    BY <1>5 DEF PopActivity, Calls, InCode
  <2>2. ScreenTypeOK'
    BY <1>0, <1>1, <2>1 DEF ScreenTypeOK
  <2>3. PlaceInv'
    BY <1>0, <1>1, <1>2, <2>1, StackFacts DEF PlaceInv
  <2>4. HandlerInv'
    BY <1>0, <1>1, <1>2, <2>1 DEF HandlerInv
  <2> QED BY <2>2, <2>3, <2>4 DEF ScreenInv
<1>6. CASE StartPass \/ CodeReturns \/ HandlerReturns \/ EndPass
  <2>1. /\ UNCHANGED <<pendingActivity, pendingAction, expects>>
        /\ main # "home" /\ main' # "home"
        /\ main' = "poll" => pendingAction = "None"
    BY <1>6 DEF StartPass, CodeReturns, HandlerReturns, EndPass
  <2>2. ScreenTypeOK'
    BY <1>0, <1>1, <2>1 DEF ScreenTypeOK
  <2>3. PlaceInv'
    BY <1>0, <1>1, <1>2, <2>1 DEF PlaceInv
  <2>4. HandlerInv'
    BY <1>0, <1>1, <1>2, <2>1 DEF HandlerInv
  <2> QED BY <2>2, <2>3, <2>4 DEF ScreenInv
<1> QED
  BY <1>3, <1>4, <1>5, <1>6

LEMMA PopKeeps == ScreenInv /\ Pop => ScreenInv'
<1> SUFFICES ASSUME ScreenInv, Pop PROVE ScreenInv'
  OBVIOUS
<1>0. ScreenTypeOK /\ PlaceInv /\ HandlerInv
  BY DEF ScreenInv
<1>1. /\ main = "drain" /\ main' \in {"drain", "handler"} /\ pendingAction' = "None"
      /\ stack # <<>> /\ stack' = SubSeq(stack, 1, Len(stack) - 1)
      /\ current' = stack[Len(stack)] /\ entered' = entered \ {current}
      /\ UNCHANGED <<pendingActivity, render, drawing>> /\ render # "drawing"
  BY DEF Pop, Calls, MutexFree, renderVars
<1>2. /\ current \in Activity /\ current # None
      /\ current' \in Activity /\ current' # None /\ current' # current
      /\ current' # pendingActivity
  BY <1>0, <1>1, PopFacts, StackFacts DEF PlaceInv, ScreenTypeOK
<1>3. /\ expects' \in [Activity -> Activity \cup {None}]
      /\ expects'[current] = None /\ expects'[current'] = None
      /\ \A a \in Activity : a # current /\ a # current' => expects'[a] = expects[a]
  <2>1. expects' = [expects EXCEPT ![current] = None, ![current'] = None]
    BY DEF Pop
  <2> QED BY <1>0, <1>2, <2>1 DEF ScreenTypeOK
<1>4. ScreenTypeOK'
  BY <1>0, <1>1, <1>2, <1>3, PopFacts DEF ScreenTypeOK
<1>5. \A a \in Activity : a \in entered' <=> a = current' \/ \E i \in Places' : stack'[i] = a
  <2> SUFFICES ASSUME NEW a \in Activity
               PROVE  a \in entered' <=> a = current' \/ \E i \in Places' : stack'[i] = a
    OBVIOUS
  <2>1. ASSUME a \in entered' PROVE a = current' \/ \E i \in Places' : stack'[i] = a
    <3>1. PICK i \in Places : stack[i] = a
      BY <1>0, <1>1, <2>1 DEF PlaceInv
    <3> QED BY <1>0, <1>1, <3>1, PopFacts
  <2>2. ASSUME a = current' \/ \E i \in Places' : stack'[i] = a PROVE a \in entered'
    <3>1. PICK i \in Places : stack[i] = a
      BY <1>0, <1>1, <2>2, PopFacts
    <3> QED BY <1>0, <1>1, <3>1 DEF PlaceInv
  <2> QED BY <2>1, <2>2
<1>6. \A i \in Places' : stack'[i] # current' /\ stack'[i] # current /\ stack'[i] \in Activity
  <2> SUFFICES ASSUME NEW i \in Places'
               PROVE  stack'[i] # current' /\ stack'[i] # current /\ stack'[i] \in Activity
    OBVIOUS
  <2>1. i \in Places /\ i # Len(stack) /\ stack'[i] = stack[i] /\ Len(stack) \in Places
    BY <1>0, <1>1, PopFacts, Zenon
  <2>2. stack[i] # stack[Len(stack)] /\ stack[i] # current /\ stack[i] \in Activity
    BY <1>0, <2>1, StackFacts, Zenon DEF PlaceInv
  <2> QED BY <1>1, <2>1, <2>2
<1>7. PlaceInv'
  <2>1. ASSUME NEW i \in Places', NEW j \in Places', stack'[i] = stack'[j] PROVE i = j
    <3>1. i \in Places /\ j \in Places /\ stack[i] = stack[j]
      BY <1>0, <1>1, <2>1, PopFacts, Zenon
    <3> QED BY <1>0, <3>1, Zenon DEF PlaceInv
  <2>2. \A i \in Places' : stack'[i] # pendingActivity'
    BY <1>0, <1>1, PopFacts DEF PlaceInv
  <2>3. entered' \subseteq Activity /\ drawing' = None
    BY <1>0, <1>1 DEF PlaceInv
  <2> QED BY <1>1, <1>2, <1>5, <1>6, <2>1, <2>2, <2>3 DEF PlaceInv
<1>8. HandlerInv'
  <2>1. ASSUME NEW i \in Places' PROVE expects'[stack'[i]] \in {None, Above(i)'}
    <3>1. /\ i \in Places /\ i # Len(stack) /\ stack'[i] = stack[i]
          /\ expects[stack[i]] \in {None, stack[i + 1]}
      BY <1>0, <1>1, PopFacts DEF HandlerInv, Above
    <3>2. stack[i + 1] = Above(i)'
      <4>1. CASE i = Len(stack')
        <5>1. i + 1 = Len(stack)
          BY <1>0, <1>1, <4>1, PopFacts, StackFacts, SMT
        <5> QED BY <1>1, <4>1, <5>1, Zenon DEF Above
      <4>2. CASE i # Len(stack')
        <5>1. i + 1 \in Places' /\ stack'[i + 1] = stack[i + 1]
          BY <1>0, <1>1, <4>2, PopFacts, Zenon
        <5> QED BY <4>2, <5>1, Zenon DEF Above
      <4> QED BY <4>1, <4>2
    <3> QED BY <1>3, <1>6, <3>1, <3>2
  <2>2. \A a \in Activity : a \notin entered' => expects'[a] = None
    BY <1>0, <1>1, <1>3, <1>5 DEF HandlerInv
  <2> QED BY <1>1, <1>3, <2>1, <2>2 DEF HandlerInv
<1> QED
  BY <1>4, <1>7, <1>8 DEF ScreenInv

LEMMA PushKeeps == ScreenInv /\ Push => ScreenInv'
<1> SUFFICES ASSUME ScreenInv, Push PROVE ScreenInv'
  OBVIOUS
<1>0. ScreenTypeOK /\ PlaceInv /\ HandlerInv
  BY DEF ScreenInv
<1>1. /\ main = "drain" /\ main' = "enter"
      /\ pendingAction = "Push" /\ pendingAction' = "None" /\ pendingActivity' = None
      /\ stack' = Append(stack, current) /\ current' = pendingActivity
      /\ entered' = entered \cup {pendingActivity}
      /\ UNCHANGED <<expects, render, drawing>> /\ render # "drawing"
  BY DEF Push, Calls, MutexFree, renderVars
<1>2. /\ current \in Activity /\ current # None
      /\ current' \in Activity /\ current' # None /\ current' # current
  BY <1>0, <1>1 DEF PlaceInv, ScreenTypeOK
<1>3. ScreenTypeOK'
  BY <1>0, <1>1, <1>2, PushFacts DEF ScreenTypeOK
<1>4. \A a \in Activity : a \in entered' <=> a = current' \/ \E i \in Places' : stack'[i] = a
  <2> SUFFICES ASSUME NEW a \in Activity
               PROVE  a \in entered' <=> a = current' \/ \E i \in Places' : stack'[i] = a
    OBVIOUS
  <2>1. a \in entered <=> a = current \/ \E i \in Places : stack[i] = a
    BY <1>0 DEF PlaceInv
  <2>2. (\E i \in Places' : stack'[i] = a) <=> a = current \/ \E i \in Places : stack[i] = a
    BY <1>0, <1>1, <1>2, PushFacts
  <2> QED BY <1>1, <2>1, <2>2
<1>5. PlaceInv'
  <2>1. ASSUME NEW i \in Places', NEW j \in Places', stack'[i] = stack'[j] PROVE i = j
    <3>1. CASE i \in Places /\ j \in Places
      <4>1. stack[i] = stack[j]
        BY <1>0, <1>1, <1>2, <2>1, <3>1, PushFacts, Zenon
      <4> QED BY <1>0, <3>1, <4>1, Zenon DEF PlaceInv
    <3>2. CASE i \notin Places /\ j \notin Places
      BY <1>0, <1>1, <1>2, <3>2, PushFacts, Zenon
    <3>3. CASE i \in Places /\ j \notin Places
      <4>1. stack[i] = current
        BY <1>0, <1>1, <1>2, <2>1, <3>3, PushFacts, Zenon
      <4> QED BY <1>0, <3>3, <4>1, Zenon DEF PlaceInv
    <3>4. CASE i \notin Places /\ j \in Places
      <4>1. stack[j] = current
        BY <1>0, <1>1, <1>2, <2>1, <3>4, PushFacts, Zenon
      <4> QED BY <1>0, <3>4, <4>1, Zenon DEF PlaceInv
    <3> QED BY <3>1, <3>2, <3>3, <3>4
  <2>2. \A i \in Places' : stack'[i] # current' /\ stack'[i] # pendingActivity'
    BY <1>0, <1>1, <1>2, PushFacts, StackFacts DEF PlaceInv
  <2>3. entered' \subseteq Activity /\ drawing' = None
    BY <1>0, <1>1, <1>2 DEF PlaceInv
  <2> QED BY <1>1, <1>2, <1>4, <2>1, <2>2, <2>3 DEF PlaceInv
<1>6. HandlerInv'
  <2>1. ASSUME NEW i \in Places' PROVE expects'[stack'[i]] \in {None, Above(i)'}
    <3>1. CASE i = Len(stack')
      BY <1>0, <1>1, <1>2, <3>1, PushFacts DEF HandlerInv, Above
    <3>2. CASE i # Len(stack')
      <4>1. i \in Places /\ stack'[i] = stack[i] /\ expects[stack[i]] \in {None, Above(i)}
        BY <1>0, <1>1, <1>2, <2>1, <3>2, PushFacts DEF HandlerInv
      <4>2. Above(i) = Above(i)'
        BY <1>0, <1>1, <1>2, <3>2, <4>1, PushFacts DEF Above
      <4> QED BY <1>1, <4>1, <4>2
    <3> QED BY <3>1, <3>2
  <2>2. \A a \in Activity : a \notin entered' => expects'[a] = None
    BY <1>0, <1>1 DEF HandlerInv
  <2>3. expects'[current'] = None
    <3>1. current' \notin entered
      BY <1>0, <1>1, <1>2 DEF PlaceInv
    <3> QED BY <1>0, <1>1, <1>2, <3>1 DEF HandlerInv
  <2> QED BY <1>1, <1>2, <2>1, <2>2, <2>3 DEF HandlerInv
<1> QED
  BY <1>3, <1>5, <1>6 DEF ScreenInv

LEMMA PopLastKeeps == ScreenInv /\ PopLast => ScreenInv'
<1> SUFFICES ASSUME ScreenInv, PopLast PROVE ScreenInv'
  OBVIOUS
<1>0. ScreenTypeOK /\ PlaceInv /\ HandlerInv
  BY DEF ScreenInv
<1>1. /\ main = "drain" /\ main' = "home" /\ pendingAction' = "None"
      /\ stack = <<>> /\ stack' = stack /\ current' = None
      /\ entered' = entered \ {current}
      /\ UNCHANGED <<pendingActivity, render, drawing>> /\ render # "drawing"
      /\ expects' = [expects EXCEPT ![current] = None]
  BY DEF PopLast, Calls, MutexFree, renderVars
<1>2. Places = {} /\ Places' = {} /\ None \notin Activity
  BY <1>0, <1>1, StackFacts, SMT DEF Places
<1>3. /\ expects' \in [Activity -> Activity \cup {None}] /\ expects'[current] = None
      /\ \A a \in Activity : a # current => expects'[a] = expects[a]
  BY <1>0, <1>1 DEF ScreenTypeOK, PlaceInv
<1>4. ScreenTypeOK'
  BY <1>0, <1>1, <1>3 DEF ScreenTypeOK
<1>5. PlaceInv'
  BY <1>0, <1>1, <1>2 DEF PlaceInv
<1>6. HandlerInv'
  BY <1>0, <1>1, <1>2, <1>3 DEF HandlerInv
<1> QED
  BY <1>4, <1>5, <1>6 DEF ScreenInv

LEMMA GoHomeKeeps == ScreenInv /\ GoHome => ScreenInv'
<1> SUFFICES ASSUME ScreenInv, GoHome PROVE ScreenInv'
  OBVIOUS
<1>0. ScreenTypeOK /\ PlaceInv /\ HandlerInv
  BY DEF ScreenInv
<1>1. /\ main = "home" /\ main' = "enter" /\ current' \in Fresh
      /\ entered' = entered \cup {current'} /\ current = None
      /\ UNCHANGED <<stack, pendingActivity, pendingAction, expects, render, drawing>>
  BY <1>0 DEF GoHome, PlaceInv, renderVars
<1>2. /\ current' \in Activity /\ current' # None /\ current' # pendingActivity
      /\ \A i \in Places : stack[i] # current'
      /\ expects[current'] = None
  BY <1>1, FreshFacts
<1>3. Places' = Places /\ None \notin Activity
  BY <1>0, <1>1, StackFacts DEF Places
<1>4. ScreenTypeOK'
  BY <1>0, <1>1, <1>2 DEF ScreenTypeOK
<1>5. PlaceInv'
  BY <1>0, <1>1, <1>2, <1>3 DEF PlaceInv
<1>6. HandlerInv'
  <2>1. ASSUME NEW i \in Places PROVE expects[stack[i]] \in {None, Above(i)'}
    <3>1. stack[i] \in Activity /\ expects[stack[i]] \in Activity \cup {None}
      BY <1>0, StackFacts DEF ScreenTypeOK
    <3>2. expects[stack[i]] \in {None, IF i = Len(stack) THEN None ELSE stack[i + 1]}
      BY <1>0, <1>1, Zenon DEF HandlerInv, Above
    <3> QED BY <1>1, <3>1, <3>2 DEF Above
  <2>2. \A a \in Activity : a \notin entered' => expects'[a] = None
    BY <1>0, <1>1 DEF HandlerInv
  <2> QED BY <1>1, <1>2, <1>3, <2>1, <2>2 DEF HandlerInv
<1> QED
  BY <1>4, <1>5, <1>6 DEF ScreenInv

LEMMA ReplaceKeeps == ScreenInv /\ Replace => ScreenInv'
<1> SUFFICES ASSUME ScreenInv, Replace PROVE ScreenInv'
  OBVIOUS
<1>0. ScreenTypeOK /\ PlaceInv /\ HandlerInv
  BY DEF ScreenInv
<1>1. /\ main' = "enter" /\ pendingAction = "Replace" /\ pendingAction' = "None"
      /\ pendingActivity' = None /\ stack' = <<>> /\ current' = pendingActivity
      /\ entered' = {pendingActivity} /\ expects' = [a \in Activity |-> None]
      /\ UNCHANGED <<render, drawing>> /\ render # "drawing"
  BY DEF Replace, Calls, MutexFree, renderVars
<1>2. current' \in Activity /\ current' # None /\ drawing' = None
  BY <1>0, <1>1 DEF ScreenTypeOK, PlaceInv
<1>3. stack' \in Seq(Activity) /\ Places' = {}
  BY <1>1, SMT DEF Places
<1>4. ScreenTypeOK'
  BY <1>1, <1>2, <1>3 DEF ScreenTypeOK
<1>5. PlaceInv'
  BY <1>1, <1>2, <1>3 DEF PlaceInv
<1>6. HandlerInv'
  BY <1>1, <1>2, <1>3 DEF HandlerInv
<1> QED
  BY <1>4, <1>5, <1>6 DEF ScreenInv

\* The render task, the waits and the requests leave the stack alone.
LEMMA RestKeeps ==
  ASSUME ScreenInv,
         \/ \E immediate \in BOOLEAN : RequestUpdate(immediate)
         \/ AnnounceWait \/ WaitStep \/ RenderStep \/ UNCHANGED vars
  PROVE  ScreenInv'
<1>0. ScreenTypeOK /\ PlaceInv /\ HandlerInv
  BY DEF ScreenInv
<1>1. UNCHANGED screenVars
  BY DEF RequestUpdate, AnnounceWait, WaitStep, NotifyAndBlock, WaitReturns, RenderStep,
         RenderWakes, RenderLocks, RenderReturns, WakeWaiter, vars
<1>2. (drawing' # None => drawing' = current) /\ (render' # "drawing" => drawing' = None)
  <2>1. CASE UNCHANGED <<render, drawing>>
    BY <1>0, <2>1 DEF PlaceInv
  <2>2. CASE RenderStep
    BY <1>0, <2>2 DEF PlaceInv, RenderStep, RenderWakes, RenderLocks, RenderReturns, WakeWaiter
  <2> QED BY <2>1, <2>2 DEF RequestUpdate, AnnounceWait, WaitStep, NotifyAndBlock, WaitReturns,
                            renderVars, vars
<1>3. Places' = Places /\ \A i : Above(i)' = Above(i)
  BY <1>1 DEF screenVars, Places, Above
<1>4. ScreenTypeOK'
  BY <1>0, <1>1 DEF screenVars, ScreenTypeOK
<1>5. PlaceInv'
  BY <1>0, <1>1, <1>2, <1>3 DEF screenVars, PlaceInv
<1>6. HandlerInv'
  BY <1>0, <1>1, <1>3 DEF screenVars, HandlerInv
<1> QED
  BY <1>4, <1>5, <1>6 DEF ScreenInv

LEMMA ScreenKept == ScreenInv /\ [Next]_vars => ScreenInv'
BY CodeKeeps, PopKeeps, PushKeeps, PopLastKeeps, GoHomeKeeps, ReplaceKeeps, RestKeeps
DEF Next, CodeEnds, DrainStep

LEMMA ScreenAlways == Spec => []ScreenInv
BY ScreenStarts, ScreenKept, PTL DEF Spec

\* As many activities as places are on the stack.
LEMMA StackSize == ScreenInv => Cardinality(Range(stack)) = Len(stack)
<1> SUFFICES ASSUME ScreenInv PROVE Cardinality(Range(stack)) = Len(stack)
  OBVIOUS
<1>1. /\ Len(stack) \in Nat /\ DOMAIN stack = 1 .. Len(stack)
      /\ stack \in [1 .. Len(stack) -> Activity]
      /\ \A i, j \in 1 .. Len(stack) : stack[i] = stack[j] => i = j
  BY SMT DEF ScreenInv, ScreenTypeOK, PlaceInv, Places
<1>2. IsFiniteSet(1 .. Len(stack)) /\ Cardinality(1 .. Len(stack)) = Len(stack)
  <2>1. IsFiniteSet(1 .. Len(stack))
        /\ Cardinality(1 .. Len(stack)) = IF 1 > Len(stack) THEN 0 ELSE Len(stack) - 1 + 1
    BY <1>1, FS_Interval
  <2> QED BY <1>1, <2>1, SMT
<1>3. stack \in [1 .. Len(stack) -> Range(stack)]
  BY <1>1 DEF Range
<1>4. stack \in Surjection(1 .. Len(stack), Range(stack))
  BY <1>1, <1>3 DEF Surjection, Range
<1>5. stack \in Injection(1 .. Len(stack), Range(stack))
  BY <1>1, <1>3 DEF Injection, IsInjective
<1> QED
  BY <1>2, <1>4, <1>5, FS_Surjection

\* Every activity that was entered is in one place where it gets its onExit,
\* and the render task draws none but the current one.
THEOREM ActivitiesOwnedOnce == Spec => []OwnedOnce
<1>1. ScreenInv => OwnedOnce
  <2> SUFFICES ASSUME ScreenInv PROVE OwnedOnce
    OBVIOUS
  <2>1. ScreenTypeOK /\ PlaceInv /\ DOMAIN stack = Places
    BY DEF ScreenInv, ScreenTypeOK, Places
  <2>2. \A a : a \in Range(stack) <=> \E i \in Places : stack[i] = a
    BY <2>1 DEF Range
  <2>3. \A a \in Range(stack) : a \in Activity
    BY <2>1, <2>2, StackFacts
  <2>4. entered = Range(stack) \cup ({current} \ {None})
    BY <2>1, <2>2, <2>3, StackFacts DEF PlaceInv, ScreenTypeOK
  <2>5. current \notin Range(stack) /\ pendingActivity \notin entered
    BY <2>1, <2>2, <2>4, StackFacts DEF PlaceInv, ScreenTypeOK
  <2> QED BY <2>1, <2>4, <2>5, StackSize DEF OwnedOnce, PlaceInv
<1> QED
  BY <1>1, ScreenAlways, PTL

\* A result handler is never called with what another child has left.
THEOREM HandlersMatch == Spec => []HandlerGetsItsChild
<1>1. ScreenInv => HandlerGetsItsChild
  <2>1. ScreenInv => DOMAIN stack = Places
    BY DEF ScreenInv, ScreenTypeOK, Places
  <2> QED BY <2>1 DEF ScreenInv, HandlerInv, HandlerGetsItsChild, Above
<1> QED
  BY <1>1, ScreenAlways, PTL
===============================================================================
