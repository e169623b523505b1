--------------------------- MODULE ActivityManager ---------------------------
(***************************************************************************)
(* The screens of the device, src/activities/ActivityManager.cpp: the main *)
(* loop owns the activities and changes them under the rendering mutex,    *)
(* the render task draws the current one when it is notified.              *)
(*                                                                         *)
(* What an activity does in loop, onEnter and a result handler is up to    *)
(* it: between two steps it may request updates, start and finish          *)
(* activities.  A critical section of the main loop is one action that     *)
(* needs the mutex; the render task holds it while it draws.               *)
(***************************************************************************)
EXTENDS Sequences, Naturals, FiniteSets, Functions

CONSTANTS
  Activity,  \* activity objects; one that is gone may be made again
  MaxStack,  \* bound on stackActivities
  None       \* nullptr

ASSUME ActivityAssumption == None \notin Activity /\ MaxStack \in Nat

VARIABLES
  main,             \* where the main loop is: between passes, in an activity's
                    \* code, in the while loop of loop(), or at its goHome
  current,          \* currentActivity
  stack,            \* stackActivities
  pendingActivity, pendingAction,
  entered,          \* onEnter has been called, onExit has not
  expects,          \* resultHandler, as the child it was set for
  requestedUpdate,
  call,             \* progress of requestUpdateAndWait
  waiting,          \* waitingTaskHandle is not null
  woken,            \* the main loop's task notification
  notified,         \* the render task's
  render,           \* where the render task is
  drawing,          \* the activity whose render() runs
  owed              \* history: the current activity is to be drawn again

screenVars  == <<main, current, stack, pendingActivity, pendingAction, entered, expects>>
waitVars    == <<call, waiting, woken>>
renderVars  == <<render, drawing>>
vars == <<screenVars, requestedUpdate, waitVars, notified, renderVars, owed>>

InCode == main \in {"loop", "enter", "handler"} /\ call = "no"
Alive  == Range(stack) \cup ({current, pendingActivity} \ {None})
Fresh  == Activity \ Alive
MutexFree == render \notin {"drawing", "done"}

Init ==
  /\ main = "poll" /\ current \in Activity /\ stack = <<>>
  /\ pendingActivity = None /\ pendingAction = "None"
  /\ entered = {current} /\ expects = [a \in Activity |-> None]
  /\ requestedUpdate = FALSE
  /\ call = "no" /\ waiting = FALSE /\ woken = FALSE /\ notified = FALSE
  /\ render = "idle" /\ drawing = None /\ owed = FALSE

-----------------------------------------------------------------------------
(* Code of the current activity. *)

RequestUpdate(immediate) ==
  /\ InCode
  /\ owed' = TRUE
  /\ IF immediate THEN notified' = TRUE /\ UNCHANGED requestedUpdate
                  ELSE requestedUpdate' = TRUE /\ UNCHANGED notified
  /\ UNCHANGED <<screenVars, waitVars, renderVars>>

\* Mutant: the render task is notified before it can know who waits.
MutantNotifyFirst ==
  /\ InCode /\ call' = "set" /\ notified' = TRUE /\ owed' = TRUE
  /\ UNCHANGED <<screenVars, requestedUpdate, waiting, woken, renderVars>>

\* requestUpdateAndWait, up to the end of its critical section.
AnnounceWait ==
  /\ InCode
  /\ call' = "set" /\ waiting' = TRUE /\ owed' = TRUE
  /\ UNCHANGED <<screenVars, requestedUpdate, woken, notified, renderVars>>

NotifyAndBlock ==
  /\ call = "set" /\ call' = "blocked"
  /\ notified' = TRUE
  /\ UNCHANGED <<screenVars, requestedUpdate, waiting, woken, renderVars, owed>>

WaitReturns ==
  /\ call = "blocked" /\ woken
  /\ call' = "no" /\ woken' = FALSE
  /\ UNCHANGED <<screenVars, requestedUpdate, waiting, notified, renderVars, owed>>

Calls(action, activity) == pendingAction' = action /\ pendingActivity' = activity

\* startActivityForResult.
StartForResult ==
  /\ InCode /\ Len(stack) < MaxStack
  /\ \E child \in Fresh :
       /\ expects' = [expects EXCEPT ![current] = child]
       /\ Calls("Push", child)
  /\ UNCHANGED <<main, current, stack, entered, requestedUpdate, waitVars, notified, renderVars, owed>>

\* pushActivity without a handler (CustomAppsActivity).  No activity does this
\* after startActivityForResult in one pass.
PushActivity ==
  /\ InCode /\ expects[current] = None /\ Len(stack) < MaxStack
  /\ \E child \in Fresh : Calls("Push", child)
  /\ UNCHANGED <<main, current, stack, entered, expects, requestedUpdate, waitVars, notified, renderVars, owed>>

\* finish.
PopActivity ==
  /\ InCode
  /\ Calls("Pop", None)
  /\ UNCHANGED <<main, current, stack, entered, expects, requestedUpdate, waitVars, notified, renderVars, owed>>

\* replaceActivity: by an activity, or between passes (enterDeepSleep).
ReplaceActivity ==
  /\ InCode \/ main = "poll"
  /\ \E next \in Fresh : Calls("Replace", next)
  /\ UNCHANGED <<main, current, stack, entered, expects, requestedUpdate, waitVars, notified, renderVars, owed>>

-----------------------------------------------------------------------------
(* loop(). *)

\* A home or panel gesture is all this pass does; the next one runs the
\* activity's loop() before what it has queued.
Gesture ==
  /\ main = "poll"
  /\ \E next \in Fresh, action \in {"Push", "Replace"} :
       /\ action = "Push" => Len(stack) < MaxStack
       /\ Calls(action, next)
  /\ UNCHANGED <<main, current, stack, entered, expects, requestedUpdate, waitVars, notified, renderVars, owed>>

StartPass ==
  /\ main = "poll" /\ main' = "loop"
  /\ UNCHANGED <<current, stack, pendingActivity, pendingAction, entered, expects>>
  /\ UNCHANGED <<requestedUpdate, waitVars, notified, renderVars, owed>>

CodeReturns ==
  /\ InCode /\ main \in {"loop", "enter"}
  /\ main' = "drain"
  /\ UNCHANGED <<current, stack, pendingActivity, pendingAction, entered, expects>>
  /\ UNCHANGED <<requestedUpdate, waitVars, notified, renderVars, owed>>

\* After a result handler the popped activity is drawn again.
\* Mutant: the handler is left to ask for it.
MutantHandlerReturns ==
  /\ InCode /\ main = "handler"
  /\ main' = "drain"
  /\ UNCHANGED <<current, stack, pendingActivity, pendingAction, entered, expects>>
  /\ UNCHANGED <<requestedUpdate, waitVars, notified, renderVars, owed>>

HandlerReturns ==
  /\ InCode /\ main = "handler"
  /\ main' = "drain"
  /\ requestedUpdate' = (requestedUpdate \/ pendingAction = "None")
  /\ UNCHANGED <<current, stack, pendingActivity, pendingAction, entered, expects>>
  /\ UNCHANGED <<waitVars, notified, renderVars, owed>>

\* Pop: the current activity leaves, the last one on the stack is back and its
\* handler, which is cleared first, is called with the result.
\* Mutant: a handler stays for the next pop.
MutantPop ==
  /\ main = "drain" /\ pendingAction = "Pop" /\ MutexFree /\ stack # <<>>
  /\ entered' = entered \ {current}
  /\ Calls("None", pendingActivity)
  /\ current' = stack[Len(stack)] /\ stack' = SubSeq(stack, 1, Len(stack) - 1)
  /\ main' = IF expects[current'] = None THEN main ELSE "handler"
  /\ requestedUpdate' = (requestedUpdate \/ expects[current'] = None)
  /\ owed' = TRUE
  /\ UNCHANGED <<expects, waitVars, notified, renderVars>>

Pop ==
  /\ main = "drain" /\ pendingAction = "Pop" /\ MutexFree /\ stack # <<>>
  /\ entered' = entered \ {current}
  /\ Calls("None", pendingActivity)
  /\ current' = stack[Len(stack)] /\ stack' = SubSeq(stack, 1, Len(stack) - 1)
  /\ expects' = [expects EXCEPT ![current] = None, ![current'] = None]
  /\ main' = IF expects[current'] = None THEN main ELSE "handler"
  /\ requestedUpdate' = (requestedUpdate \/ expects[current'] = None)
  /\ owed' = TRUE
  /\ UNCHANGED <<waitVars, notified, renderVars>>

PopLast ==
  /\ main = "drain" /\ pendingAction = "Pop" /\ MutexFree /\ stack = <<>>
  /\ entered' = entered \ {current}
  /\ Calls("None", pendingActivity)
  /\ current' = None /\ main' = "home" /\ owed' = FALSE
  /\ expects' = [expects EXCEPT ![current] = None]
  /\ UNCHANGED <<stack, requestedUpdate, waitVars, notified, renderVars>>

\* goHome without a current activity, which takes no lock.
GoHome ==
  /\ main = "home" /\ main' = "enter"
  /\ current' \in Fresh /\ entered' = entered \cup {current'}
  /\ UNCHANGED <<stack, pendingActivity, pendingAction, expects>>
  /\ UNCHANGED <<requestedUpdate, waitVars, notified, renderVars, owed>>

\* Mutant: the activities on the stack are dropped without onExit.
MutantReplace ==
  /\ main = "drain" /\ pendingAction = "Replace" /\ MutexFree
  /\ entered' = (entered \ {current}) \cup {pendingActivity}
  /\ stack' = <<>> /\ expects' = [a \in Activity |-> None]
  /\ current' = pendingActivity /\ Calls("None", None)
  /\ main' = "enter" /\ owed' = FALSE
  /\ UNCHANGED <<requestedUpdate, waitVars, notified, renderVars>>

Replace ==
  /\ main = "drain" /\ pendingAction = "Replace" /\ MutexFree
  /\ entered' = {pendingActivity}
  /\ stack' = <<>> /\ expects' = [a \in Activity |-> None]
  /\ current' = pendingActivity /\ Calls("None", None)
  /\ main' = "enter" /\ owed' = FALSE
  /\ UNCHANGED <<requestedUpdate, waitVars, notified, renderVars>>

Push ==
  /\ main = "drain" /\ pendingAction = "Push" /\ MutexFree
  /\ entered' = entered \cup {pendingActivity}
  /\ stack' = Append(stack, current)
  /\ current' = pendingActivity /\ Calls("None", None)
  /\ main' = "enter" /\ owed' = FALSE
  /\ UNCHANGED <<expects, requestedUpdate, waitVars, notified, renderVars>>

EndPass ==
  /\ main = "drain" /\ pendingAction = "None"
  /\ main' = "poll"
  /\ requestedUpdate' = FALSE /\ notified' = (notified \/ requestedUpdate)
  /\ UNCHANGED <<current, stack, pendingActivity, pendingAction, entered, expects>>
  /\ UNCHANGED <<waitVars, renderVars, owed>>

-----------------------------------------------------------------------------
(* renderTaskLoop. *)

RenderWakes ==
  /\ render = "idle" /\ notified
  /\ render' = "woken" /\ notified' = FALSE
  /\ UNCHANGED <<screenVars, requestedUpdate, waitVars, drawing, owed>>

RenderLocks ==
  /\ render = "woken" /\ render' = "drawing"
  /\ drawing' = current /\ owed' = (owed /\ current = None)
  /\ UNCHANGED <<screenVars, requestedUpdate, waitVars, notified>>

RenderReturns ==
  /\ render = "drawing" /\ render' = "done" /\ drawing' = None
  /\ UNCHANGED <<screenVars, requestedUpdate, waitVars, notified, owed>>

\* Whoever waits is notified, and the mutex given back.
WakeWaiter ==
  /\ render = "done" /\ render' = "idle"
  /\ waiting' = FALSE /\ woken' = (woken \/ waiting)
  /\ UNCHANGED <<screenVars, requestedUpdate, call, notified, drawing, owed>>

-----------------------------------------------------------------------------
RenderStep == RenderWakes \/ RenderLocks \/ RenderReturns \/ WakeWaiter
CodeEnds   == CodeReturns \/ HandlerReturns
DrainStep  == Pop \/ PopLast \/ GoHome \/ Replace \/ Push \/ EndPass
WaitStep   == NotifyAndBlock \/ WaitReturns

Next ==
  \/ \E immediate \in BOOLEAN : RequestUpdate(immediate)
  \/ AnnounceWait \/ WaitStep
  \/ StartForResult \/ PushActivity \/ PopActivity \/ ReplaceActivity
  \/ Gesture \/ StartPass \/ CodeEnds \/ DrainStep \/ RenderStep

Spec == Init /\ [][Next]_vars

\* Passes follow one another (a gesture is not made in every one), an
\* activity's code returns, and both tasks are scheduled.
FairSpec ==
  Spec /\ WF_vars(StartPass) /\ WF_vars(CodeEnds) /\ WF_vars(DrainStep)
       /\ WF_vars(WaitStep) /\ WF_vars(RenderStep)

-----------------------------------------------------------------------------
(* Properties. *)

\* Every activity that has been entered is the current one or on the stack, in
\* one place, and will get its onExit there; the render task only ever draws
\* the current one (exitActivity and the moves of loop() against render).
OwnedOnce ==
  /\ entered = Range(stack) \cup ({current} \ {None})
  /\ Cardinality(Range(stack)) = Len(stack) /\ current \notin Range(stack)
  /\ pendingActivity \notin entered
  /\ current = None => main = "home"
  /\ drawing # None => drawing = current

\* A result handler is called with the result of the child it was given for,
\* although gestures and replacements may drop a child that is only pending.
HandlerGetsItsChild ==
  \A i \in DOMAIN stack :
    expects[stack[i]] \in {None, IF i = Len(stack) THEN current ELSE stack[i + 1]}

\* No wake is left over from one requestUpdateAndWait to let the next return at
\* once, and while one is blocked the wake or a pass of the render task is to come.
WaitIsSound ==
  /\ call = "no" => ~waiting /\ ~woken
  /\ call = "blocked" => woken \/ (waiting /\ (notified \/ render # "idle"))

\* An activity that asked for an update, or has come back from the stack, is
\* drawn, unless it is no longer shown; requests that meet a render under way
\* are not lost (notification counts in requestUpdate and renderTaskLoop).
UpdateIsDrawn == owed ~> ~owed
=============================================================================
