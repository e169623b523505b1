---------------------------- MODULE PhoneDashboard ----------------------------
(***************************************************************************)
(* The calendar app, src/apps/PhoneDashboardActivity.cpp, on the sync      *)
(* service and the snapshot store, with what main.cpp does around it: a    *)
(* timer wakes the sleeping device into the app (automaticWake), a user    *)
(* opens it from elsewhere, and enterDeepSleep paints the sleep screen     *)
(* unless it is told to preserve what the panel shows.                     *)
(*                                                                         *)
(* The main loop polls: a pass of PhoneDashboardActivity::loop takes what  *)
(* has come and saves it, then looks at what is due; callbacks of the host *)
(* task may come between any two of its steps.  Times (the window, the     *)
(* delay before an automatic sleep) pass at any moment.                    *)
(***************************************************************************)
EXTENDS PhoneSync

CONSTANTS
  StackDepth,  \* nested calls of enterDeepSleep the stack can hold
  Other        \* a panel that shows anything but the calendar

ASSUME DashboardAssumption == StackDepth \in Nat \ {0} /\ Other \notin Snapshot \cup {None}

VARIABLES
  mode,            \* what the device is doing
  sleepScreen,     \* SETTINGS.sleepScreen
  panel,           \* what the e-ink panel shows
  window,          \* the sync window: open, over (its time has passed), expired
  automaticSleep,  \* automaticSleepAt: not set, ahead, or passed
  refresh,         \* refreshSleepScreenOnAutomaticSleep
  nested,          \* calls of enterDeepSleep on the stack
  step,            \* progress of one pass of loop()
  taken,           \* `incoming', the copy of what was staged
  result,          \* SaveResult of the save that has returned
  dropped          \* history: the sleep screen was not repainted when it should be

\* Of SETTINGS.sleepScreen: every other screen is the weather that never changes.
Screens == {"calendar", "weather"}

appVars  == <<window, automaticSleep, refresh, nested, step, taken, result>>
deviceVars == <<mode, sleepScreen, panel, dropped>>
vars == <<storeVars, syncVars, appVars, deviceVars>>

TypeOK ==
  /\ StoreTypeOK /\ SyncTypeOK
  /\ mode \in {"asleep", "automatic", "manual", "elsewhere"}
  /\ sleepScreen \in Screens
  /\ panel \in Snapshot \cup {None, Other}
  /\ window \in {"open", "over", "expired"}
  /\ automaticSleep \in {"unset", "ahead", "passed"}
  /\ refresh \in BOOLEAN
  /\ nested \in 0 .. StackDepth
  /\ step \in {"poll", "copy", "save", "saving", "answer", "due"}
  /\ taken \in Staged
  /\ result \in {"Updated", "Unchanged", "Stale", "Error"}
  /\ dropped \in BOOLEAN

AppInit ==
  /\ window = "open" /\ automaticSleep = "unset" /\ refresh = FALSE /\ nested = 0
  /\ step = "poll" /\ taken = Cleared /\ result = "Error"

Init ==
  /\ StoreInit /\ SyncInit /\ AppInit
  /\ mode = "elsewhere" /\ sleepScreen \in Screens
  /\ panel = Other /\ dropped = FALSE

Running == mode \in {"automatic", "manual"}
Polling == Running /\ step = "poll" /\ phase = "idle"
Due     == Running /\ step = "due"

\* The members of a new activity object.
NewActivity ==
  /\ window' = "open" /\ automaticSleep' = "unset" /\ refresh' = FALSE /\ nested' = 0
  /\ step' = "poll" /\ taken' = Cleared /\ result' = "Error"

-----------------------------------------------------------------------------
(* Taking, saving and acknowledging a snapshot. *)

\* Nothing to take: the pass goes on.
NothingToTake ==
  /\ Polling /\ ~snapshotReady /\ step' = "due"
  /\ UNCHANGED <<storeVars, syncVars, deviceVars, window, automaticSleep, refresh, nested, taken, result>>

Take ==
  /\ Polling
  /\ TakeExchange /\ step' = "copy"
  /\ UNCHANGED <<storeVars, deviceVars, window, automaticSleep, refresh, nested, taken, result>>

\* A transfer that has begun since TakeExchange is copied as far as it has come.
Copy ==
  /\ step = "copy" /\ step' = "save" /\ taken' = staging
  /\ UNCHANGED <<storeVars, syncVars, deviceVars, window, automaticSleep, refresh, nested, result>>

\* The head of save: validateSnapshot, then the store's own comparison.
\* Mutant: the store does not validate what it is given.
MutantUnchecked ==
  /\ step = "save" /\ taken.of # None
  /\ Save(taken.of)
  /\ step' = IF phase' = "write" THEN "saving" ELSE "answer"
  /\ result' = "Unchanged"
  /\ UNCHANGED <<syncVars, deviceVars, window, automaticSleep, refresh, nested, taken>>

StartSave ==
  /\ step = "save"
  /\ IF Whole(taken)
     THEN /\ Save(taken.of)
          /\ IF phase' = "write" THEN step' = "saving" /\ UNCHANGED result
             ELSE /\ step' = "answer"
                  /\ result' = IF ram = taken.of THEN "Unchanged" ELSE "Stale"
     ELSE /\ step' = "answer" /\ result' = "Error"
          /\ UNCHANGED storeVars
  /\ UNCHANGED <<syncVars, deviceVars, window, automaticSleep, refresh, nested, taken>>

SaveGoesOn ==
  /\ step = "saving"
  /\ WriteTemp \/ DropBackup \/ MoveAside \/ Install \/ Restore \/ CleanUp
  /\ IF phase' = "idle"
     THEN /\ step' = "answer"
          /\ result' = IF ram' = taken.of THEN "Updated" ELSE "Error"
     ELSE UNCHANGED <<step, result>>
  /\ UNCHANGED <<syncVars, deviceVars, window, automaticSleep, refresh, nested, taken>>

\* Mutant: the last result alone decides about the refresh.
MutantFinish(refreshSleepScreen) ==
  refresh' = refreshSleepScreen /\ automaticSleep' = "ahead"

FinishAutomaticSync(refreshSleepScreen) ==
  /\ refresh' = (refresh \/ refreshSleepScreen)
  /\ automaticSleep' = "ahead"

\* Mutant: a save that failed is acknowledged.
MutantAccepted == result # "Stale"

Accepted == result \in {"Updated", "Unchanged"}

Answer ==
  /\ step = "answer" /\ step' = "due"
  /\ Acknowledge(taken.of.sequence, Accepted)
  /\ IF mode = "automatic"
     THEN /\ FinishAutomaticSync(result = "Updated" /\ sleepScreen = "calendar")
          /\ UNCHANGED panel
     ELSE /\ panel' = IF result = "Updated" THEN taken.of ELSE panel
          /\ UNCHANGED <<refresh, automaticSleep>>
  /\ taken' = Cleared /\ result' = "Error"
  /\ UNCHANGED <<storeVars, mode, sleepScreen, dropped, window, nested>>

\* The weather half of the pass, seen from here: a snapshot was accepted.
WeatherAccepted ==
  /\ Polling /\ active /\ mode = "automatic"
  /\ \E updated \in BOOLEAN : FinishAutomaticSync(updated /\ sleepScreen = "weather")
  /\ UNCHANGED <<storeVars, syncVars, deviceVars, window, nested, step, taken, result>>

-----------------------------------------------------------------------------
(* Time, and deep sleep. *)

WindowElapses ==
  /\ Running /\ window = "open" /\ window' = "over"
  /\ UNCHANGED <<storeVars, syncVars, deviceVars, automaticSleep, refresh, nested, step, taken, result>>

DelayElapses ==
  /\ Running /\ automaticSleep = "ahead" /\ automaticSleep' = "passed"
  /\ UNCHANGED <<storeVars, syncVars, deviceVars, window, refresh, nested, step, taken, result>>

\* The end of enterDeepSleep: RAM is lost, the panel keeps its picture.
PowerDown ==
  /\ mode' = "asleep" /\ Sleep /\ SyncReset /\ NewActivity

\* The sleep screen is painted from what the store has in RAM; when there is no
\* memory for the app's page (goToPhoneDashboard), the plain one is shown.
PaintSleepScreen ==
  \/ panel' = (IF sleepScreen = "calendar" THEN ram ELSE Other) /\ dropped' = FALSE
  \/ sleepScreen = "calendar" /\ panel' = Other /\ dropped' = TRUE

\* The delay is over.  Without a refresh the device goes to sleep.  With one,
\* enterDeepSleep queues the sleep screen as a pending activity and runs
\* activityManager.loop(), which first calls the loop() of the activity that
\* is still current - this one, whose delay is still over.
SleepDue ==
  /\ Due /\ automaticSleep = "passed"
  /\ \/ /\ ~refresh
        /\ PowerDown /\ UNCHANGED <<panel, sleepScreen, dropped>>
     \/ /\ refresh /\ nested < StackDepth
        /\ nested' = nested + 1 /\ step' = "poll"
        /\ End
        /\ UNCHANGED <<storeVars, deviceVars, window, automaticSleep, refresh, taken, result>>

\* The stack overflows and the device restarts with its crash report.
Overflow ==
  /\ Due /\ automaticSleep = "passed" /\ refresh /\ nested = StackDepth
  /\ mode' = "elsewhere" /\ panel' = Other
  /\ Sleep /\ SyncReset /\ NewActivity
  /\ UNCHANGED <<sleepScreen, dropped>>

\* Mutant: the end of the window only closes the radio.
MutantWindowOver ==
  /\ Due /\ automaticSleep # "passed" /\ window = "over"
  /\ window' = "expired" /\ step' = "poll" /\ End
  /\ UNCHANGED <<storeVars, deviceVars, automaticSleep, refresh, nested, taken, result>>

WindowOver ==
  /\ Due /\ automaticSleep # "passed" /\ window = "over"
  /\ \/ /\ mode = "automatic"
        /\ dropped' = (dropped \/ refresh)
        /\ PowerDown /\ UNCHANGED <<panel, sleepScreen>>
     \/ /\ mode = "manual"
        /\ window' = "expired" /\ step' = "poll" /\ End
        /\ UNCHANGED <<storeVars, deviceVars, automaticSleep, refresh, nested, taken, result>>

NothingDue ==
  /\ Due /\ automaticSleep # "passed" /\ window # "over" /\ step' = "poll"
  /\ UNCHANGED <<storeVars, syncVars, deviceVars, window, automaticSleep, refresh, nested, taken, result>>

\* The user leaves the app, or sets its page as the sleep screen, or retries.
Leave ==
  /\ Polling /\ mode = "manual"
  /\ mode' = "elsewhere" /\ panel' = Other
  /\ End /\ NewActivity
  /\ UNCHANGED <<storeVars, sleepScreen, dropped>>

SetAsSleepScreen ==
  /\ Polling /\ mode = "manual"
  /\ sleepScreen' = "calendar"
  /\ UNCHANGED <<storeVars, syncVars, appVars, mode, panel, dropped>>

Retry ==
  /\ Polling /\ mode = "manual" /\ ~active
  /\ Begin /\ window' = "open"
  /\ UNCHANGED <<storeVars, deviceVars, automaticSleep, refresh, nested, step, taken, result>>

\* Other settings are made elsewhere.
ChangeSettings ==
  /\ mode = "elsewhere" /\ sleepScreen' \in Screens
  /\ UNCHANGED <<storeVars, syncVars, appVars, mode, panel, dropped>>

\* enterDeepSleep from main.cpp: the power button, or nothing has happened.
GoToSleep ==
  /\ mode = "elsewhere" \/ (Running /\ step = "poll" /\ automaticSleep # "passed")
  /\ phase = "idle"
  /\ PaintSleepScreen
  /\ PowerDown /\ UNCHANGED sleepScreen

TimerWake ==
  /\ mode = "asleep" /\ phase = "idle"
  /\ mode' = "automatic"
  /\ Begin /\ NewActivity
  /\ UNCHANGED <<storeVars, sleepScreen, panel, dropped>>

UserWake ==
  /\ mode = "asleep" /\ mode' = "elsewhere" /\ panel' = Other
  /\ UNCHANGED <<storeVars, syncVars, appVars, sleepScreen, dropped>>

OpenApp ==
  /\ mode = "elsewhere" /\ phase = "idle"
  /\ mode' = "manual" /\ panel' = ram
  /\ Begin /\ NewActivity
  /\ UNCHANGED <<storeVars, sleepScreen, dropped>>

\* setup() loads the store before it decides where to go.
Boot ==
  /\ Load /\ UNCHANGED <<syncVars, appVars, deviceVars>>

\* Power is lost while the device is awake.
LosePower ==
  /\ mode # "asleep" /\ Crash
  /\ mode' = "elsewhere" /\ panel' = Other
  /\ SyncReset /\ NewActivity
  /\ UNCHANGED <<sleepScreen, dropped>>

-----------------------------------------------------------------------------
PassStep ==
  \/ NothingToTake \/ Take \/ Copy \/ StartSave \/ SaveGoesOn \/ Answer
  \/ SleepDue \/ Overflow \/ WindowOver \/ NothingDue

Next ==
  \/ Running /\ HostStep /\ UNCHANGED <<storeVars, appVars, deviceVars>>
  \/ PassStep \/ WeatherAccepted \/ WindowElapses \/ DelayElapses
  \/ Leave \/ SetAsSleepScreen \/ Retry \/ ChangeSettings \/ GoToSleep
  \/ TimerWake \/ UserWake \/ OpenApp \/ Boot \/ LosePower

Spec == Init /\ [][Next]_vars

\* Time passes and the main loop polls; nothing is assumed of phone or user.
FairSpec ==
  Spec /\ WF_vars(PassStep) /\ WF_vars(WindowElapses) /\ WF_vars(DelayElapses)

-----------------------------------------------------------------------------
(* Properties. *)

\* What the phone was told is stored is on the card, whatever transfers,
\* saves and faults do (Acknowledge in loop against writeSnapshot).
AcknowledgedIsStored ==
  phase = "idle" /\ acknowledged # 0 /\ faults <= 1 =>
    Stored # None /\ Stored.sequence >= acknowledged

\* Only what came whole is saved, although a transfer may start again between
\* the exchange and the copy of takeSnapshot.
SavedCameWhole == phase \notin {"off", "idle"} => Whole(taken) /\ incoming = taken.of

\* A sleeping device with the calendar as its sleep screen shows what the card
\* holds, or the empty page when reading it failed (enterDeepSleep against
\* finishAutomaticSync), unless the window ended within the delay of a refresh, or
\* there was no memory for the app's page, since its last repaint.
SleepScreenIsStored ==
  mode = "asleep" /\ sleepScreen = "calendar" /\ ~dropped /\ faults <= 1 =>
    panel = Stored \/ (faults = 1 /\ panel = None)

\* An automatic wake does not last.
AutomaticWakeEnds == mode = "automatic" ~> mode # "automatic"

\* "Periodic phone-sync wakes repaint the selected app only when its cached data
\* changed" (README.md:45): with the calendar selected, a wake that no fault and no
\* want of memory ends leaves the panel as it was, or with what is stored.
WakeRepaintsApp ==
  [][mode = "automatic" /\ mode' # mode /\ sleepScreen = "calendar" /\ UNCHANGED faults /\ ~dropped'
       => panel' \in {panel, Stored}]_vars
=============================================================================
