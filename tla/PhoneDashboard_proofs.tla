------------------------ MODULE PhoneDashboard_proofs ------------------------
(***************************************************************************)
(* What the phone was told is stored survives one fault, for any number of *)
(* snapshots, chunks and faults: first for the snapshot store by itself,   *)
(* under any caller, then for the calendar app on top of it.               *)
(* Last, what the sleep screen shows is what the card holds.               *)
(***************************************************************************)
EXTENDS PhoneDashboard, TLAPS

\* At least as new as what was acknowledged.
Covers(x) == acked # None => x # None /\ x.sequence >= acked.sequence

\* A snapshot that may have been in RAM before the save under way: what was
\* stored, or nothing after a read that failed.
WasRam(x) == ram \in {None, x}

\* What writeSnapshot wrote, if not two operations failed.
Written(file) == file = incoming \/ (file = Torn /\ faults >= 2)

\* What is in flight between the operations of writeSnapshot.
FlightInv ==
  /\ phase \in {"off", "idle"} => incoming = None
  /\ phase \notin {"off", "idle"} => incoming \in Snapshot
  /\ phase \in {"drop", "aside", "install"} => Written(tmp)
  /\ phase = "clean" => Written(main)
  /\ phase = "off" => ram = None
  /\ phase \notin {"off", "idle"} /\ ram # None => incoming.sequence >= ram.sequence

\* Before the first fault the one copy is where each operation expects it.
CalmInv ==
  faults = 0 =>
    /\ phase \in {"off", "idle", "write", "drop", "aside"} => bak = None /\ Covers(main)
    /\ phase \in {"idle", "write", "drop", "aside"} => ram = main
    /\ phase = "install" => main = None /\ Covers(bak) /\ ram = bak
    /\ phase \in {"aside", "drop", "write", "install", "clean"} => Covers(incoming)
    /\ phase # "restore"

\* After the first fault a save either goes through, or has left the old copy.
FaultInv ==
  faults = 1 =>
    /\ phase \in {"off", "idle", "write", "drop"} => Covers(Stored) /\ WasRam(Stored)
    /\ phase = "aside" => bak = None /\ (main # None => Covers(main) /\ WasRam(main))
    /\ phase = "install" => \/ main = None
                            \/ bak = None /\ Covers(main) /\ WasRam(main)
    /\ phase = "restore" => \/ main = None /\ Covers(bak) /\ WasRam(bak)
                            \/ bak = None /\ Covers(main) /\ WasRam(main)

StoreInv == StoreTypeOK /\ FlightInv /\ CalmInv /\ FaultInv

-----------------------------------------------------------------------------
(* The store. *)

LEMMA SnapshotFacts ==
  /\ None \notin Snapshot /\ Torn \notin Snapshot
  /\ \A s \in Snapshot : s.sequence \in Nat /\ s.sequence \in 1 .. MaxSequence
BY StoreAssumption, SMT DEF Snapshot

LEMMA StoreStarts == StoreInit => StoreInv
BY StoreAssumption, SMT
DEF StoreInit, StoreInv, StoreTypeOK, FlightInv, CalmInv, FaultInv, Covers, WasRam, Stored, Usable, Written, File

\* The types, the fault counter, and what every step may count on.
LEMMA StoreTypes ==
  ASSUME StoreInv, [StoreNext]_storeVars
  PROVE  StoreTypeOK' /\ FlightInv'
<1> USE SnapshotFacts DEF StoreInv, StoreTypeOK, FlightInv, Written, Usable, Fault, NoFault, Return, files, File
<1>0. faults \in Nat /\ MaxFaults \in Nat
  BY StoreAssumption, SMT
<1>1. CASE Load
  BY <1>0, <1>1, SMT DEF Load, Stored
<1>2. ASSUME NEW s \in Snapshot, Save(s) PROVE StoreTypeOK' /\ FlightInv'
  <2>1. s \in Snapshot /\ s # None /\ s.sequence \in Nat
    BY <1>2
  <2>2. CASE ram # None /\ s.sequence < ram.sequence
    BY <1>2, <2>2 DEF Save
  <2>3. CASE ~(ram # None /\ s.sequence < ram.sequence) /\ ram = s
    BY <1>2, <2>1, <2>3 DEF Save
  <2>4. CASE ~(ram # None /\ s.sequence < ram.sequence) /\ ram # s
    <3>1. /\ phase' = "write" /\ incoming' = s
          /\ UNCHANGED <<main, bak, tmp, ram, acked, faults>>
      BY <1>2, <2>4 DEF Save
    <3>2. ram # None => s.sequence >= ram.sequence
      BY <2>1, <2>4, SMT
    <3> QED BY <2>1, <3>1, <3>2
  <2> QED BY <2>2, <2>3, <2>4
<1>3. CASE WriteTemp
  BY <1>0, <1>3, SMT DEF WriteTemp
<1>4. CASE DropBackup
  <2>1. /\ UNCHANGED <<main, tmp, ram, incoming, acked>> /\ phase = "drop" /\ phase' = "aside"
        /\ bak' \in {bak, None} /\ faults' \in 0 .. MaxFaults
        /\ faults' = faults \/ faults' = faults + 1
    BY <1>0, <1>4, SMT DEF DropBackup
  <2>2. (faults' <= 1 => faults <= 1) /\ (faults >= 2 => faults' >= 2)
    BY <1>0, <2>1, SMT
  <2>3. StoreTypeOK'
    BY <2>1, <2>2, StoreAssumption
  <2>4. FlightInv'
    BY <2>1, <2>2
  <2> QED BY <2>3, <2>4
<1>5. CASE MoveAside
  BY <1>0, <1>5, SMT DEF MoveAside
<1>6. CASE Install
  BY <1>0, <1>6, SMT DEF Install
<1>7. CASE Restore
  BY <1>0, <1>7, SMT DEF Restore
<1>8. CASE CleanUp
  <2>1. /\ UNCHANGED <<main, tmp>> /\ phase' = "idle" /\ incoming' = None
        /\ ram' = incoming /\ acked' = incoming /\ incoming \in Snapshot
        /\ bak' \in {bak, None} /\ faults' \in 0 .. MaxFaults
        /\ faults' = faults \/ faults' = faults + 1
    BY <1>0, <1>8, SMT DEF CleanUp
  <2>2. faults' <= 1 => faults <= 1
    BY <1>0, <2>1, SMT
  <2>3. StoreTypeOK'
    BY <2>1, <2>2, StoreAssumption
  <2>4. FlightInv'
    BY <2>1
  <2> QED BY <2>3, <2>4
<1>9. CASE Crash
  BY <1>0, <1>9, SMT DEF Crash
<1>10. CASE Sleep
  BY <1>10 DEF Sleep
<1>11. CASE UNCHANGED storeVars
  BY <1>11 DEF storeVars
<1> QED
  BY <1>1, <1>2, <1>3, <1>4, <1>5, <1>6, <1>7, <1>8, <1>9, <1>10, <1>11 DEF StoreNext

\* A fault is the first one or makes two; two at once are never the first.
LEMMA FaultCount ==
  ASSUME StoreTypeOK
  PROVE  /\ Fault => (faults' = 1 => faults = 0) /\ faults' # 0
         /\ NoFault => faults' = faults
         /\ faults' = faults + 2 => faults' # 0 /\ faults' # 1
         /\ faults \in {0, 1} => ~(faults >= 2) /\ main # Torn /\ bak # Torn
BY StoreAssumption, SMT DEF StoreTypeOK, Fault, NoFault

LEMMA StoreStep == StoreInv /\ [StoreNext]_storeVars => StoreInv'
<1> SUFFICES ASSUME StoreInv, [StoreNext]_storeVars PROVE CalmInv' /\ FaultInv'
  BY StoreTypes DEF StoreInv
<1>0. StoreTypeOK /\ FlightInv /\ CalmInv /\ FaultInv
  BY DEF StoreInv
<1> USE <1>0, SnapshotFacts, FaultCount
        DEF CalmInv, FaultInv, Covers, WasRam, Stored, Usable, FlightInv, Written, Return, files
<1>1. CASE Load
  BY <1>1 DEF Load
<1>2. ASSUME NEW s \in Snapshot, Save(s) PROVE CalmInv' /\ FaultInv'
  <2>1. phase = "idle" /\ UNCHANGED <<main, bak, tmp, ram, faults>>
    BY <1>2 DEF Save, NoFault
  <2>2. CASE ram # None /\ s.sequence < ram.sequence
    BY <1>2, <2>1, <2>2 DEF Save
  <2>3. CASE ~(ram # None /\ s.sequence < ram.sequence) /\ ram = s
    <3>1. phase' = "idle" /\ acked' = s /\ s \in Snapshot /\ s.sequence >= s.sequence
      BY <1>2, <2>1, <2>3, SMT DEF Save
    <3> QED BY <2>1, <2>3, <3>1
  <2>4. CASE ~(ram # None /\ s.sequence < ram.sequence) /\ ram # s
    <3>1. phase' = "write" /\ incoming' = s /\ UNCHANGED acked
      BY <1>2, <2>4 DEF Save
    <3>2. acked \in Snapshot \cup {None} /\ s.sequence \in Nat
      BY DEF StoreTypeOK
    <3>3. faults = 0 => (acked # None => s # None /\ s.sequence >= acked.sequence)
      <4> SUFFICES ASSUME faults = 0, acked # None PROVE s # None /\ s.sequence >= acked.sequence
        OBVIOUS
      <4>1. ram = main /\ main # None /\ main.sequence >= acked.sequence
        BY <2>1
      <4>2. ~(s.sequence < ram.sequence) /\ ram \in Snapshot /\ acked \in Snapshot
        BY <2>4, <4>1, <3>2 DEF StoreTypeOK
      <4> QED BY <1>2, <4>1, <4>2, SMT
    <3> QED BY <2>1, <3>1, <3>3
  <2> QED BY <2>2, <2>3, <2>4
<1>3. CASE WriteTemp
  BY <1>3 DEF WriteTemp
<1>4. CASE DropBackup
  BY <1>4 DEF DropBackup
<1>5. CASE MoveAside
  BY <1>5 DEF MoveAside
<1>6. CASE Install
  BY <1>6 DEF Install
<1>7. CASE Restore
  BY <1>7 DEF Restore
<1>8. CASE CleanUp
  <2>1. incoming \in Snapshot /\ incoming.sequence >= incoming.sequence
    BY <1>8, SMT DEF CleanUp
  <2>0. faults' \in {0, 1} => faults \in {0, 1}
    BY <1>8, StoreAssumption, SMT DEF CleanUp, Fault, NoFault, StoreTypeOK
  <2>2. /\ phase' = "idle" /\ ram' = incoming /\ acked' = incoming
        /\ faults' \in {0, 1} => /\ main' = incoming /\ main' # None /\ main' # Torn
                                 /\ main'.sequence >= acked'.sequence
        /\ faults' = 0 => bak' = None
    BY <1>8, <2>0, <2>1 DEF CleanUp
  <2>3. CalmInv'
    BY <2>2
  <2>4. FaultInv'
    BY <2>2
  <2> QED BY <2>3, <2>4
<1>9. CASE Crash
  <2>1. /\ phase' = "off" /\ ram' = None /\ faults' # 0
        /\ faults' = 1 => faults = 0
        /\ UNCHANGED <<main, bak, acked>> /\ phase # "off"
    BY <1>9 DEF Crash
  <2>2. CalmInv'
    BY <2>1
  <2>3. faults = 0 => Covers(Stored)
    <3>1. CASE phase \in {"idle", "write", "drop", "aside"}
      BY <3>1
    <3>2. CASE phase = "install"
      BY <3>2
    <3>3. CASE phase = "clean"
      BY <3>3
    <3> QED BY <2>1, <3>1, <3>2, <3>3 DEF StoreTypeOK
  <2>4. FaultInv'
    BY <2>1, <2>3
  <2> QED BY <2>2, <2>4
<1>10. CASE Sleep
  BY <1>10 DEF Sleep
<1>11. CASE UNCHANGED storeVars
  BY <1>11 DEF storeVars
<1> QED
  BY <1>1, <1>2, <1>3, <1>4, <1>5, <1>6, <1>7, <1>8, <1>9, <1>10, <1>11 DEF StoreNext

\* What the store guarantees to any caller, between its saves.
LEMMA StoreHolds == StoreInv => AckedSurvives /\ RamIsStored
<1> SUFFICES ASSUME StoreInv PROVE AckedSurvives /\ RamIsStored
  OBVIOUS
<1>1. faults <= 1 => faults \in {0, 1}
  BY StoreAssumption, SMT DEF StoreInv, StoreTypeOK
<1> QED
  BY <1>1 DEF StoreInv, StoreTypeOK, CalmInv, FaultInv, Covers, WasRam, Stored, Usable,
              AckedSurvives, RamIsStored

\* Under any caller, one crash or failed operation anywhere in save, load or
\* writeSnapshot leaves what was last acknowledged, or something newer, and the
\* display shows what the card has.
THEOREM StoreSurvivesOneFault == StoreSpec => [](AckedSurvives /\ RamIsStored)
BY StoreStarts, StoreStep, StoreHolds, PTL DEF StoreSpec

-----------------------------------------------------------------------------
(* The calendar app. *)

\* The ranges of the variables that are not the store's.
AppTypeOK ==
  /\ SyncTypeOK
  /\ mode \in {"asleep", "automatic", "manual", "elsewhere"}
  /\ sleepScreen \in Screens
  /\ panel \in Snapshot \cup {None, Other}
  /\ window \in {"open", "over", "expired"}
  /\ automaticSleep \in {"unset", "ahead", "passed"}
  /\ refresh \in BOOLEAN /\ dropped \in BOOLEAN
  /\ nested \in 0 .. StackDepth
  /\ step \in {"poll", "copy", "save", "saving", "answer", "due"}
  /\ taken \in Staged
  /\ result \in {"Updated", "Unchanged", "Stale", "Error"}

\* A save is under way exactly in the step that waits for it, and is of a
\* snapshot that came whole; a good result is of what is now in RAM; and what
\* was acknowledged since the start is no newer than that.
PassInv ==
  /\ phase \notin {"off", "idle"} <=> step = "saving"
  /\ step = "saving" => Whole(taken) /\ incoming = taken.of
  /\ step = "answer" /\ Accepted => taken.of \in Snapshot /\ ram = taken.of
  /\ acknowledged # 0 => ram # None /\ ram.sequence >= acknowledged

AppInv == StoreInv /\ AppTypeOK /\ PassInv

LEMMA TypeSplit == TypeOK <=> StoreTypeOK /\ AppTypeOK
BY DEF TypeOK, AppTypeOK

LEMMA Ranges ==
  /\ 0 \in 0 .. StackDepth /\ 0 \in 0 .. MaxSequence /\ None # Other
  /\ \A s \in Snapshot : s.sequence \in 0 .. MaxSequence /\ s.sequence >= s.sequence
  /\ \A n \in 0 .. StackDepth : n < StackDepth => n + 1 \in 0 .. StackDepth
<1>1. MaxSequence \in Nat /\ StackDepth \in Nat /\ Other # None
  BY StoreAssumption, DashboardAssumption
<1>2. \A s \in Snapshot : s.sequence \in 1 .. MaxSequence
  BY SnapshotFacts
<1> QED
  BY <1>1, <1>2, SMT

LEMMA StagedFacts ==
  /\ Cleared \in Staged
  /\ \A t \in Staged : Whole(t) => t.of \in Snapshot
  /\ \A t \in Staged : [t EXCEPT !.chunks = 0] \in Staged
  /\ \A t \in Staged : t.chunks < Chunks => [t EXCEPT !.chunks = @ + 1] \in Staged
  /\ \A s \in Snapshot : [of |-> s, chunks |-> 0] \in Staged
BY SyncAssumption, SMT DEF Staged, Cleared, Whole

LEMMA AppStarts == Init => AppInv
<1> SUFFICES ASSUME Init PROVE AppInv
  OBVIOUS
<1>1. StoreInv
  BY StoreStarts DEF Init
<1>2. SyncTypeOK
  BY StagedFacts, Ranges DEF Init, SyncInit, SyncTypeOK
<1>3. AppTypeOK
  BY <1>2, StagedFacts, Ranges DEF Init, AppInit, AppTypeOK
<1>4. PassInv
  BY DEF Init, SyncInit, AppInit, StoreInit, PassInv
<1> QED
  BY <1>1, <1>3, <1>4 DEF AppInv

\* A new activity, with the chip restarted: nothing of a pass is left.
LEMMA ResetKeeps ==
  ASSUME AppInv, NewActivity, SyncReset, phase' \in {"off", "idle"},
         mode' \in {"asleep", "elsewhere"}, sleepScreen' \in Screens,
         panel' \in Snapshot \cup {None, Other}, dropped' \in BOOLEAN
  PROVE  AppTypeOK' /\ PassInv'
<1>1. AppTypeOK'
  BY StagedFacts, Ranges DEF AppTypeOK, SyncTypeOK, NewActivity, SyncReset
<1>2. PassInv'
  BY DEF NewActivity, SyncReset, PassInv, Accepted
<1> QED
  BY <1>1, <1>2

\* A step that leaves the store and the pass alone.
LEMMA QuietKeeps ==
  ASSUME AppInv, UNCHANGED storeVars, AppTypeOK', acknowledged' = acknowledged,
         \/ UNCHANGED <<step, taken, result>>
         \/ step # "saving" /\ step' \in {"poll", "copy", "save", "due"}
  PROVE  PassInv'
BY DEF AppInv, PassInv, storeVars, Accepted

\* The host task.
LEMMA HostKeeps ==
  ASSUME AppInv, HostStep, UNCHANGED <<storeVars, appVars, deviceVars>>
  PROVE  AppTypeOK' /\ PassInv'
<1>1. SyncTypeOK' /\ acknowledged' = acknowledged
  <2> USE StagedFacts DEF AppInv, AppTypeOK, SyncTypeOK
  <2>1. CASE OnConnect \/ OnDisconnect \/ OnPairing \/ RefuseWrite
    BY <2>1 DEF OnConnect, OnDisconnect, OnPairing, RefuseWrite
  <2>2. CASE \E s \in Snapshot : ControlBegin(s)
    BY <2>2 DEF ControlBegin
  <2>3. CASE DataWrite
    BY <2>3 DEF DataWrite
  <2>4. CASE ControlCommit \/ ControlCancel
    BY <2>4 DEF ControlCommit, ControlCancel
  <2> QED BY <2>1, <2>2, <2>3, <2>4 DEF HostStep
<1>2. AppTypeOK'
  BY <1>1 DEF AppInv, AppTypeOK, appVars, deviceVars
<1> QED
  BY <1>1, <1>2, QuietKeeps DEF appVars

\* begin and end of the service.
LEMMA RadioCalls ==
  ASSUME AppInv, Begin \/ End
  PROVE  SyncTypeOK' /\ acknowledged' = acknowledged
BY StagedFacts DEF AppInv, AppTypeOK, SyncTypeOK, Begin, End, syncVars

\* The app's steps on the store are the store's own: what it saves is a
\* snapshot, since it came whole.
LEMMA StepsOfTheStore == AppInv /\ [Next]_vars => [StoreNext]_storeVars
<1> SUFFICES ASSUME AppInv, [Next]_vars PROVE [StoreNext]_storeVars
  OBVIOUS
<1> USE DEF StoreNext
<1>1. CASE StartSave
  <2>1. CASE Whole(taken)
    <3>1. taken.of \in Snapshot /\ Save(taken.of)
      BY <1>1, <2>1, StagedFacts DEF StartSave, AppInv, AppTypeOK
    <3> QED BY <3>1
  <2>2. CASE ~Whole(taken)
    BY <1>1, <2>2 DEF StartSave
  <2> QED BY <2>1, <2>2
<1>2. CASE SaveGoesOn
  BY <1>2 DEF SaveGoesOn
<1>3. CASE SleepDue \/ Overflow \/ WindowOver \/ GoToSleep
  BY <1>3 DEF SleepDue, Overflow, WindowOver, GoToSleep, PowerDown
<1>4. CASE LosePower
  BY <1>4 DEF LosePower
<1>5. CASE Boot
  BY <1>5 DEF Boot
<1>6. CASE NothingToTake \/ Take \/ Copy \/ Answer \/ NothingDue
  BY <1>6 DEF NothingToTake, Take, Copy, Answer, NothingDue
<1>7. CASE \/ WeatherAccepted \/ WindowElapses \/ DelayElapses \/ Leave \/ SetAsSleepScreen
           \/ Retry \/ ChangeSettings \/ TimerWake \/ UserWake \/ OpenApp
  BY <1>7 DEF WeatherAccepted, WindowElapses, DelayElapses, Leave, SetAsSleepScreen,
              Retry, ChangeSettings, TimerWake, UserWake, OpenApp
<1>8. CASE HostStep /\ UNCHANGED <<storeVars, appVars, deviceVars>>
  BY <1>8
<1>9. CASE UNCHANGED vars
  BY <1>9 DEF vars
<1> QED
  BY <1>1, <1>2, <1>3, <1>4, <1>5, <1>6, <1>7, <1>8, <1>9 DEF Next, PassStep

\* The steps of a pass, and the calls around it, that leave the store alone and
\* keep what was acknowledged.
LEMMA QuietSteps ==
  ASSUME AppInv,
         \/ NothingToTake \/ Take \/ Copy \/ NothingDue \/ WeatherAccepted
         \/ WindowElapses \/ DelayElapses \/ Leave \/ SetAsSleepScreen \/ Retry
         \/ ChangeSettings \/ TimerWake \/ UserWake \/ OpenApp
  PROVE  AppTypeOK' /\ PassInv'
<1>0. AppTypeOK /\ PassInv /\ StoreTypeOK
  BY DEF AppInv, StoreInv
<1> USE <1>0, StagedFacts, Ranges
<1>1. CASE NothingToTake \/ Take \/ Copy \/ NothingDue
  <2>1. AppTypeOK' /\ acknowledged' = acknowledged
    <3>1. CASE NothingToTake \/ NothingDue
      BY <3>1 DEF NothingToTake, NothingDue, AppTypeOK, SyncTypeOK, syncVars, deviceVars
    <3>2. CASE Take
      <4>1. /\ UNCHANGED <<syncState, active, linked, staging, acknowledged, deviceVars>>
            /\ UNCHANGED <<window, automaticSleep, refresh, nested, taken, result>>
            /\ step' = "copy" /\ snapshotReady' \in BOOLEAN
        BY <3>2, Zenon DEF Take, TakeExchange
      <4> QED BY <4>1 DEF AppTypeOK, SyncTypeOK, deviceVars
    <3>3. CASE Copy
      BY <3>3 DEF Copy, AppTypeOK, SyncTypeOK, syncVars, deviceVars
    <3> QED BY <1>1, <3>1, <3>2, <3>3
  <2>2. step # "saving" /\ step' \in {"poll", "copy", "save", "due"} /\ UNCHANGED storeVars
    BY <1>1 DEF NothingToTake, Take, Copy, NothingDue, Polling, Due
  <2> QED BY <2>1, <2>2, QuietKeeps
<1>2. CASE WeatherAccepted \/ WindowElapses \/ DelayElapses \/ SetAsSleepScreen
           \/ ChangeSettings \/ UserWake
  <2>1. AppTypeOK'
    BY <1>2 DEF WeatherAccepted, WindowElapses, DelayElapses, SetAsSleepScreen, ChangeSettings,
                UserWake, FinishAutomaticSync, AppTypeOK, SyncTypeOK, Screens,
                appVars, syncVars, deviceVars
  <2>2. acknowledged' = acknowledged /\ UNCHANGED <<storeVars, step, taken, result>>
    BY <1>2 DEF WeatherAccepted, WindowElapses, DelayElapses, SetAsSleepScreen, ChangeSettings,
                UserWake, appVars, syncVars
  <2> QED BY <2>1, <2>2, QuietKeeps
<1>3. CASE Leave \/ TimerWake \/ OpenApp
  <2>1. SyncTypeOK' /\ acknowledged' = acknowledged
    BY <1>3, RadioCalls DEF Leave, TimerWake, OpenApp
  <2>2. AppTypeOK'
    BY <1>3, <2>1 DEF Leave, TimerWake, OpenApp, NewActivity, AppTypeOK, StoreTypeOK
  <2>3. step # "saving" /\ step' = "poll" /\ UNCHANGED storeVars
    BY <1>3 DEF Leave, TimerWake, OpenApp, NewActivity, Polling, PassInv
  <2> QED BY <2>1, <2>2, <2>3, QuietKeeps
<1>4. CASE Retry
  <2>1. SyncTypeOK' /\ acknowledged' = acknowledged
    BY <1>4, RadioCalls DEF Retry
  <2>2. AppTypeOK'
    BY <1>4, <2>1 DEF Retry, AppTypeOK, deviceVars
  <2> QED BY <1>4, <2>1, <2>2, QuietKeeps DEF Retry
<1> QED
  BY <1>1, <1>2, <1>3, <1>4

\* The ends of a pass that go to sleep, restart the chip or close the radio.
LEMMA EndingSteps ==
  ASSUME AppInv, SleepDue \/ Overflow \/ WindowOver \/ GoToSleep \/ LosePower
  PROVE  AppTypeOK' /\ PassInv'
<1>0. AppTypeOK /\ PassInv /\ StoreTypeOK
  BY DEF AppInv, StoreInv
<1>1. CASE SyncReset /\ NewActivity
  <2>1. phase' = "off" /\ mode' \in {"asleep", "elsewhere"} /\ dropped' \in BOOLEAN
    BY <1>0, <1>1 DEF SleepDue, Overflow, WindowOver, GoToSleep, LosePower, PowerDown,
                      PaintSleepScreen, Sleep, Crash, AppTypeOK, SyncReset, NewActivity, Due
  <2>2. sleepScreen' \in Screens /\ panel' \in Snapshot \cup {None, Other}
    BY <1>0, <1>1 DEF SleepDue, Overflow, WindowOver, GoToSleep, LosePower, PaintSleepScreen,
                      AppTypeOK, StoreTypeOK, NewActivity, deviceVars
  <2> QED BY <1>1, <2>1, <2>2, ResetKeeps
<1>2. CASE /\ Due /\ step' = "poll" /\ End
           /\ UNCHANGED <<storeVars, deviceVars, automaticSleep, refresh, taken, result>>
           /\ window' \in {window, "expired"}
           /\ nested' \in {nested, nested + 1} /\ (nested' # nested => nested < StackDepth)
  <2>1. SyncTypeOK' /\ acknowledged' = acknowledged
    BY <1>2, RadioCalls
  <2>2. AppTypeOK'
    BY <1>0, <1>2, <2>1, Ranges DEF AppTypeOK, deviceVars
  <2> QED BY <1>2, <2>1, <2>2, QuietKeeps DEF Due
<1>3. CASE SleepDue
  BY <1>1, <1>2, <1>3 DEF SleepDue, PowerDown
<1>4. CASE WindowOver
  BY <1>1, <1>2, <1>4 DEF WindowOver, PowerDown
<1>5. CASE Overflow \/ GoToSleep \/ LosePower
  BY <1>1, <1>5 DEF Overflow, GoToSleep, LosePower, PowerDown
<1> QED
  BY <1>3, <1>4, <1>5

\* The save of a pass, from the copy of what was staged to the answer.
LEMMA SavingSteps ==
  ASSUME AppInv, StartSave \/ SaveGoesOn \/ Answer \/ Boot,
         StoreTypeOK'
  PROVE  AppTypeOK' /\ PassInv'
<1>0. AppTypeOK /\ PassInv /\ StoreTypeOK /\ FlightInv
  BY DEF AppInv, StoreInv
<1> USE <1>0, StagedFacts, Ranges, SnapshotFacts
<1>1. CASE StartSave
  <2>1. AppTypeOK'
    BY <1>1 DEF StartSave, AppTypeOK, SyncTypeOK, syncVars, deviceVars
  <2>2. acknowledged' = acknowledged /\ taken' = taken /\ step = "save"
    BY <1>1 DEF StartSave, syncVars
  <2>3. CASE ~Whole(taken)
    <3>1. step' = "answer" /\ result' = "Error" /\ UNCHANGED storeVars
      BY <1>1, <2>3 DEF StartSave
    <3> QED BY <2>1, <2>2, <3>1 DEF PassInv, Accepted, storeVars
  <2>4. CASE Whole(taken)
    <3>1. Save(taken.of) /\ taken.of \in Snapshot /\ ram' = ram /\ phase = "idle"
      BY <1>1, <2>4 DEF StartSave, AppTypeOK, Save
    <3>2. CASE phase' = "write"
      <4>1. step' = "saving" /\ incoming' = taken.of
        BY <1>1, <2>4, <3>1, <3>2 DEF StartSave, Save
      <4>2. Whole(taken')
        BY <2>2, <2>4
      <4> QED BY <2>1, <2>2, <3>1, <3>2, <4>1, <4>2 DEF PassInv, Whole
    <3>3. CASE phase' # "write"
      <4>1. phase' = "idle"
        BY <3>1, <3>3 DEF Save
      <4>2. step' = "answer" /\ (result' = IF ram = taken.of THEN "Unchanged" ELSE "Stale")
        BY <1>1, <2>4, <3>3 DEF StartSave
      <4> QED BY <2>1, <2>2, <3>1, <4>1, <4>2 DEF PassInv, Accepted
    <3> QED BY <3>2, <3>3
  <2> QED BY <2>3, <2>4
<1>2. CASE SaveGoesOn
  <2>1. AppTypeOK'
    BY <1>2 DEF SaveGoesOn, AppTypeOK, SyncTypeOK, syncVars, deviceVars
  <2>2. /\ acknowledged' = acknowledged /\ taken' = taken /\ step = "saving"
        /\ Whole(taken) /\ incoming = taken.of /\ taken.of \in Snapshot
    BY <1>2 DEF SaveGoesOn, syncVars, PassInv, AppTypeOK
  <2>3. /\ phase' \in {"drop", "aside", "install", "restore", "clean", "idle"}
        /\ phase' # "idle" => incoming' = incoming /\ ram' = ram
        /\ ram' = ram \/ ram' = incoming
    BY <1>2 DEF SaveGoesOn, WriteTemp, DropBackup, MoveAside, Install, Restore, CleanUp, Return
  <2>4. acknowledged # 0 => ram' # None /\ ram'.sequence >= acknowledged
    <3> SUFFICES ASSUME acknowledged # 0 PROVE ram' # None /\ ram'.sequence >= acknowledged
      OBVIOUS
    <3>1. ram \in Snapshot /\ ram.sequence >= acknowledged /\ acknowledged \in Nat
      BY StoreAssumption, SMT DEF PassInv, StoreTypeOK, AppTypeOK, SyncTypeOK
    <3>2. incoming \in Snapshot /\ incoming.sequence >= ram.sequence
      BY <2>2, <3>1 DEF FlightInv, PassInv
    <3>3. ram.sequence \in Nat /\ incoming.sequence \in Nat
      BY <3>1, <3>2
    <3>4. incoming.sequence >= acknowledged
      BY <3>1, <3>2, <3>3, SMT
    <3> QED BY <2>3, <3>1, <3>2, <3>4
  <2>5. CASE phase' = "idle"
    <3>1. step' = "answer" /\ (result' = IF ram' = taken.of THEN "Updated" ELSE "Error")
      BY <1>2, <2>5 DEF SaveGoesOn
    <3> QED BY <2>1, <2>2, <2>4, <2>5, <3>1 DEF PassInv, Accepted
  <2>6. CASE phase' # "idle"
    <3>1. step' = "saving" /\ incoming' = taken'.of /\ Whole(taken')
      BY <1>2, <2>2, <2>3, <2>6 DEF SaveGoesOn
    <3> QED BY <2>1, <2>2, <2>3, <2>4, <2>6, <3>1 DEF PassInv, Whole
  <2> QED BY <2>5, <2>6
<1>3. CASE Answer
  <2>1. Accepted => taken.of \in Snapshot /\ ram = taken.of
    BY <1>3 DEF Answer, PassInv
  <2>2. /\ UNCHANGED storeVars /\ step = "answer" /\ step' = "due"
        /\ acknowledged' = IF Accepted THEN taken.of.sequence ELSE acknowledged
    BY <1>3 DEF Answer, Acknowledge
  <2>3. SyncTypeOK'
    BY <1>3, <2>1 DEF Answer, Acknowledge, SyncTypeOK, AppTypeOK
  <2>4. AppTypeOK'
    BY <1>3, <2>1, <2>3 DEF Answer, FinishAutomaticSync, AppTypeOK, Accepted
  <2>5. acknowledged' # 0 => ram # None /\ ram.sequence >= acknowledged'
    BY <2>1, <2>2 DEF PassInv
  <2> QED BY <2>2, <2>4, <2>5 DEF PassInv, storeVars
<1>4. CASE Boot
  <2>1. AppTypeOK' /\ acknowledged' = acknowledged /\ UNCHANGED <<step, taken, result>>
    BY <1>4 DEF Boot, AppTypeOK, SyncTypeOK, syncVars, appVars, deviceVars
  <2>2. phase = "off" /\ phase' = "idle" /\ ram = None
    BY <1>4 DEF Boot, Load, FlightInv
  <2> QED BY <2>1, <2>2 DEF PassInv, Accepted
<1> QED
  BY <1>1, <1>2, <1>3, <1>4

LEMMA AppStep == AppInv /\ [Next]_vars => AppInv'
<1>1. AppInv /\ [Next]_vars => StoreInv'
  BY StepsOfTheStore, StoreStep DEF AppInv
<1> SUFFICES ASSUME AppInv, [Next]_vars PROVE AppTypeOK' /\ PassInv'
  BY <1>1 DEF AppInv
<1>2. CASE HostStep /\ UNCHANGED <<storeVars, appVars, deviceVars>>
  BY <1>2, HostKeeps
<1>3. CASE \/ NothingToTake \/ Take \/ Copy \/ NothingDue \/ WeatherAccepted
           \/ WindowElapses \/ DelayElapses \/ Leave \/ SetAsSleepScreen \/ Retry
           \/ ChangeSettings \/ TimerWake \/ UserWake \/ OpenApp
  BY <1>3, QuietSteps
<1>4. CASE SleepDue \/ Overflow \/ WindowOver \/ GoToSleep \/ LosePower
  BY <1>4, EndingSteps
<1>5. CASE StartSave \/ SaveGoesOn \/ Answer \/ Boot
  BY <1>1, <1>5, SavingSteps DEF StoreInv
<1>6. CASE UNCHANGED vars
  BY <1>6 DEF vars, storeVars, syncVars, appVars, deviceVars, AppInv, AppTypeOK, SyncTypeOK,
              PassInv, Accepted, Whole
<1> QED
  BY <1>2, <1>3, <1>4, <1>5, <1>6 DEF Next, PassStep

LEMMA AppHolds ==
  AppInv => /\ TypeOK /\ AckedSurvives /\ RamIsStored
            /\ AcknowledgedIsStored /\ SavedCameWhole
<1> SUFFICES ASSUME AppInv
             PROVE  /\ TypeOK /\ AckedSurvives /\ RamIsStored
                    /\ AcknowledgedIsStored /\ SavedCameWhole
  OBVIOUS
<1>1. TypeOK /\ AckedSurvives /\ RamIsStored
  BY TypeSplit, StoreHolds DEF AppInv, StoreInv
<1>2. SavedCameWhole
  BY DEF AppInv, PassInv, SavedCameWhole
<1>3. AcknowledgedIsStored
  BY <1>1 DEF AppInv, PassInv, RamIsStored, AcknowledgedIsStored
<1> QED
  BY <1>1, <1>2, <1>3

LEMMA AppAlways == Spec => []AppInv
BY AppStarts, AppStep, PTL DEF Spec

\* Every variable stays within its range, however the phone's transfers, the
\* main loop, saves and power losses fall together.
THEOREM DashboardTypeCorrect == Spec => []TypeOK
<1>1. AppInv => TypeOK
  BY AppHolds
<1> QED
  BY <1>1, AppAlways, PTL

\* The calendar app, with all it does around a save, uses the store as the
\* store is specified to be used: it implements StoreSpec.
THEOREM AppUsesStore == Spec => StoreSpec
<1>1. Init => StoreInit
  BY DEF Init
<1> QED
  BY <1>1, AppAlways, StepsOfTheStore, PTL DEF Spec, StoreSpec

\* One crash or failed card operation leaves what save last told its caller is
\* stored, or something newer.
THEOREM AppKeepsAcked == Spec => []AckedSurvives
<1>1. AppInv => AckedSurvives
  BY AppHolds
<1> QED
  BY <1>1, AppAlways, PTL

\* The snapshot the app has in RAM for display is the one a restart would show,
\* also after a save that failed.
THEOREM AppDisplaysStored == Spec => []RamIsStored
<1>1. AppInv => RamIsStored
  BY AppHolds
<1> QED
  BY <1>1, AppAlways, PTL

\* What the phone was told is stored is on the card, with at most one fault.
THEOREM PhoneIsToldTruth == Spec => []AcknowledgedIsStored
<1>1. AppInv => AcknowledgedIsStored
  BY AppHolds
<1> QED
  BY <1>1, AppAlways, PTL

\* A transfer that starts again during the copy of takeSnapshot is never saved.
THEOREM OnlyWholeIsSaved == Spec => []SavedCameWhole
<1>1. AppInv => SavedCameWhole
  BY AppHolds
<1> QED
  BY <1>1, AppAlways, PTL
-----------------------------------------------------------------------------
(* The sleep screen.                                                       *)
(*                                                                         *)
(* The panel of a sleeping device was painted from RAM, which was then     *)
(* what the card held (IdleRam).  An automatic wake does not paint: what   *)
(* it leaves must still be on the card when the device sleeps again.  That *)
(* holds from one operation of writeSnapshot to the next as long as no     *)
(* save went through, and a save that did leaves a refresh pending.        *)

\* The panel shows x, or the empty page of a read that failed.
Kept(x) == panel = x \/ (faults = 1 /\ panel = None)

\* No refresh is due: neither pending, nor about to be.
Watched ==
  /\ mode \in {"asleep", "automatic"} /\ sleepScreen = "calendar" /\ ~dropped
  /\ ~refresh /\ ~(step = "answer" /\ result = "Updated")
  /\ faults \in {0, 1}

\* Where the copy is that the panel shows.
PanelInv ==
  Watched =>
    /\ phase \in {"off", "idle", "write", "drop", "restore"} => Kept(Stored)
    /\ phase \in {"aside", "install"} => (main # None => Kept(main))
    /\ phase = "aside" /\ faults = 0 => Kept(main)
    /\ phase = "install" /\ faults = 0 => Kept(bak)

\* Only an automatic wake arms the automatic sleep.
SleepInv ==
  /\ mode # "automatic" => automaticSleep = "unset" /\ ~refresh
  /\ mode = "asleep" => step = "poll"

\* What GoToSleep paints.
LEMMA IdleRam ==
  ASSUME StoreInv, phase = "idle", faults \in {0, 1}
  PROVE  ram = Stored \/ (faults = 1 /\ ram = None)
BY FaultCount DEF StoreInv, CalmInv, FaultInv, WasRam, Stored, Usable

\* One operation of writeSnapshot.
LEMMA SaveKeepsPanel ==
  ASSUME AppInv, PanelInv, SaveGoesOn
  PROVE  PanelInv'
<1> SUFFICES ASSUME Watched' PROVE PanelInv'
  BY DEF PanelInv
<1>0. /\ StoreTypeOK /\ FlightInv /\ CalmInv /\ FaultInv /\ PassInv
  BY DEF AppInv, StoreInv
<1>1. /\ step = "saving" /\ UNCHANGED <<mode, sleepScreen, panel, dropped, refresh, taken>>
      /\ WriteTemp \/ DropBackup \/ MoveAside \/ Install \/ Restore \/ CleanUp
      /\ phase' = "idle" => step' = "answer" /\ (result' = IF ram' = taken.of THEN "Updated" ELSE "Error")
  BY DEF SaveGoesOn, deviceVars
<1>2. faults' \in {0, 1} /\ faults \in {0, 1}
  <2>1. faults' = faults \/ faults' = faults + 1 \/ faults' = faults + 2
    BY <1>1 DEF WriteTemp, DropBackup, MoveAside, Install, Restore, CleanUp, Fault, NoFault
  <2>2. faults \in Nat /\ faults' \in {0, 1}
    BY <1>0, StoreAssumption DEF StoreTypeOK, Watched
  <2> QED BY <2>1, <2>2, SMT
<1>3. Watched
  BY <1>1, <1>2 DEF Watched
<1>4. /\ Fault => faults = 0 /\ faults' = 1
      /\ NoFault => faults' = faults
      /\ faults' # faults + 2
      /\ main # Torn /\ bak # Torn
  BY <1>0, <1>2, FaultCount DEF NoFault
<1>5. ~(phase' = "idle" /\ ram' = incoming)
  BY <1>0, <1>1 DEF Watched, PassInv
<1> USE <1>0, <1>1, <1>2, <1>3, <1>4 DEF PanelInv, Kept, Stored, Usable, Written, Return, files
<1>6. CASE WriteTemp
  BY <1>6 DEF WriteTemp
<1>7. CASE DropBackup
  BY <1>7 DEF DropBackup, CalmInv
<1>8. CASE MoveAside
  BY <1>8 DEF MoveAside, CalmInv, FaultInv
<1>9. CASE Install
  BY <1>9 DEF Install, CalmInv, FaultInv
<1>10. CASE Restore
  BY <1>10 DEF Restore, CalmInv, FaultInv
<1>11. CASE CleanUp
  BY <1>5, <1>11 DEF CleanUp
<1> QED
  BY <1>6, <1>7, <1>8, <1>9, <1>10, <1>11

\* A step that leaves the card, the panel and the phase of a save as they are.
LEMMA StillKept ==
  ASSUME PanelInv, UNCHANGED <<files, phase, panel>>, faults' = faults, Watched' => Watched
  PROVE  PanelInv'
BY DEF PanelInv, Kept, Stored, files

\* The rest of a pass: a save that went through makes the refresh due before
\* its result is forgotten.
LEMMA PassKeepsPanel ==
  ASSUME AppInv, PanelInv, SleepInv,
         \/ NothingToTake \/ Take \/ Copy \/ StartSave \/ SaveGoesOn \/ Answer \/ NothingDue
         \/ WeatherAccepted \/ WindowElapses \/ DelayElapses
         \/ HostStep /\ UNCHANGED <<storeVars, appVars, deviceVars>>
  PROVE  PanelInv' /\ SleepInv'
<1>0. AppTypeOK
  BY DEF AppInv
<1> USE <1>0 DEF appVars, deviceVars, storeVars, files
<1>1. CASE NothingToTake \/ Take \/ Copy \/ NothingDue
  <2>1. /\ UNCHANGED <<files, phase, panel, faults, mode, sleepScreen, dropped, refresh, result>>
        /\ step # "answer" /\ automaticSleep' = automaticSleep
        /\ mode = "asleep" => step' = "poll"
    BY <1>1 DEF NothingToTake, Take, Copy, NothingDue, Polling, Due, Running, SleepInv
  <2> QED BY <2>1, StillKept DEF Watched, SleepInv
<1>2. CASE WindowElapses \/ DelayElapses
  <2>1. /\ UNCHANGED <<files, phase, panel, faults, mode, sleepScreen, dropped, refresh, result, step>>
        /\ automaticSleep' = automaticSleep \/ automaticSleep = "ahead"
    BY <1>2 DEF WindowElapses, DelayElapses
  <2> QED BY <2>1, StillKept DEF Watched, SleepInv
<1>3. CASE HostStep /\ UNCHANGED <<storeVars, appVars, deviceVars>>
  <2>1. UNCHANGED <<files, phase, panel, faults, mode, sleepScreen, dropped, refresh, result, step,
                    automaticSleep>>
    BY <1>3
  <2> QED BY <2>1, StillKept DEF Watched, SleepInv
<1>4. CASE WeatherAccepted
  <2>1. /\ UNCHANGED <<files, phase, panel, faults, mode, sleepScreen, dropped, result, step>>
        /\ refresh => refresh' /\ mode = "automatic"
    BY <1>4 DEF WeatherAccepted, FinishAutomaticSync, AppTypeOK
  <2> QED BY <1>4, <2>1, StillKept DEF Watched, SleepInv, WeatherAccepted
<1>5. CASE StartSave
  <2>1. /\ UNCHANGED <<files, panel, faults, mode, sleepScreen, dropped, refresh, automaticSleep>>
        /\ step = "save" /\ (step' = "saving" \/ result' # "Updated")
        /\ phase' = phase \/ (phase = "idle" /\ phase' = "write")
    BY <1>5 DEF StartSave, Save, NoFault
  <2>2. SleepInv'
    BY <2>1 DEF SleepInv
  <2>3. PanelInv'
    BY <2>1 DEF PanelInv, Watched, Kept, Stored
  <2> QED BY <2>2, <2>3
<1>6. CASE SaveGoesOn
  <2>1. PanelInv'
    BY <1>6, SaveKeepsPanel
  <2>2. UNCHANGED <<mode, automaticSleep, refresh>> /\ step = "saving"
    BY <1>6 DEF SaveGoesOn
  <2> QED BY <2>1, <2>2 DEF SleepInv
<1>7. CASE Answer
  <2>1. CASE mode = "automatic"
    <3>1. /\ UNCHANGED <<files, phase, panel, faults, mode, sleepScreen, dropped>>
          /\ refresh' = (refresh \/ (result = "Updated" /\ sleepScreen = "calendar"))
      BY <1>7, <2>1 DEF Answer, FinishAutomaticSync
    <3>2. Watched' => Watched
      BY <3>1 DEF Watched, AppTypeOK
    <3> QED BY <2>1, <3>1, <3>2, StillKept DEF SleepInv
  <2>2. CASE mode # "automatic"
    <3>1. UNCHANGED <<mode, refresh, automaticSleep>> /\ mode # "asleep"
      BY <1>7, <2>2 DEF Answer, SleepInv
    <3> QED BY <2>2, <3>1 DEF SleepInv, PanelInv, Watched
  <2> QED BY <2>1, <2>2
<1> QED
  BY <1>1, <1>2, <1>3, <1>4, <1>5, <1>6, <1>7

\* Steps of a user, and restarts: the panel is painted anew before it counts.
LEMMA UserKeepsPanel ==
  ASSUME AppInv, PanelInv, SleepInv,
         \/ Overflow \/ Leave \/ SetAsSleepScreen \/ Retry \/ ChangeSettings
         \/ UserWake \/ OpenApp \/ LosePower
  PROVE  PanelInv' /\ SleepInv'
<1>1. mode' \in {"manual", "elsewhere"}
  BY DEF Overflow, Leave, SetAsSleepScreen, Retry, ChangeSettings, UserWake, OpenApp, LosePower,
         deviceVars
<1>2. automaticSleep' = "unset" /\ ~refresh'
  BY DEF Overflow, Leave, SetAsSleepScreen, Retry, ChangeSettings, UserWake, OpenApp, LosePower,
         appVars, NewActivity, SleepInv, Polling
<1> QED
  BY <1>1, <1>2 DEF PanelInv, SleepInv, Watched

\* Falling asleep, a timer's wake, and the start of the program in between.
LEMMA SleepKeepsPanel ==
  ASSUME AppInv, PanelInv, SleepInv, faults' \in Nat,
         SleepDue \/ WindowOver \/ GoToSleep \/ TimerWake \/ Boot
  PROVE  PanelInv' /\ SleepInv'
<1>0. AppTypeOK /\ StoreTypeOK /\ StoreInv /\ PassInv
  BY DEF AppInv, StoreInv
<1>1. CASE SleepDue
  <2>1. CASE ~refresh /\ PowerDown /\ UNCHANGED <<panel, sleepScreen, dropped>>
    <3>1. /\ UNCHANGED <<files, panel, faults, sleepScreen, dropped>>
          /\ phase \in {"off", "idle"} /\ phase' = "off" /\ mode' = "asleep"
          /\ automaticSleep' = "unset" /\ ~refresh' /\ step' = "poll"
      BY <2>1 DEF PowerDown, Sleep, NewActivity
    <3>2. step = "due" /\ mode = "automatic"
      BY <1>1 DEF SleepDue, Due, SleepInv
    <3> QED BY <2>1, <3>1, <3>2 DEF PanelInv, SleepInv, Watched, Kept, Stored, files
  <2>2. CASE refresh /\ UNCHANGED <<storeVars, deviceVars, automaticSleep, refresh>>
    BY <2>2 DEF PanelInv, SleepInv, Watched, deviceVars
  <2> QED BY <1>1, <2>1, <2>2 DEF SleepDue
<1>2. CASE WindowOver
  <2>1. CASE mode = "automatic" /\ dropped' = (dropped \/ refresh) /\ PowerDown
             /\ UNCHANGED <<panel, sleepScreen>>
    <3>1. /\ UNCHANGED <<files, panel, faults, sleepScreen>>
          /\ phase \in {"off", "idle"} /\ phase' = "off" /\ mode' = "asleep"
          /\ automaticSleep' = "unset" /\ ~refresh' /\ step' = "poll"
      BY <2>1 DEF PowerDown, Sleep, NewActivity
    <3>2. step = "due"
      BY <1>2 DEF WindowOver, Due
    <3> QED BY <2>1, <3>1, <3>2 DEF PanelInv, SleepInv, Watched, Kept, Stored, files
  <2>2. CASE mode = "manual" /\ UNCHANGED <<storeVars, deviceVars, automaticSleep, refresh>>
    BY <2>2 DEF PanelInv, SleepInv, Watched, deviceVars
  <2> QED BY <1>2, <2>1, <2>2 DEF WindowOver
<1>3. CASE GoToSleep
  <2>1. /\ UNCHANGED <<files, faults, sleepScreen>> /\ phase = "idle" /\ phase' = "off"
        /\ mode' = "asleep" /\ automaticSleep' = "unset" /\ ~refresh' /\ step' = "poll"
        /\ sleepScreen = "calendar" => panel' = ram \/ dropped'
    BY <1>3 DEF GoToSleep, PaintSleepScreen, PowerDown, Sleep, NewActivity
  <2>2. faults \in {0, 1} => ram = Stored \/ (faults = 1 /\ ram = None)
    BY <1>0, <2>1, IdleRam
  <2> QED BY <2>1, <2>2 DEF PanelInv, SleepInv, Watched, Kept, Stored, files
<1>4. CASE TimerWake
  <2>1. /\ UNCHANGED <<files, phase, panel, faults, sleepScreen, dropped>>
        /\ mode = "asleep" /\ mode' = "automatic" /\ step' = "poll" /\ ~refresh'
    BY <1>4 DEF TimerWake, NewActivity, storeVars, files
  <2>2. Watched' => Watched
    BY <2>1 DEF Watched, SleepInv
  <2> QED BY <2>1, <2>2, StillKept DEF SleepInv
<1>5. CASE Boot
  <2>1. /\ UNCHANGED <<files, panel, sleepScreen, dropped, mode, automaticSleep, refresh, step, result>>
        /\ phase = "off" /\ phase' = "idle"
        /\ faults' = faults \/ faults' = faults + 1
    BY <1>5 DEF Boot, Load, Fault, NoFault, appVars, deviceVars
  <2>2. faults \in Nat
    BY <1>0, StoreAssumption DEF StoreTypeOK
  <2>3. faults' \in {0, 1} => faults \in {0, 1} /\ (faults = 1 => faults' = 1)
    BY <2>1, <2>2, SMT
  <2> QED BY <2>1, <2>3 DEF PanelInv, SleepInv, Watched, Kept, Stored, files
<1> QED
  BY <1>1, <1>2, <1>3, <1>4, <1>5

LEMMA PanelStarts == Init => PanelInv /\ SleepInv
BY DEF Init, AppInit, PanelInv, SleepInv, Watched

LEMMA PanelStep == AppInv /\ AppInv' /\ PanelInv /\ SleepInv /\ [Next]_vars => PanelInv' /\ SleepInv'
<1> SUFFICES ASSUME AppInv, AppInv', PanelInv, SleepInv, [Next]_vars
             PROVE  PanelInv' /\ SleepInv'
  OBVIOUS
<1>1. CASE \/ NothingToTake \/ Take \/ Copy \/ StartSave \/ SaveGoesOn \/ Answer \/ NothingDue
           \/ WeatherAccepted \/ WindowElapses \/ DelayElapses
           \/ HostStep /\ UNCHANGED <<storeVars, appVars, deviceVars>>
  BY <1>1, PassKeepsPanel, Zenon
<1>2. CASE \/ Overflow \/ Leave \/ SetAsSleepScreen \/ Retry \/ ChangeSettings
           \/ UserWake \/ OpenApp \/ LosePower
  BY <1>2, UserKeepsPanel, Zenon
<1>3. CASE SleepDue \/ WindowOver \/ GoToSleep \/ TimerWake \/ Boot
  <2>1. faults' \in Nat
    BY StoreAssumption DEF AppInv, StoreInv, StoreTypeOK
  <2> QED BY <1>3, <2>1, SleepKeepsPanel, Zenon
<1>4. CASE UNCHANGED vars
  BY <1>4 DEF vars, storeVars, appVars, deviceVars, PanelInv, SleepInv, Watched, Kept, Stored
<1> QED
  BY <1>1, <1>2, <1>3, <1>4, Zenon DEF Next, PassStep

\* While the device sleeps, the calendar page on the panel is the one on the
\* card, or the empty page of one failed read: a save that went through during
\* an automatic wake has had its refresh, unless the window ended before it or
\* there was no memory for the page.
THEOREM PanelShowsStored == Spec => []SleepScreenIsStored
<1>1. AppInv /\ PanelInv /\ SleepInv => SleepScreenIsStored
  <2> SUFFICES ASSUME AppInv, PanelInv, SleepInv, mode = "asleep", sleepScreen = "calendar",
                      ~dropped, faults <= 1
               PROVE  panel = Stored \/ (faults = 1 /\ panel = None)
    BY DEF SleepScreenIsStored
  <2>1. faults \in {0, 1}
    BY StoreAssumption, SMT DEF AppInv, StoreInv, StoreTypeOK
  <2>2. step = "poll" /\ ~refresh /\ phase \in {"off", "idle"}
    BY DEF AppInv, PassInv, SleepInv
  <2> QED BY <2>1, <2>2 DEF PanelInv, Watched, Kept
<1>2. Init => PanelInv /\ SleepInv
  BY PanelStarts
<1>3. AppInv /\ AppInv' /\ PanelInv /\ SleepInv /\ [Next]_vars => (PanelInv /\ SleepInv)'
  BY PanelStep
<1> QED
  BY <1>1, <1>2, <1>3, AppAlways, PTL DEF Spec
===============================================================================
