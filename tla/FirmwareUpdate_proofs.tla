------------------------ MODULE FirmwareUpdate_proofs ------------------------
(***************************************************************************)
(* Proofs about FirmwareUpdate, for any images, any number of blocks, of   *)
(* updates and of faults.                                                  *)
(***************************************************************************)
EXTENDS FirmwareUpdate, TLAPS

Entries == [Slot -> 1 .. MaxSeq + 2 \cup {None, Torn}]

\* What makes TypeOK, AlwaysBoots and UpdateTakes inductive: the running
\* image is whole, otadata selects it until the switch is done, and from the
\* erasing of the entry on the other partition holds the approved image.
UpdateInv ==
  /\ TypeOK
  /\ app[running] \in Image
  /\ step # "done" => Booted = running
  /\ step = "done" => Booted = Dest
  /\ step \in {"erase", "write", "done"} => source \in Image /\ app[Dest] = source
  /\ step \in {"idle", "prompt", "failed"} => source = None
  /\ step = "flash" => source \in Image
  /\ step \in {"stream", "verify"} => source \in Image \cup {Bad}
  /\ step \in {"flash", "stream"} => pos < Blocks
  /\ step \in {"prompt", "flash", "stream", "verify", "erase", "write"} => Room

-----------------------------------------------------------------------------
(* The entries of otadata. *)

\* The active number is a natural number, and 0 only when no entry counts.
LEMMA ActiveSeqNat ==
  ASSUME NEW e \in Entries
  PROVE  /\ Active(e) \in {0, 1, 2}
         /\ ActiveSeq(e) \in 0 .. MaxSeq + 2
         /\ Active(e) # 2 => ActiveSeq(e) = e[Active(e)]
BY UpdateAssumption, SMTT(30) DEF Entries, Slot, Active, ActiveSeq, Valid

\* Spoiling the entry that switchTo rewrites changes nothing for the boot
\* loader: it is not the active one.
LEMMA SpoiltTarget ==
  ASSUME otadata \in Entries, NEW v \in {otadata[TargetSlot], None, Torn},
         otadata' = [otadata EXCEPT ![TargetSlot] = v]
  PROVE  /\ Booted' = Booted
         /\ ActiveSeq(otadata') = ActiveSeq(otadata)
         /\ otadata' \in Entries
<1> DEFINE f == [otadata EXCEPT ![TargetSlot] = v]
<1>1. TargetSlot \in Slot /\ TargetSlot # Active(otadata)
  BY DEF TargetSlot, Slot, Active
<1>2. f \in Entries
  BY <1>1, SMT DEF Entries
<1>3. Active(f) = Active(otadata)
  BY <1>1, UpdateAssumption, SMTT(30) DEF Entries, Slot, Active, Valid, TargetSlot
<1>4. ActiveSeq(f) = ActiveSeq(otadata)
  BY <1>1, <1>3, SMTT(30) DEF Entries, Slot, ActiveSeq, Active
<1> QED
  BY <1>2, <1>3, <1>4 DEF Booted

\* The next number of the right parity.
LEMMA NextOfParity ==
  ASSUME NEW a \in Nat, NEW p \in {0, 1},
         NEW n, n = IF a % 2 = p % 2 THEN a + 1 ELSE a + 2
  PROVE  n \in {a + 1, a + 2} /\ (n - 1) % 2 = p
<1>1. a % 2 \in {0, 1} /\ (a + 1) % 2 = 1 - (a % 2) /\ p % 2 = p
  BY SMT
<1>2. CASE a % 2 = p
  <2>1. n = a + 1 /\ n - 1 = a
    BY <1>1, <1>2, SMT
  <2> QED BY <2>1, <1>2
<1>3. CASE a % 2 # p
  <2>1. n = a + 2 /\ n - 1 = a + 1 /\ 1 - (a % 2) = p
    BY <1>1, <1>3, SMT
  <2> QED BY <1>1, <2>1
<1> QED
  BY <1>2, <1>3

\* The number that switchTo writes is above the active one and starts the
\* partition it is meant for.
LEMMA NextSeqStarts ==
  ASSUME otadata \in Entries, NEW p \in Slot
  PROVE  /\ NextSeq(p) \in {ActiveSeq(otadata) + 1, ActiveSeq(otadata) + 2}
         /\ (NextSeq(p) - 1) % 2 = p
<1>1. ActiveSeq(otadata) \in Nat /\ p \in {0, 1}
  BY ActiveSeqNat, UpdateAssumption DEF Slot
<1> QED
  BY <1>1, NextOfParity, Zenon DEF NextSeq

\* With the new entry written, the boot loader starts the new partition.
LEMMA WrittenTarget ==
  ASSUME otadata \in Entries, running \in Slot, Room,
         otadata' = [otadata EXCEPT ![TargetSlot] = NextSeq(Dest)]
  PROVE  /\ Booted' = Dest
         /\ otadata' \in Entries
<1> DEFINE n == NextSeq(Dest)
           f == [otadata EXCEPT ![TargetSlot] = n]
<1>1. Dest \in Slot
  BY DEF Dest, Slot
<1>2. /\ n \in {ActiveSeq(otadata) + 1, ActiveSeq(otadata) + 2}
      /\ (n - 1) % 2 = Dest
  BY <1>1, NextSeqStarts
<1>3. /\ ActiveSeq(otadata) \in Nat
      /\ ActiveSeq(otadata) <= MaxSeq
      /\ n \in 1 .. MaxSeq + 2 /\ n > ActiveSeq(otadata)
  BY <1>2, ActiveSeqNat, UpdateAssumption, SMT DEF Room
<1>4. TargetSlot \in Slot /\ TargetSlot # Active(otadata)
  BY DEF TargetSlot, Slot, Active
<1> HIDE DEF n
<1>5. f \in Entries
  BY <1>3, <1>4, SMT DEF Entries
<1>6. Active(f) = TargetSlot
  <2>1. f[TargetSlot] = n /\ n \notin {None, Torn}
    BY <1>3, <1>4, UpdateAssumption, SMT DEF Entries
  <2>2. CASE Active(otadata) = 2
    <3>1. TargetSlot = 0 /\ ~Valid(otadata, 1) /\ f[1] = otadata[1]
      BY <2>2, SMT DEF TargetSlot, Active, Entries, Slot
    <3> QED BY <2>1, <3>1 DEF Active, Valid
  <2>3. CASE Active(otadata) = 0
    <3>1. TargetSlot = 1 /\ f[0] = otadata[0] /\ ActiveSeq(otadata) = otadata[0]
      BY <2>3, SMT DEF TargetSlot, ActiveSeq, Entries, Slot
    <3>2. f[1] > f[0] /\ f[1] \in Nat /\ f[0] \in Nat
      BY <2>1, <3>1, <1>3, SMT
    <3> QED BY <2>1, <3>1, <3>2, SMT DEF Active, Valid
  <2>4. CASE Active(otadata) = 1
    <3>1. TargetSlot = 0 /\ f[1] = otadata[1] /\ ActiveSeq(otadata) = otadata[1]
      BY <2>4, SMT DEF TargetSlot, ActiveSeq, Entries, Slot
    <3>2. f[0] > f[1] /\ f[1] \in Nat /\ f[0] \in Nat
      BY <2>1, <3>1, <1>3, SMT
    <3> QED BY <2>1, <3>1, <3>2, SMT DEF Active, Valid
  <2> QED BY <2>2, <2>3, <2>4, ActiveSeqNat
<1>7. ActiveSeq(f) = n
  BY <1>3, <1>4, <1>6, SMT DEF ActiveSeq, Entries, Slot, TargetSlot
<1>8. Active(f) # 2
  BY <1>6, <1>4, SMT DEF Slot
<1> QED
  BY <1>2, <1>5, <1>7, <1>8 DEF Booted, n

-----------------------------------------------------------------------------
(* The invariant. *)

LEMMA UpdateInit == Init => UpdateInv
<1> SUFFICES ASSUME Init PROVE UpdateInv
  OBVIOUS
<1>1. TypeOK
  BY UpdateAssumption, SMT DEF Init, TypeOK, Slot, Step
<1>2. Active(otadata) = 2 /\ ActiveSeq(otadata) = 0
  BY DEF Init, Active, ActiveSeq, Valid, Slot
<1>3. Booted = running
  BY <1>2 DEF Init, Booted
<1> QED
  BY <1>1, <1>3 DEF Init, UpdateInv

\* The partition that is written is not the one that runs.
LEMMA DestIsOther ==
  ASSUME TypeOK
  PROVE  Dest \in Slot /\ Dest # running /\ running \in Slot
BY SMT DEF TypeOK, Dest, Slot

\* Nothing but the partition that does not run changes.
LEMMA RunningKept ==
  ASSUME TypeOK, NEW v \in Image \cup {Torn},
         app' \in {app, [app EXCEPT ![Dest] = v]}
  PROVE  app' \in [Slot -> Image \cup {Torn}] /\ app'[running] = app[running]
BY DestIsOther DEF TypeOK

LEMMA UpdateStep == UpdateInv /\ [Next]_updateVars => UpdateInv'
<1> SUFFICES ASSUME UpdateInv, [Next]_updateVars PROVE UpdateInv'
  OBVIOUS
<1> USE UpdateAssumption
<1>0. TypeOK /\ Dest \in Slot /\ Dest # running /\ running \in Slot /\ otadata \in Entries
  BY DestIsOther DEF UpdateInv, TypeOK, Entries
<1>k. ASSUME UNCHANGED <<otadata, running>>
      PROVE  Booted' = Booted /\ Dest' = Dest /\ Room' = Room
  BY <1>k DEF Booted, Dest, Room, ActiveSeq, Active, Valid
<1>1. CASE SwapCard
  <2>1. TypeOK'
    BY <1>0, <1>1 DEF TypeOK, SwapCard
  <2> QED BY <2>1, <1>1, <1>k DEF UpdateInv, SwapCard
<1>2. CASE Choose
  <2>1. TypeOK'
    BY <1>0, <1>2, SMT DEF TypeOK, Choose, Step, Fault, NoFault
  <2> QED BY <2>1, <1>2, <1>k DEF UpdateInv, Choose
<1>3. CASE Cancel
  <2>1. TypeOK'
    BY <1>0, <1>3 DEF TypeOK, Cancel, Step
  <2> QED BY <2>1, <1>3, <1>k DEF UpdateInv, Cancel
<1>4. CASE Confirm
  <2>1. TypeOK'
    BY <1>0, <1>4, SMT DEF TypeOK, Confirm, Step, Fault, NoFault
  <2> QED BY <2>1, <1>4, <1>k, SMT DEF UpdateInv, Confirm
<1>5. CASE FlashBlock
  <2>1. /\ app' \in [Slot -> Image \cup {Torn}] /\ app'[running] = app[running]
        /\ step' = "erase" => app'[Dest] = source
    <3>1. PICK v \in Image \cup {Torn} : app' \in {app, [app EXCEPT ![Dest] = v]}
      BY <1>5 DEF FlashBlock, UpdateInv
    <3>2. step' = "erase" => app' = [app EXCEPT ![Dest] = source]
      BY <1>5 DEF FlashBlock, Fails
    <3> QED BY <1>0, <3>1, <3>2, RunningKept DEF TypeOK
  <2>2. TypeOK'
    BY <1>0, <1>5, <2>1, SMT DEF UpdateInv, TypeOK, FlashBlock, Fails, Step, Fault, NoFault
  <2>3. step' \in {"flash", "erase", "failed"}
    BY <1>5 DEF FlashBlock, Fails
  <2>4. step' = "flash" => pos' < Blocks
    BY <1>5, SMT DEF FlashBlock, UpdateInv, Fails, TypeOK
  <2> QED BY <2>1, <2>2, <2>3, <2>4, <1>5, <1>k, SMT DEF UpdateInv, FlashBlock, Fails
<1>6. CASE StartDownload
  <2>1. app' \in [Slot -> Image \cup {Torn}] /\ app'[running] = app[running]
    BY <1>0, <1>6, RunningKept DEF StartDownload
  <2>2. TypeOK'
    BY <1>0, <1>6, <2>1, SMT DEF TypeOK, StartDownload, Fails, Step, Fault, NoFault
  <2> QED BY <2>1, <2>2, <1>6, <1>k, SMT DEF UpdateInv, StartDownload, Fails
<1>7. CASE DownloadBlock
  <2>1. TypeOK'
    BY <1>0, <1>7, SMT DEF UpdateInv, TypeOK, DownloadBlock, Fails, Step, Fault, NoFault
  <2>2. step' \in {"stream", "verify", "failed"}
    BY <1>7 DEF DownloadBlock, Fails
  <2>3. step' = "stream" => pos' < Blocks
    BY <1>7, SMT DEF DownloadBlock, UpdateInv, Fails, TypeOK
  <2> QED BY <2>1, <2>2, <2>3, <1>7, <1>k, SMT DEF UpdateInv, DownloadBlock, Fails
<1>8. CASE DownloadEnds
  <2>1. /\ app' \in [Slot -> Image \cup {Torn}] /\ app'[running] = app[running]
        /\ step' = "erase" => app'[Dest] = source
    <3>1. CASE UNCHANGED app /\ Fails
      BY <1>0, <3>1, RunningKept DEF Fails, TypeOK
    <3>2. CASE source \in Image /\ app' = [app EXCEPT ![Dest] = source]
      BY <1>0, <3>2, RunningKept DEF TypeOK
    <3> QED BY <1>8, <3>1, <3>2 DEF DownloadEnds
  <2>2. TypeOK'
    BY <1>0, <1>8, <2>1, SMT DEF TypeOK, DownloadEnds, Fails, Step, Fault, NoFault
  <2> QED BY <2>1, <2>2, <1>8, <1>k, SMT DEF UpdateInv, DownloadEnds, Fails
<1>9. CASE SwitchErase
  <2>1. PICK v \in {otadata[TargetSlot], None, Torn} :
           otadata' = [otadata EXCEPT ![TargetSlot] = v]
    BY <1>9 DEF SwitchErase
  <2>2. Booted' = Booted /\ ActiveSeq(otadata') = ActiveSeq(otadata) /\ otadata' \in Entries
    BY <1>0, <2>1, SpoiltTarget
  <2>3. TypeOK'
    BY <1>0, <1>9, <2>2, SMT DEF TypeOK, SwitchErase, Fails, Step, Entries, Fault, NoFault
  <2>4. Room' /\ Dest' = Dest
    BY <1>9, <2>2 DEF UpdateInv, SwitchErase, Room, Dest
  <2> QED BY <2>2, <2>3, <2>4, <1>9, SMT DEF UpdateInv, SwitchErase, Fails
<1>10. CASE SwitchWrite
  <2>1. CASE NoFault /\ step' = "done" /\ UNCHANGED source
             /\ otadata' = [otadata EXCEPT ![TargetSlot] = NextSeq(Dest)]
    <3>1. Booted' = Dest /\ otadata' \in Entries
      BY <1>0, <1>10, <2>1, WrittenTarget DEF UpdateInv, SwitchWrite
    <3>2. TypeOK'
      BY <1>0, <1>10, <2>1, <3>1, SMT DEF TypeOK, SwitchWrite, Step, Entries, NoFault
    <3>3. Dest' = Dest
      BY <1>10 DEF SwitchWrite, Dest
    <3> QED BY <3>1, <3>2, <3>3, <2>1, <1>10, SMT DEF UpdateInv, SwitchWrite
  <2>2. CASE Fault /\ Fails /\ \E e \in {None, Torn} :
                 otadata' = [otadata EXCEPT ![TargetSlot] = e]
    <3>1. Booted' = Booted /\ otadata' \in Entries
      BY <1>0, <2>2, SpoiltTarget
    <3>2. TypeOK'
      BY <1>0, <1>10, <2>2, <3>1, SMT DEF TypeOK, SwitchWrite, Fails, Step, Entries, Fault
    <3> QED BY <3>1, <3>2, <2>2, <1>10, SMT DEF UpdateInv, SwitchWrite, Fails
  <2> QED BY <1>10, <2>1, <2>2 DEF SwitchWrite
<1>11. CASE Restart
  <2>1. Booted' = Booted /\ Booted = Dest
    BY <1>11 DEF UpdateInv, Restart, Booted, ActiveSeq, Active, Valid
  <2>2. TypeOK'
    BY <1>0, <1>11, <2>1, SMT DEF TypeOK, Restart, Step
  <2> QED BY <1>0, <2>1, <2>2, <1>11, SMT DEF UpdateInv, Restart
<1>12. CASE Dismiss
  <2>1. TypeOK'
    BY <1>0, <1>12 DEF TypeOK, Dismiss, Step
  <2> QED BY <2>1, <1>12, <1>k DEF UpdateInv, Dismiss
<1>13. CASE PowerLoss
  <2>1. Booted' = Booted /\ otadata' \in Entries
    <3>1. CASE otadata' = otadata
      BY <1>0, <3>1 DEF Booted, ActiveSeq, Active, Valid
    <3>2. CASE \E e \in {None, Torn} : otadata' = [otadata EXCEPT ![TargetSlot] = e]
      BY <1>0, <3>2, SpoiltTarget
    <3> QED BY <1>13, <3>1, <3>2 DEF PowerLoss
  <2>2. Booted \in Slot /\ app[Booted] \in Image
    BY <1>0 DEF UpdateInv
  <2>3. app' \in [Slot -> Image \cup {Torn}] /\ app'[Booted] = app[Booted]
    <3>1. CASE app' = app
      BY <1>0, <3>1 DEF TypeOK
    <3>2. CASE step \in {"flash", "stream"} /\ app' = [app EXCEPT ![Dest] = Torn]
      BY <1>0, <3>2, RunningKept DEF UpdateInv
    <3> QED BY <1>13, <3>1, <3>2 DEF PowerLoss
  <2>4. TypeOK'
    BY <1>0, <1>13, <2>1, <2>2, <2>3, SMT DEF TypeOK, PowerLoss, Step, Entries, Fault
  <2> QED BY <2>1, <2>2, <2>3, <2>4, <1>13, SMT DEF UpdateInv, PowerLoss
<1>14. CASE UNCHANGED updateVars
  <2>1. TypeOK'
    BY <1>0, <1>14 DEF TypeOK, updateVars
  <2> QED BY <2>1, <1>14, <1>k DEF UpdateInv, updateVars
<1> QED
  BY <1>1, <1>2, <1>3, <1>4, <1>5, <1>6, <1>7, <1>8, <1>9, <1>10, <1>11, <1>12,
     <1>13, <1>14 DEF Next, Work

LEMMA UpdateInvariant == Spec => []UpdateInv
<1>1. UpdateInv /\ [Next]_updateVars => UpdateInv'
  BY UpdateStep
<1> QED
  BY <1>1, UpdateInit, PTL DEF Spec

-----------------------------------------------------------------------------
(* The theorems. *)

\* Every variable of an update keeps its range, for any images and faults.
THEOREM UpdateTypeCorrect == Spec => []TypeOK
<1>1. UpdateInv => TypeOK
  BY DEF UpdateInv
<1> QED
  BY <1>1, UpdateInvariant, PTL

\* However power fails and operations fail, otadata always selects a
\* partition that holds a whole image built for this device.
THEOREM DeviceAlwaysBoots == Spec => []AlwaysBoots
<1>1. UpdateInv => AlwaysBoots
  BY DEF UpdateInv, AlwaysBoots
<1> QED
  BY <1>1, UpdateInvariant, PTL

\* What reported success is what the next start runs, whatever sequence
\* numbers earlier updates left.
THEOREM SuccessTakes == Spec => []UpdateTakes
<1>1. UpdateInv => UpdateTakes
  BY DEF UpdateInv, UpdateTakes
<1> QED
  BY <1>1, UpdateInvariant, PTL

-----------------------------------------------------------------------------
(* The refinement: what a step of an update is to BootTarget. *)

\* BootTarget's approved image.
Approved == IF source \in Image THEN source ELSE None

\* A step that neither switches nor starts the device is an approval, a
\* withdrawal or nothing.
LEMMA QuietStep ==
  ASSUME UpdateInv, UpdateInv', UNCHANGED running, Booted' = Booted,
         step # "done", app'[running] = app[running],
         \/ source' = source
         \/ source' = None
         \/ source = None /\ source' \in Image \cup {Bad}
  PROVE  [Target!Next]_<<app[running], app[Booted], Approved>>
<1>1. Booted = running /\ app'[Booted'] = app[Booted] /\ app'[running'] = app[running]
  BY DEF UpdateInv
<1>2. CASE source' = source
  BY <1>1, <1>2 DEF Approved
<1>3. CASE source' = None
  BY <1>1, <1>3, UpdateAssumption DEF Approved, Target!Next, Target!Withdraw
<1>4. CASE source = None /\ source' \in Image \cup {Bad}
  BY <1>1, <1>4, UpdateAssumption DEF Approved, Target!Next, Target!Approve
<1> QED
  BY <1>2, <1>3, <1>4

\* A start runs what the next start was to run.
LEMMA StartStep ==
  ASSUME running' = Booted, Booted' = Booted, app'[Booted] = app[Booted], source' = None
  PROVE  Target!Start
BY UpdateAssumption DEF Target!Start

LEMMA UpdateSimulates ==
  ASSUME UpdateInv, UpdateInv', [Next]_updateVars
  PROVE  [Target!Next]_<<app[running], app[Booted], Approved>>
<1>0. TypeOK /\ Dest \in Slot /\ Dest # running /\ running \in Slot /\ otadata \in Entries
  BY DestIsOther DEF UpdateInv, TypeOK, Entries
<1>k. ASSUME UNCHANGED otadata
      PROVE  Booted' = Booted
  BY <1>k DEF Booted, ActiveSeq, Active, Valid
<1>1. CASE SwapCard \/ Choose \/ Cancel \/ Dismiss \/ UNCHANGED updateVars
  BY <1>1, <1>k DEF SwapCard, Choose, Cancel, Dismiss, updateVars, Approved
<1>2. CASE Confirm
  BY <1>2, <1>k, QuietStep DEF Confirm, UpdateInv
<1>3. CASE FlashBlock
  <2>1. app'[running] = app[running]
    BY <1>0, <1>3 DEF FlashBlock, TypeOK
  <2> QED BY <2>1, <1>3, <1>k, QuietStep DEF FlashBlock, Fails
<1>4. CASE StartDownload
  <2>1. app'[running] = app[running]
    BY <1>0, <1>4 DEF StartDownload, TypeOK
  <2> QED BY <2>1, <1>4, <1>k, QuietStep DEF StartDownload, Fails, UpdateInv
<1>5. CASE DownloadBlock
  BY <1>5, <1>k, QuietStep DEF DownloadBlock, Fails
<1>6. CASE DownloadEnds
  <2>1. app'[running] = app[running]
    BY <1>0, <1>6 DEF DownloadEnds, TypeOK
  <2> QED BY <2>1, <1>6, <1>k, QuietStep DEF DownloadEnds, Fails
<1>7. CASE SwitchErase
  <2>1. Booted' = Booted
    BY <1>0, <1>7, SpoiltTarget DEF SwitchErase
  <2> QED BY <2>1, <1>7, QuietStep DEF SwitchErase, Fails
<1>8. CASE SwitchWrite
  <2>1. CASE step' = "done" /\ UNCHANGED source
    <3>1. /\ Booted' = Dest' /\ Dest' = Dest
          /\ source \in Image /\ app'[Dest] = source
          /\ UNCHANGED <<app, running>>
      BY <2>1, <1>8 DEF UpdateInv, SwitchWrite, Dest
    <3>2. Approved = source /\ Approved' = source /\ source # None
      BY <3>1, <2>1, UpdateAssumption DEF Approved
    <3> QED BY <3>1, <3>2 DEF Target!Next, Target!Switch, Approved
  <2>2. CASE Fails /\ \E e \in {None, Torn} :
                 otadata' = [otadata EXCEPT ![TargetSlot] = e]
    <3>1. Booted' = Booted
      BY <1>0, <2>2, SpoiltTarget
    <3> QED BY <3>1, <2>2, <1>8, QuietStep DEF SwitchWrite, Fails
  <2> QED BY <1>8, <2>1, <2>2 DEF SwitchWrite
<1>9. CASE Restart
  BY <1>9, <1>k, StartStep DEF Restart, Target!Next
<1>10. CASE PowerLoss
  <2>1. Booted' = Booted
    <3>1. CASE otadata' = otadata
      BY <3>1, <1>k
    <3>2. CASE \E e \in {None, Torn} : otadata' = [otadata EXCEPT ![TargetSlot] = e]
      BY <1>0, <3>2, SpoiltTarget
    <3> QED BY <1>10, <3>1, <3>2 DEF PowerLoss
  <2>2. app'[Booted] = app[Booted]
    <3>1. CASE app' = app
      BY <3>1
    <3>2. CASE step \in {"flash", "stream"} /\ app' = [app EXCEPT ![Dest] = Torn]
      BY <1>0, <3>2 DEF UpdateInv, TypeOK
    <3> QED BY <1>10, <3>1, <3>2 DEF PowerLoss
  <2> QED BY <2>1, <2>2, <1>10, StartStep DEF PowerLoss, Target!Next
<1> QED
  BY <1>1, <1>2, <1>3, <1>4, <1>5, <1>6, <1>7, <1>8, <1>9, <1>10 DEF Next, Work

\* A firmware update is one atomic switch to an image that was checked and
\* approved, for any number of blocks, updates and faults.
THEOREM UpdateIsAtomic == Spec => ImplementsSwitch
<1>1. Init => Target!Init
  <2> SUFFICES ASSUME Init PROVE Target!Init
    OBVIOUS
  <2>1. Booted = running /\ app[running] \in Image
    BY UpdateInit DEF UpdateInv, Init
  <2> QED BY <2>1, UpdateAssumption DEF Init, Target!Init
<1>2. UpdateInv /\ UpdateInv' /\ [Next]_updateVars
        => [Target!Next]_<<app[running], app[Booted],
                           IF source \in Image THEN source ELSE None>>
  BY UpdateSimulates DEF Approved
<1> QED
  BY <1>1, <1>2, UpdateInvariant, PTL DEF Spec, ImplementsSwitch, Target!Spec
===============================================================================
