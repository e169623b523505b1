---------------------------- MODULE FirmwareUpdate ----------------------------
(***************************************************************************)
(* A firmware update: OtaBootSwitch.cpp, FirmwareFlasher.cpp and the       *)
(* activities that drive them.  An image from the SD card or of a release  *)
(* is written to the application partition that does not run; then one of  *)
(* the two entries of the otadata partition is rewritten, so that the boot *)
(* loader starts the other partition.                                      *)
(*                                                                         *)
(* Flash is durable and everything else is lost with the power, which may  *)
(* fail between any two operations; any operation may fail as well, and    *)
(* the card may be exchanged while the device waits for its user.  The     *)
(* boot loader and esp_ota_end are external.                               *)
(***************************************************************************)
EXTENDS Naturals

CONSTANTS
  Image,       \* whole images built for this device
  Bad,         \* a file validateImageFile and esp_ota_end refuse
  None, Torn,  \* nothing; a partition or an entry partly written
  Blocks,      \* blocks of an image
  MaxSeq,      \* bound on the sequence numbers of otadata
  MaxFaults    \* bound on failed operations and power losses

ASSUME UpdateAssumption ==
  /\ Blocks \in Nat \ {0} /\ MaxSeq \in Nat /\ MaxFaults \in Nat
  /\ Bad \notin Image /\ None \notin Image /\ Torn \notin Image
  /\ None \notin Nat /\ Torn \notin Nat
  /\ Bad # None /\ Bad # Torn /\ None # Torn

VARIABLES
  app,      \* the two application partitions
  otadata,  \* sequence numbers of the two entries; None erased, Torn bad CRC
  running,  \* the partition that runs
  card,     \* the .bin file at the chosen path of the card
  step,     \* where the update stands
  source,   \* the bytes that are being written, else None
  pos,      \* blocks written
  faults

updateVars == <<app, otadata, running, card, step, source, pos, faults>>

Slot == {0, 1}
Step == {"idle", "prompt", "flash", "stream", "verify", "erase", "write",
         "done", "failed"}

\* The ranges of the variables.
TypeOK ==
  /\ app \in [Slot -> Image \cup {Torn}]
  /\ otadata \in [Slot -> 1 .. MaxSeq + 2 \cup {None, Torn}]
  /\ running \in Slot
  /\ card \in Image \cup {Bad, None}
  /\ step \in Step
  /\ source \in Image \cup {Bad, None}
  /\ pos \in 0 .. Blocks
  /\ faults \in 0 .. MaxFaults

Fault   == faults < MaxFaults /\ faults' = faults + 1
NoFault == UNCHANGED faults

-----------------------------------------------------------------------------

(* Which entry counts, and which partition it starts. *)

Valid(entries, i) == entries[i] \notin {None, Torn}

\* The valid entry of the highest number; 2 when there is none.
Active(entries) ==
  IF Valid(entries, 0) /\ (Valid(entries, 1) => entries[0] >= entries[1]) THEN 0
  ELSE IF Valid(entries, 1) THEN 1 ELSE 2

ActiveSeq(entries) == IF Active(entries) = 2 THEN 0 ELSE entries[Active(entries)]

\* What the boot loader starts: partition 0 when no entry counts.
Booted == IF Active(otadata) = 2 THEN 0 ELSE (ActiveSeq(otadata) - 1) % 2

\* esp_ota_get_next_update_partition: the one that does not run.
Dest == 1 - running

\* The smallest number above every valid one that starts partition p.
MutantNextSeq(p) == ActiveSeq(otadata) + 1

NextSeq(p) ==
  IF ActiveSeq(otadata) % 2 = p % 2 THEN ActiveSeq(otadata) + 1
                                    ELSE ActiveSeq(otadata) + 2

\* The entry that is rewritten: never the active one.
MutantTargetSlot == IF Active(otadata) = 1 THEN 1 ELSE 0

TargetSlot == IF Active(otadata) = 0 THEN 1 ELSE 0

-----------------------------------------------------------------------------

Init ==
  /\ app \in [Slot -> Image \cup {Torn}] /\ app[0] \in Image
  /\ otadata = [i \in Slot |-> None]
  /\ running = 0
  /\ card \in Image \cup {Bad, None}
  /\ step = "idle" /\ source = None /\ pos = 0 /\ faults = 0

\* The user exchanges the card, or writes to it elsewhere.
SwapCard ==
  /\ step \in {"idle", "prompt"}
  /\ card' \in Image \cup {Bad, None}
  /\ UNCHANGED <<app, otadata, running, step, source, pos, faults>>

\* Bounds the updates of a device.
Room == ActiveSeq(otadata) <= MaxSeq

\* The picker returns a file; what validateFirmware refuses is reported.
Choose ==
  /\ step = "idle" /\ card # None /\ Room
  /\ \/ card \in Image /\ step' = "prompt" /\ NoFault
     \/ card = Bad /\ step' = "failed" /\ NoFault
     \/ Fault /\ step' = "failed"
  /\ UNCHANGED <<app, otadata, running, card, source, pos>>

Cancel ==
  /\ step = "prompt" /\ step' = "idle"
  /\ UNCHANGED <<app, otadata, running, card, source, pos, faults>>

\* The user confirms: the file on the card is checked once more.
MutantTrustPrompt ==
  /\ step = "prompt"
  /\ IF card # None THEN step' = "flash" /\ source' = card
                    ELSE step' = "failed" /\ UNCHANGED source
  /\ pos' = 0
  /\ UNCHANGED <<app, otadata, running, card, faults>>

Confirm ==
  /\ step = "prompt"
  /\ \/ card \in Image /\ step' = "flash" /\ source' = card /\ NoFault
     \/ card \notin Image /\ step' = "failed" /\ UNCHANGED source /\ NoFault
     \/ Fault /\ step' = "failed" /\ UNCHANGED source
  /\ pos' = 0
  /\ UNCHANGED <<app, otadata, running, card>>

\* An update is given up and reported.
Fails == step' = "failed" /\ source' = None

\* flashFromSdPath: erase and write a block; after the last one, switch.
FlashBlock ==
  /\ step = "flash"
  /\ \/ /\ NoFault /\ pos' = pos + 1
        /\ app' = [app EXCEPT ![Dest] = IF pos' = Blocks THEN source ELSE Torn]
        /\ step' = IF pos' = Blocks THEN "erase" ELSE "flash"
        /\ UNCHANGED source
     \/ /\ Fault /\ Fails
        /\ app' \in {app, [app EXCEPT ![Dest] = Torn]}
        /\ UNCHANGED pos
  /\ UNCHANGED <<otadata, running, card>>

\* installUpdate: a newer release is found and approved; esp_ota_begin
\* erases the partition.
StartDownload ==
  /\ step = "idle" /\ Room
  /\ pos' = 0
  /\ \/ /\ NoFault /\ step' = "stream" /\ source' \in Image \cup {Bad}
        /\ app' = [app EXCEPT ![Dest] = Torn]
     \/ /\ Fault /\ Fails
        /\ app' \in {app, [app EXCEPT ![Dest] = Torn]}
  /\ UNCHANGED <<otadata, running, card>>

\* The next bytes of the release.  Those of another device are noticed on
\* the way, a spoilt file only by esp_ota_end; a fault ends the download.
DownloadBlock ==
  /\ step = "stream"
  /\ \/ /\ NoFault /\ pos' = pos + 1
        /\ step' = IF pos' = Blocks THEN "verify" ELSE "stream"
        /\ UNCHANGED source
     \/ /\ Fails /\ UNCHANGED pos
        /\ IF source = Bad THEN NoFault ELSE Fault
  /\ UNCHANGED <<app, otadata, running, card>>

\* esp_ota_end verifies what was written before the switch.
MutantNoVerify ==
  /\ step = "verify" /\ NoFault
  /\ step' = "erase"
  /\ app' = [app EXCEPT ![Dest] = IF source = Bad THEN Torn ELSE source]
  /\ UNCHANGED <<otadata, running, card, source, pos>>

DownloadEnds ==
  /\ step = "verify"
  /\ \/ /\ source \in Image /\ NoFault /\ step' = "erase"
        /\ app' = [app EXCEPT ![Dest] = source]
        /\ UNCHANGED source
     \/ source = Bad /\ NoFault /\ Fails /\ UNCHANGED app
     \/ Fault /\ Fails /\ UNCHANGED app
  /\ UNCHANGED <<otadata, running, card, pos>>

-----------------------------------------------------------------------------

\* switchTo erases the entry it will write.  For a release, installUpdate calls
\* the external esp_ota_set_boot_partition (OtaUpdater.cpp:223), taken to do the
\* same two steps.
SwitchErase ==
  /\ step = "erase"
  /\ \/ /\ NoFault /\ step' = "write"
        /\ otadata' = [otadata EXCEPT ![TargetSlot] = None]
        /\ UNCHANGED source
     \/ /\ Fault /\ Fails
        /\ \E e \in {otadata[TargetSlot], None, Torn} :
              otadata' = [otadata EXCEPT ![TargetSlot] = e]
  /\ UNCHANGED <<app, running, card, pos>>

\* It writes the entry that selects the new partition.
SwitchWrite ==
  /\ step = "write"
  /\ \/ /\ NoFault /\ step' = "done"
        /\ otadata' = [otadata EXCEPT ![TargetSlot] = NextSeq(Dest)]
        /\ UNCHANGED source
     \/ /\ Fault /\ Fails
        /\ \E e \in {None, Torn} :
              otadata' = [otadata EXCEPT ![TargetSlot] = e]
  /\ UNCHANGED <<app, running, card, pos>>

\* Both activities restart the device after a success.
MutantNoRestart ==
  /\ step = "done"
  /\ step' = "idle" /\ source' = None /\ pos' = 0
  /\ UNCHANGED <<app, otadata, running, card, faults>>

Restart ==
  /\ step = "done"
  /\ running' = Booted
  /\ step' = "idle" /\ source' = None /\ pos' = 0
  /\ UNCHANGED <<app, otadata, card, faults>>

\* The user leaves the report of a failure.
Dismiss ==
  /\ step = "failed" /\ step' = "idle"
  /\ UNCHANGED <<app, otadata, running, card, source, pos, faults>>

\* Power fails: what is being erased or written may be torn.
PowerLoss ==
  /\ Fault
  /\ \/ app' = app
     \/ step \in {"flash", "stream"} /\ app' = [app EXCEPT ![Dest] = Torn]
  /\ \/ otadata' = otadata
     \/ /\ step \in {"erase", "write"}
        /\ \E e \in {None, Torn} : otadata' = [otadata EXCEPT ![TargetSlot] = e]
  /\ running' = Booted
  /\ step' = "idle" /\ source' = None /\ pos' = 0
  /\ UNCHANGED card

Work == \/ FlashBlock \/ DownloadBlock \/ DownloadEnds
        \/ SwitchErase \/ SwitchWrite \/ Restart

Next ==
  \/ SwapCard \/ Choose \/ Cancel \/ Confirm \/ StartDownload
  \/ Work \/ Dismiss \/ PowerLoss

Spec == Init /\ [][Next]_updateVars

\* The firmware's own steps go on while there is power.
FairSpec == Spec /\ WF_updateVars(Work)

-----------------------------------------------------------------------------

\* At every moment, in every step of an update and after every fault, the
\* partition that otadata selects holds a whole image of this device: power
\* may fail anywhere without leaving a device that cannot start
\* (switchTo rewrites the entry that does not count, flashFromSdPath and
\* installUpdate the partition that does not run).
AlwaysBoots == app[Booted] \in Image

\* An update that reports success is the one that the next start runs,
\* whatever numbers earlier updates and failures left in otadata.
UpdateTakes == step = "done" => Booted = Dest /\ app[Dest] = source

\* However often updates failed before: once the faults are over, an image
\* that begins to be written, from the card or from a release, is in the end the
\* one that runs.
UpdateRuns ==
  \A i \in Image :
    (step \in {"flash", "stream"} /\ source = i /\ faults = MaxFaults)
      ~> (step = "idle" /\ app[running] = i)

\* Fault by fault and block by block, an update is one atomic switch to an
\* image that passed its checks.
Target == INSTANCE BootTarget WITH
  runs <- app[running],
  boots <- app[Booted],
  approved <- IF source \in Image THEN source ELSE None

ImplementsSwitch == Target!Spec
===============================================================================
