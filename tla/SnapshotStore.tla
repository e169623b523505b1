---------------------------- MODULE SnapshotStore ----------------------------
(***************************************************************************)
(* The cached calendar or weather of the phone, PhoneSnapshotStore.cpp and *)
(* WeatherSnapshotStore.cpp in src/phone, which are the same program.      *)
(*                                                                         *)
(* A save replaces a file on the SD card in one step per card operation;   *)
(* power may fail between any two, and any operation may fail.  The card's *)
(* file system is external: an operation that fails changes nothing, and a *)
(* rename fails when its target exists.  A partly written file, Torn, does *)
(* not pass validateSnapshot; load treats it as if it were not there.      *)
(***************************************************************************)
EXTENDS Naturals

CONSTANTS
  Body,        \* contents (and checksums) of snapshots
  MaxSequence, \* bound on the sequence numbers the phone sends
  MaxFaults,   \* bound on crashes and failed operations
  None, Torn   \* no file, an unusable file

ASSUME StoreAssumption ==
  /\ MaxSequence \in Nat /\ MaxFaults \in Nat
  /\ None \notin [sequence : 1 .. MaxSequence, body : Body]
  /\ Torn \notin [sequence : 1 .. MaxSequence, body : Body]
  /\ None # Torn

VARIABLES
  main, bak, tmp,  \* the three files
  ram,             \* `snapshot' when `loaded', else None
  phase,           \* position in save, or "off" before load
  incoming,        \* the snapshot being saved, else None
  acked,           \* history: the snapshot last acknowledged to the phone
  faults           \* history: crashes and failures so far

files == <<main, bak, tmp>>
storeVars == <<main, bak, tmp, ram, phase, incoming, acked, faults>>

Snapshot == [sequence : 1 .. MaxSequence, body : Body]
File     == Snapshot \cup {None, Torn}

\* The ranges of the store's variables.  Until a second operation fails, no
\* unusable file is ever the main one or its backup.
StoreTypeOK ==
  /\ main \in File /\ bak \in File /\ tmp \in File
  /\ faults <= 1 => Torn \notin {main, bak}
  /\ ram \in Snapshot \cup {None}
  /\ phase \in {"off", "idle", "write", "drop", "aside", "install", "restore", "clean"}
  /\ incoming \in Snapshot \cup {None}
  /\ acked \in Snapshot \cup {None}
  /\ faults \in 0 .. MaxFaults

StoreInit ==
  /\ main = None /\ bak = None /\ tmp = None
  /\ ram = None /\ phase = "off" /\ incoming = None
  /\ acked = None /\ faults = 0

Fault   == faults < MaxFaults /\ faults' = faults + 1
NoFault == UNCHANGED faults

\* save returns: nothing is under way any more.
Return == phase' = "idle" /\ incoming' = None

-----------------------------------------------------------------------------

\* What load() finds: the main file, else the backup, never the temporary one.
Usable(file) == IF file = Torn THEN None ELSE file

Stored == IF Usable(main) # None THEN main ELSE Usable(bak)

Load ==
  /\ phase = "off" /\ phase' = "idle"
  /\ \/ NoFault /\ ram' = Stored
     \/ Fault /\ ram' \in {Usable(bak), None}     \* reading one file, or either, failed
  /\ UNCHANGED <<files, incoming, acked>>

\* save(s) up to writeSnapshot, for a valid s: an older one is refused, the
\* same one is acknowledged as it is.
Save(s) ==
  /\ phase = "idle"
  /\ UNCHANGED <<files, ram>> /\ NoFault
  /\ IF ram # None /\ s.sequence < ram.sequence
     THEN UNCHANGED <<phase, incoming, acked>>
     ELSE IF ram = s
     THEN acked' = s /\ UNCHANGED <<phase, incoming>>
     ELSE phase' = "write" /\ incoming' = s /\ UNCHANGED acked

\* writeSnapshot, one action per operation that can be interrupted.
\* Mutant: a short write is not noticed.
MutantShortWrite ==
  /\ phase = "write" /\ phase' = "drop"
  /\ \/ NoFault /\ tmp' = incoming
     \/ Fault /\ tmp' = Torn
  /\ UNCHANGED <<main, bak, ram, incoming, acked>>

\* A short write is noticed.  The results of flush and close are not looked
\* at: when both fail, what is installed is not what was written.
WriteTemp ==
  /\ phase = "write"
  /\ \/ NoFault /\ tmp' = incoming /\ phase' = "drop" /\ UNCHANGED incoming
     \/ Fault /\ tmp' \in {None, Torn, tmp} /\ Return
     \/ /\ faults + 2 <= MaxFaults /\ faults' = faults + 2
        /\ tmp' = Torn /\ phase' = "drop" /\ UNCHANGED incoming
  /\ UNCHANGED <<main, bak, ram, acked>>

DropBackup ==
  /\ phase = "drop" /\ phase' = "aside"
  /\ \/ NoFault /\ bak' = None
     \/ Fault /\ UNCHANGED bak
  /\ UNCHANGED <<main, tmp, ram, incoming, acked>>

\* Mutant: the old file is removed, not moved aside.
MutantRemoveMain ==
  /\ phase = "aside" /\ phase' = "install"
  /\ main' = None
  /\ NoFault /\ UNCHANGED <<bak, tmp, ram, incoming, acked>>

MoveAside ==
  /\ phase = "aside"
  /\ \/ /\ main = None
        /\ NoFault /\ phase' = "install" /\ UNCHANGED <<files, incoming>>
     \/ /\ main # None /\ bak = None
        /\ bak' = main /\ main' = None
        /\ NoFault /\ phase' = "install" /\ UNCHANGED <<tmp, incoming>>
     \/ /\ main # None                     \* the rename failed
        /\ IF bak = None THEN Fault ELSE NoFault
        /\ tmp' = None /\ Return /\ UNCHANGED <<main, bak>>
     \/ /\ main # None                     \* exists() said no
        /\ Fault /\ phase' = "install" /\ UNCHANGED <<files, incoming>>
  /\ UNCHANGED <<ram, acked>>

Install ==
  /\ phase = "install"
  /\ \/ /\ main = None
        /\ main' = tmp /\ tmp' = None
        /\ NoFault /\ phase' = "clean"
     \/ /\ IF main = None THEN Fault ELSE NoFault
        /\ phase' = "restore" /\ UNCHANGED <<main, tmp>>
  /\ UNCHANGED <<bak, ram, incoming, acked>>

\* Mutant: the old file is not moved back.
MutantNoRestore ==
  /\ phase = "restore" /\ Return
  /\ ram' = incoming /\ NoFault
  /\ UNCHANGED <<files, acked>>

Restore ==
  /\ phase = "restore"
  /\ Return
  /\ \/ /\ bak # None /\ main = None
        /\ main' = bak /\ bak' = None /\ NoFault
     \/ /\ IF bak # None /\ main = None THEN Fault ELSE NoFault
        /\ UNCHANGED <<main, bak>>
  /\ UNCHANGED <<tmp, ram, acked>>

CleanUp ==
  /\ phase = "clean"
  /\ \/ NoFault /\ bak' = None
     \/ Fault /\ UNCHANGED bak
  /\ ram' = incoming /\ acked' = incoming
  /\ Return
  /\ UNCHANGED <<main, tmp>>

\* Power is lost and the device starts again.
Crash ==
  /\ phase # "off" /\ Fault
  /\ phase' = "off" /\ ram' = None /\ incoming' = None
  /\ tmp' \in (IF phase = "write" THEN {None, Torn, tmp} ELSE {tmp})
  /\ UNCHANGED <<main, bak, acked>>

\* Deep sleep: power goes between saves.
Sleep ==
  /\ phase \in {"off", "idle"}
  /\ phase' = "off" /\ ram' = None
  /\ UNCHANGED <<files, incoming, acked, faults>>

StoreNext ==
  \/ Load \/ \E s \in Snapshot : Save(s)
  \/ WriteTemp \/ DropBackup \/ MoveAside \/ Install \/ Restore \/ CleanUp
  \/ Crash \/ Sleep

StoreSpec == StoreInit /\ [][StoreNext]_storeVars
-----------------------------------------------------------------------------

\* Between saves, what the card holds is at least as new as what the phone was
\* told is stored (save acknowledges after writeSnapshot).  One crash or failure
\* anywhere is survived; a second may leave nothing at all, as writeSnapshot
\* removes a backup that may be the only copy.
AckedSurvives ==
  phase \in {"off", "idle"} /\ acked # None /\ faults <= 1 =>
    Stored # None /\ Stored.sequence >= acked.sequence

\* The snapshot on display is the one a restart would show: a save that failed
\* has left the card as it was, a save that succeeded has not.  (After two
\* faults a read that fails may bring an old backup to the display.)
RamIsStored == phase = "idle" /\ ram # None /\ faults <= 1 => ram = Stored

=============================================================================
