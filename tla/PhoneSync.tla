------------------------------ MODULE PhoneSync ------------------------------
(***************************************************************************)
(* The phone sync Bluetooth service, lib/hal/HalBlePhoneSync.cpp, for the  *)
(* calendar; its weather half is the same program on variables of its own. *)
(* The host task runs the callbacks, each of them one action; the calls of *)
(* the main loop that callbacks can come between are split where they can. *)
(*                                                                         *)
(* A transfer is Chunks data writes of one snapshot.  What is staged is    *)
(* how much of which snapshot, since Begin clears the staging area.        *)
(***************************************************************************)
EXTENDS SnapshotStore

CONSTANT Chunks

ASSUME SyncAssumption == Chunks \in Nat \ {0}

VARIABLES
  syncState,
  active,         \* begin() succeeded and end() has not run
  linked,         \* a phone is connected
  snapshotReady,
  staging,        \* stagingSnapshot and receivedBytes
  acknowledged    \* acceptedSequence

syncVars == <<syncState, active, linked, snapshotReady, staging, acknowledged>>

Staged  == [of : Snapshot \cup {None}, chunks : 0 .. Chunks]
Cleared == [of |-> None, chunks |-> 0]
Whole(staged) == staged.of # None /\ staged.chunks = Chunks

SyncTypeOK ==
  /\ syncState \in {"Stopped", "Advertising", "Connected", "Receiving",
                    "SnapshotReady", "Accepted", "Error"}
  /\ active \in BOOLEAN /\ linked \in BOOLEAN /\ snapshotReady \in BOOLEAN
  /\ staging \in Staged
  /\ acknowledged \in 0 .. MaxSequence

SyncInit ==
  /\ syncState = "Stopped" /\ active = FALSE /\ linked = FALSE
  /\ snapshotReady = FALSE /\ staging = Cleared /\ acknowledged = 0

-----------------------------------------------------------------------------
(* The host task. *)

OnConnect ==
  /\ active /\ ~linked
  /\ linked' = TRUE /\ syncState' = "Connected"
  /\ UNCHANGED <<active, snapshotReady, staging, acknowledged>>

OnDisconnect ==
  /\ active /\ linked
  /\ linked' = FALSE /\ syncState' = "Advertising"
  /\ UNCHANGED <<active, snapshotReady, staging, acknowledged>>

\* onPassKeyDisplay, and onAuthenticationComplete for the phone's bond: to pair
\* is to be connected, but for the words on the screen.
OnPairing ==
  /\ linked
  /\ syncState' = "Connected"
  /\ UNCHANGED <<active, linked, snapshotReady, staging, acknowledged>>

\* fail, for a stranger, a malformed write or one out of place.
RefuseWrite ==
  /\ linked
  /\ syncState' = "Error" /\ snapshotReady' = FALSE
  /\ UNCHANGED <<active, linked, staging, acknowledged>>

ControlBegin(s) ==
  /\ linked
  /\ staging' = [of |-> s, chunks |-> 0]
  /\ snapshotReady' = FALSE /\ syncState' = "Receiving"
  /\ UNCHANGED <<active, linked, acknowledged>>

DataWrite ==
  /\ linked /\ syncState = "Receiving" /\ staging.chunks < Chunks
  /\ staging' = [staging EXCEPT !.chunks = @ + 1]
  /\ UNCHANGED <<syncState, active, linked, snapshotReady, acknowledged>>

\* Mutant: a Commit is believed before everything has come.
MutantCommitEarly ==
  /\ linked /\ syncState = "Receiving"
  /\ snapshotReady' = TRUE /\ syncState' = "SnapshotReady"
  /\ UNCHANGED <<active, linked, staging, acknowledged>>

\* Commit of a snapshot that came whole; RefuseWrite is any other Commit.
ControlCommit ==
  /\ linked /\ syncState = "Receiving" /\ Whole(staging)
  /\ snapshotReady' = TRUE /\ syncState' = "SnapshotReady"
  /\ UNCHANGED <<active, linked, staging, acknowledged>>

\* The staged bytes stay; only a Begin, which clears them, lets more come.
ControlCancel ==
  /\ linked
  /\ snapshotReady' = FALSE /\ syncState' = "Connected"
  /\ UNCHANGED <<active, linked, staging, acknowledged>>

HostStep ==
  \/ OnConnect \/ OnDisconnect \/ OnPairing \/ RefuseWrite
  \/ \E s \in Snapshot : ControlBegin(s)
  \/ DataWrite \/ ControlCommit \/ ControlCancel

-----------------------------------------------------------------------------
(* The main loop's calls.  begin may fail. *)

Begin ==
  IF active THEN UNCHANGED syncVars
  ELSE /\ active' \in BOOLEAN /\ linked' = FALSE
       /\ syncState' = IF active' THEN "Advertising" ELSE "Error"
       /\ snapshotReady' = FALSE
       /\ UNCHANGED <<staging, acknowledged>>

End ==
  IF active
  THEN /\ active' = FALSE /\ linked' = FALSE
       /\ snapshotReady' = FALSE /\ syncState' = "Stopped"
       /\ UNCHANGED <<staging, acknowledged>>
  ELSE UNCHANGED syncVars

\* takeSnapshot lowers the flag here and copies stagingSnapshot later.
TakeExchange ==
  /\ snapshotReady /\ snapshotReady' = FALSE
  /\ UNCHANGED <<syncState, active, linked, staging, acknowledged>>

Acknowledge(sequence, accepted) ==
  /\ acknowledged' = IF accepted THEN sequence ELSE acknowledged
  /\ syncState' = IF accepted THEN "Accepted" ELSE "Error"
  /\ UNCHANGED <<active, linked, snapshotReady, staging>>

\* Power is lost, or the chip restarts.
SyncReset ==
  /\ active' = FALSE /\ linked' = FALSE /\ snapshotReady' = FALSE
  /\ syncState' = "Stopped" /\ staging' = Cleared /\ acknowledged' = 0
=============================================================================
