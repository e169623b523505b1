------------------------------ MODULE BootTarget ------------------------------
(***************************************************************************)
(* What a firmware update promises, with no flash memory in it: there is   *)
(* one image that the next start of the device runs.  An update replaces   *)
(* it in one step, by an image that was checked and approved; nothing else *)
(* ever changes it.                                                        *)
(***************************************************************************)
CONSTANTS Image, None

VARIABLES
  runs,      \* the image that runs
  boots,     \* the image the next start runs
  approved   \* the checked image the user approved, else None

Init == runs \in Image /\ boots = runs /\ approved = None

\* The user approves an image that passes its checks.
Approve == /\ approved = None
           /\ approved' \in Image
           /\ UNCHANGED <<runs, boots>>

\* An update fails, and the next start is the one it would have been.
Withdraw == approved' = None /\ UNCHANGED <<runs, boots>>

\* The switch: atomic, and only to what was approved.
Switch == /\ approved # None
          /\ boots' = approved
          /\ UNCHANGED <<runs, approved>>

\* A restart, wanted or not.
Start == runs' = boots /\ approved' = None /\ UNCHANGED boots

Next == Approve \/ Withdraw \/ Switch \/ Start

Spec == Init /\ [][Next]_<<runs, boots, approved>>
===============================================================================
