---------------------------- MODULE VaultContract ----------------------------
(***************************************************************************)
(* The calls of the key store as the wallet screen sees them: what each    *)
(* may leave in NVS, and whether the vault is open after it.  The screen   *)
(* (WalletActivity) is written in terms of these calls and keeps to the    *)
(* order they ask for; KeyVault implements them, write by write.           *)
(***************************************************************************)

VARIABLES
  vault,      \* what NVS holds: "absent", "legacy" (plaintext), "sealed"
  unlocked

vars == <<vault, unlocked>>

Init == vault \in {"absent", "legacy", "sealed"} /\ unlocked = FALSE

\* createOrEncrypt.  One that fails, or is cut short, may leave a sealed vault
\* behind, but never takes one away.
Create      == vault # "sealed" /\ vault' = "sealed" /\ unlocked' = TRUE
CreateFails == vault' \in {vault, "sealed"} /\ UNCHANGED unlocked

\* unlock with the right PIN.
Open == vault = "sealed" /\ unlocked' = TRUE /\ UNCHANGED vault

\* lock(), a PIN change that could not be undone, or a loss of power.
Lock == unlocked' = FALSE /\ UNCHANGED vault

\* A key is only made or sealed while the vault is locked.
Next == (~unlocked /\ (Create \/ CreateFails)) \/ Open \/ Lock

Spec == Init /\ [][Next]_vars
=============================================================================
