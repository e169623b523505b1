------------------------------ MODULE KeyVault ------------------------------
(***************************************************************************)
(* The encrypted key store, src/wallet/EvmKeyVault.cpp, over NVS.          *)
(*                                                                         *)
(* Only the main loop calls it, but power can fail between any two writes  *)
(* and any single NVS or crypto call can fail, so a call is a sequence of  *)
(* actions with one write each.  NVS itself is external: a put or a remove *)
(* happens whole or not at all, and one that reports failure has not       *)
(* happened.  A record opens with the PIN it was sealed with; salts,       *)
(* nonces and ciphers are left out.                                        *)
(***************************************************************************)
EXTENDS Naturals

CONSTANTS
  Key, NoKey,
  Pin, NoPin,
  NoRecord,
  Faults        \* which calls may fail

FaultKind == {"read", "readback", "encrypt", "put", "remove"}

ASSUME VaultAssumption ==
  /\ NoKey \notin Key
  /\ NoRecord \notin [key : Key, pin : Pin, fresh : BOOLEAN]
  /\ Faults \subseteq FaultKind

VARIABLES
  vault,        \* NVS "vault"
  legacy,       \* NVS "private", the plaintext key of early builds
  cached,       \* NVS "address", identified with the key it derives from
  ram,          \* privateKey
  unlocked,
  op,           \* the call under way
  wallet,       \* history: the key whose address the user was shown
  known,        \* history: PINs the user has reason to try
  misread,      \* history: a read that createOrEncrypt decides by has failed
  blind         \* history: the last call to open missed a plaintext key

nvs     == <<vault, legacy, cached>>
session == <<ram, unlocked>>
history == <<wallet, known, misread, blind>>
vars    == <<vault, legacy, cached, ram, unlocked, op, wallet, known, misread, blind>>

\* `fresh' is whether the KDF cost is today's.
Record == [key : Key, pin : Pin, fresh : BOOLEAN]

Idle == [name |-> "none", phase |-> "idle", key |-> NoKey, pin |-> NoPin,
         plain |-> FALSE, previous |-> NoRecord]
\* Phases of each call; those of sealing are shared by createOrEncrypt and
\* the rewrap of unlock.
Seal == {"put", "verify", "clear", "undo"}
Call ==
  [name : {"create"}, phase : Seal, key : Key, pin : Pin, plain : BOOLEAN,
   previous : {NoRecord}]
  \cup [name : {"unlock"}, phase : {"migrate", "rewrap"} \cup Seal \cup {"rollback"},
        key : Key, pin : Pin, plain : BOOLEAN, previous : Record]
  \cup [name : {"change"}, phase : {"put", "verify", "rollback"}, key : Key, pin : Pin,
        plain : {FALSE}, previous : Record]

\* The ranges of the vault's variables.
TypeOK ==
  /\ vault \in Record \cup {NoRecord}
  /\ legacy \in Key \cup {NoKey} /\ cached \in Key \cup {NoKey}
  /\ ram \in Key \cup {NoKey}
  /\ unlocked \in BOOLEAN
  /\ op \in Call \cup {Idle}
  /\ wallet \in Key \cup {NoKey}
  /\ known \in SUBSET Pin
  /\ misread \in BOOLEAN /\ blind \in BOOLEAN

\* A new device, one with a plaintext key, or one with an older sealed record,
\* which power may have kept from taking the plaintext key's place.
Init ==
  /\ \/ vault = NoRecord /\ legacy = NoKey /\ wallet = NoKey /\ known = {}
     \/ vault = NoRecord /\ legacy \in Key /\ wallet = legacy /\ known = {}
     \/ /\ vault \in Record /\ ~vault.fresh
        /\ legacy \in {NoKey, vault.key} /\ wallet = vault.key /\ known = {vault.pin}
  /\ cached = NoKey /\ ram = NoKey /\ unlocked = FALSE
  /\ op = Idle /\ misread = FALSE /\ blind = FALSE

StoredKey == IF vault = NoRecord THEN NoKey ELSE vault.key
MayFail(kind) == kind \in Faults
Sealed(key, pin) == [key |-> key, pin |-> pin, fresh |-> TRUE]
Is(name, phase) == op.name = name /\ op.phase = phase
Sealing(phase)  == op.name \in {"create", "unlock"} /\ op.phase = phase
To(phase)       == op' = [op EXCEPT !.phase = phase]

-----------------------------------------------------------------------------
(* encryptAndStore, shared by createOrEncrypt and the rewrap of unlock.     *)

\* What loadLegacyPrivateKey may say.
LegacySeen == {legacy # NoKey} \cup (IF MayFail("read") THEN {FALSE} ELSE {})

\* Mutant: every caller is sent on to put an old record back.
MutantAlwaysRollback == To("rollback")

\* encryptAndStore returns false: createOrEncrypt gives up, unlock puts the
\* old record back.
SealFails == IF op.name = "create" THEN op' = Idle ELSE To("rollback")

SealPut ==
  /\ Sealing("put")
  /\ \/ vault' = Sealed(op.key, op.pin) /\ To("verify")
     \/ MayFail("put") /\ SealFails /\ UNCHANGED vault
  /\ UNCHANGED <<legacy, cached, session, history>>

\* The key is accepted: it is in RAM, and the caller goes on to show its
\* address (completeUnlock, address), which is cached if that write succeeds.
Opened(key, pin) ==
  /\ ram' = key /\ unlocked' = TRUE
  /\ wallet' = (IF wallet = NoKey THEN key ELSE wallet)
  /\ known' = {pin}
  /\ cached' \in {key} \cup (IF MayFail("put") THEN {cached} ELSE {})
  /\ op' = Idle

\* Mutant: the plaintext key is not looked for after a successful seal.
MutantSkipClear ==
  /\ Sealing("verify")
  /\ \/ Opened(op.key, op.pin)
     \/ /\ MayFail("readback")
        /\ SealFails /\ UNCHANGED <<cached, session, wallet, known>>
  /\ UNCHANGED <<vault, legacy, misread, blind>>

SealVerify ==
  /\ Sealing("verify")
  /\ \/ vault = Sealed(op.key, op.pin) /\ op.plain
        /\ To("clear") /\ UNCHANGED <<cached, session, wallet, known>>
     \/ vault = Sealed(op.key, op.pin) /\ ~op.plain /\ Opened(op.key, op.pin)
     \/ /\ MayFail("readback") \/ vault # Sealed(op.key, op.pin)
        /\ SealFails /\ UNCHANGED <<cached, session, wallet, known>>
  /\ UNCHANGED <<vault, legacy, misread, blind>>

\* Mutant: the result of remove() is read the wrong way round.
MutantClearInverted ==
  /\ Sealing("clear")
  /\ \/ MayFail("remove") /\ Opened(op.key, op.pin) /\ UNCHANGED legacy
     \/ legacy' = NoKey /\ To("undo") /\ UNCHANGED <<cached, session, wallet, known>>
  /\ UNCHANGED <<vault, misread, blind>>

SealClear ==
  /\ Sealing("clear")
  /\ \/ legacy' = NoKey /\ Opened(op.key, op.pin)
     \/ /\ MayFail("remove")
        /\ To("undo") /\ UNCHANGED <<legacy, cached, session, wallet, known>>
  /\ UNCHANGED <<vault, misread, blind>>

\* The plaintext key could not be removed, so the sealed copy is.
SealUndo ==
  /\ Sealing("undo")
  /\ vault' \in {NoRecord} \cup (IF MayFail("remove") THEN {vault} ELSE {})
  /\ SealFails
  /\ UNCHANGED <<legacy, cached, session, history>>

-----------------------------------------------------------------------------
(* createOrEncrypt *)

\* Mutant: a new key is made whatever NVS holds.
MutantAlwaysNew(pin) ==
  /\ op = Idle /\ ~unlocked
  /\ known' = known \cup {pin}
  /\ \E source \in Key \ {legacy, StoredKey, wallet} :
        op' = [name |-> "create", phase |-> "put", key |-> source, pin |-> pin,
               plain |-> FALSE, previous |-> NoRecord]
  /\ UNCHANGED <<nvs, session, wallet, misread, blind>>

\* The wallet screen calls it while locked.  It refuses when it sees a record,
\* seals the plaintext key when it sees one, and makes a new key otherwise; a
\* failure to encrypt changes nothing.  encryptAndStore looks for the plaintext
\* key a second time (`plain').
CreateOrEncrypt(pin) ==
  /\ op = Idle /\ ~unlocked
  /\ vault = NoRecord \/ MayFail("read")
  /\ known' = known \cup {pin}
  /\ \E seen, plain \in LegacySeen :
        \E source \in IF seen THEN {legacy} ELSE Key \ {legacy, StoredKey, wallet} :
           op' = [name |-> "create", phase |-> "put", key |-> source, pin |-> pin,
                  plain |-> plain, previous |-> NoRecord]
        /\ misread' = (misread \/ vault # NoRecord \/ seen # (legacy # NoKey))
        /\ blind' = (legacy # NoKey /\ ~plain)
  /\ UNCHANGED <<nvs, session, wallet>>

-----------------------------------------------------------------------------
(* unlock *)

\* lock(), read, decrypt.  A wrong PIN or a failed read leaves it locked.
Unlock(pin) ==
  /\ op = Idle
  /\ unlocked' = FALSE
  /\ IF vault # NoRecord /\ vault.pin = pin
     THEN \/ ram' = vault.key
             /\ op' = [name |-> "unlock", phase |-> "migrate", key |-> vault.key,
                       pin |-> pin, plain |-> FALSE, previous |-> vault]
          \/ MayFail("read") /\ ram' = NoKey /\ UNCHANGED op
     ELSE ram' = NoKey /\ UNCHANGED op
  /\ blind' = FALSE
  /\ UNCHANGED <<nvs, wallet, known, misread>>

\* Mutant: the key stays in RAM when the migration cannot be completed.
MutantMigrateKeepsKey ==
  /\ Is("unlock", "migrate")
  /\ \/ FALSE \in LegacySeen /\ To("rewrap") /\ UNCHANGED legacy
     \/ legacy = op.key /\ legacy' = NoKey /\ To("rewrap")
     \/ /\ legacy # NoKey
        /\ legacy # op.key \/ MayFail("remove")
        /\ op' = Idle /\ UNCHANGED legacy
  /\ UNCHANGED <<vault, cached, session, history>>

\* A plaintext key left by an interrupted migration is removed, if it is the
\* same key; otherwise the vault stays locked.
UnlockMigrate ==
  /\ Is("unlock", "migrate")
  /\ \/ /\ FALSE \in LegacySeen /\ To("rewrap")
        /\ blind' = (legacy # NoKey) /\ UNCHANGED <<legacy, session>>
     \/ /\ legacy = op.key /\ legacy' = NoKey /\ To("rewrap")
        /\ UNCHANGED <<session, blind>>
     \/ /\ legacy # NoKey
        /\ legacy # op.key \/ MayFail("remove")
        /\ ram' = NoKey /\ op' = Idle /\ UNCHANGED <<legacy, unlocked, blind>>
  /\ UNCHANGED <<vault, cached, wallet, known, misread>>

\* A record sealed at an older cost is sealed again.
UnlockRewrap ==
  /\ Is("unlock", "rewrap")
  /\ IF vault.fresh
     THEN Opened(op.key, op.pin)
     ELSE /\ \/ \E plain \in LegacySeen :
                  op' = [op EXCEPT !.phase = "put", !.plain = plain]
             \/ MayFail("encrypt") /\ To("rollback")
          /\ UNCHANGED <<cached, session, wallet, known>>
  /\ UNCHANGED <<vault, legacy, misread, blind>>

\* The rewrap failed: the old record is put back and the unlock succeeds.
UnlockRollback ==
  /\ Is("unlock", "rollback")
  /\ \/ vault' = op.previous /\ Opened(op.key, op.pin)
     \/ /\ MayFail("put")
        /\ ram' = NoKey /\ op' = Idle
        /\ UNCHANGED <<vault, cached, unlocked, wallet, known>>
  /\ UNCHANGED <<legacy, misread, blind>>

-----------------------------------------------------------------------------
(* changePin, after verifyPin on the screen before it. *)

ChangePin(pin) ==
  /\ op = Idle /\ unlocked /\ vault # NoRecord
  /\ op' = [name |-> "change", phase |-> "put", key |-> ram, pin |-> pin,
            plain |-> FALSE, previous |-> vault]
  /\ known' = known \cup {pin}
  /\ UNCHANGED <<nvs, session, wallet, misread, blind>>

ChangePut ==
  /\ Is("change", "put")
  /\ \/ vault' = Sealed(op.key, op.pin) /\ To("verify")
     \/ MayFail("put") /\ To("rollback") /\ UNCHANGED vault
  /\ UNCHANGED <<legacy, cached, session, history>>

ChangeVerify ==
  /\ Is("change", "verify")
  /\ \/ /\ vault = Sealed(op.key, op.pin)
        /\ op' = Idle /\ known' = {op.pin}
     \/ MayFail("readback") /\ To("rollback") /\ UNCHANGED known
  /\ UNCHANGED <<nvs, session, wallet, misread, blind>>

\* Mutant: the old record is taken to be still there.
MutantNoRollback ==
  /\ Is("change", "rollback")
  /\ op' = Idle /\ known' = {op.previous.pin}
  /\ UNCHANGED <<nvs, session, wallet, misread, blind>>

\* The old record is put back, and read back; the screen then says that the
\* PIN was not changed.  If that fails too, the vault locks.
ChangeRollback ==
  /\ Is("change", "rollback")
  /\ op' = Idle
  /\ \/ vault' = op.previous /\ known' = {op.previous.pin} /\ UNCHANGED session
     \/ /\ \/ MayFail("put") /\ UNCHANGED vault
           \/ MayFail("readback") /\ vault' = op.previous
        /\ ram' = NoKey /\ unlocked' = FALSE /\ UNCHANGED known
  /\ UNCHANGED <<legacy, cached, wallet, misread, blind>>

-----------------------------------------------------------------------------

\* lock(), by the wallet screen.
Lock ==
  /\ op = Idle /\ unlocked
  /\ ram' = NoKey /\ unlocked' = FALSE
  /\ UNCHANGED <<nvs, op, history>>

\* Power fails and comes back.
Crash ==
  /\ ram' = NoKey /\ unlocked' = FALSE /\ op' = Idle
  /\ UNCHANGED <<nvs, history>>

Next ==
  \/ \E pin \in Pin : CreateOrEncrypt(pin) \/ Unlock(pin) \/ ChangePin(pin)
  \/ SealPut \/ SealVerify \/ SealClear \/ SealUndo
  \/ UnlockMigrate \/ UnlockRewrap \/ UnlockRollback
  \/ ChangePut \/ ChangeVerify \/ ChangeRollback
  \/ Lock \/ Crash

Spec == Init /\ [][Next]_vars
-----------------------------------------------------------------------------

\* The key whose address the user was shown is always in NVS, sealed or still
\* plaintext, whatever fails and wherever power is lost, unless a read that
\* createOrEncrypt decides by failed: then it may seal a new key over it.
KeyIsKept == wallet # NoKey /\ ~misread => wallet \in {StoredKey, legacy}

\* When no call is under way, one of the PINs the user has reason to try opens
\* the vault: the one last reported as set, or, after a change that was cut
\* short, the old or the new one.
KnownPinOpens ==
  op = Idle /\ vault # NoRecord => vault.pin \in known

\* Outside a call a locked vault holds no key in RAM, and an unlocked one holds
\* the wallet's, which is the one NVS has.
RamIsSession ==
  op = Idle => IF unlocked THEN ram = StoredKey /\ (misread \/ ram = wallet)
                           ELSE ram = NoKey

\* An open wallet has left no plaintext key of an early build behind, unless
\* the call that opened it could not read that there is one
\* (loadLegacyPrivateKey in encryptAndStore and in unlock).
OpenIsSealed == unlocked /\ op = Idle /\ ~blind => legacy = NoKey

\* The address shown while locked is the wallet's, unless createOrEncrypt has
\* misread what NVS holds and made the wallet a new one.
CachedIsWallet == ~misread => cached \in {NoKey, wallet}

(* What the wallet screen sees of it: a key being made or sealed does not    *)
(* count before the call is over or power is lost.                           *)

Making == op.name = "create"
Kind   == IF vault # NoRecord /\ ~Making THEN "sealed"
          ELSE IF legacy # NoKey THEN "legacy" ELSE "absent"

Contract == INSTANCE VaultContract WITH vault <- Kind

\* The calls do what the wallet screen takes them to do, whatever fails and
\* wherever power is lost: a sealed vault never goes back to a plaintext or
\* absent key, neither through the undo of encryptAndStore nor through a rewrap
\* or PIN change that failed, and only a sealed one is open.  Excepted are a
\* createOrEncrypt that could not read what there is, and an unlock that at
\* first could not read the plaintext key it then comes upon in the rewrap.
ImplementsContract ==
  Contract!Init /\ [][Contract!Next \/ misread' \/ blind']_(Contract!vars)

=============================================================================
