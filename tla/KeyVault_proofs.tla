--------------------------- MODULE KeyVault_proofs ---------------------------
(***************************************************************************)
(* The key store never loses the key it once showed the address of, for    *)
(* any keys, PINs and faults: whatever call is under way, power may go     *)
(* after any write and any NVS or crypto call may fail.                    *)
(*                                                                         *)
(* The invariant says what each call relies on between its writes (OpInv,  *)
(* SealInv), and that there is one key as long as no read of               *)
(* createOrEncrypt went wrong (OneKey).  The second part adds what each    *)
(* call knows of PINs and of plaintext keys (PinInv, PlainInv).            *)
(***************************************************************************)
EXTENDS KeyVault, TLAPS

OpType ==
  [name : {"none", "create", "unlock", "change"},
   phase : {"idle", "migrate", "rewrap", "rollback"} \cup Seal,
   key : Key \cup {NoKey}, pin : Pin \cup {NoPin}, plain : BOOLEAN,
   previous : Record \cup {NoRecord}]

\* The ranges the argument needs; KeyVault's TypeOK says more about op.
Ranges ==
  /\ vault \in Record \cup {NoRecord}
  /\ legacy \in Key \cup {NoKey}
  /\ wallet \in Key \cup {NoKey}
  /\ misread \in BOOLEAN
  /\ op \in OpType

\* Each call, in every phase, as regards the records and the session.
CreateInv ==
  /\ op.key \in Key /\ op.pin \in Pin
  /\ op.phase \in Seal
  /\ ~unlocked /\ ram = NoKey

UnlockInv ==
  /\ op.key \in Key /\ op.pin \in Pin
  /\ op.previous \in Record /\ op.previous.key = op.key
  /\ op.phase \in {"migrate", "rewrap", "put"} => vault = op.previous
  /\ op.phase \in {"migrate", "rewrap", "rollback"} \cup Seal
  /\ ~unlocked /\ ram = op.key

ChangeInv ==
  /\ op.key \in Key /\ op.pin \in Pin
  /\ op.previous \in Record /\ op.previous.key = op.key
  /\ op.phase \in {"put", "verify", "rollback"}
  /\ vault # NoRecord /\ vault.key = op.key
  /\ unlocked /\ ram = op.key
  /\ misread \/ wallet = op.key

\* A call that seals has written its record before it looks at the plaintext
\* key, and takes the record back only while the plaintext key is there.
SealInv ==
  op.name \in {"create", "unlock"} =>
    /\ op.phase \in {"verify", "clear", "undo"} => vault = Sealed(op.key, op.pin)
    /\ op.phase \in {"put", "verify"} /\ op.plain => legacy # NoKey
    /\ op.phase \in {"clear", "undo"} => legacy # NoKey

OpInv ==
  \/ op = Idle
  \/ op.name = "create" /\ CreateInv
  \/ op.name = "unlock" /\ UnlockInv
  \/ op.name = "change" /\ ChangeInv

\* Unless a read went wrong there is one key: what NVS has, sealed or plaintext,
\* what the call under way works with and what the user was shown are the same.
OneKey ==
  ~misread =>
    /\ vault # NoRecord => legacy \in {NoKey, vault.key}
    /\ op # Idle => legacy \in {NoKey, op.key} /\ wallet \in {NoKey, op.key}

KeyInv ==
  /\ Ranges /\ OpInv /\ SealInv /\ OneKey
  /\ KeyIsKept /\ RamIsSession /\ CachedIsWallet

-----------------------------------------------------------------------------
(* Facts about records and calls. *)

LEMMA RecordFacts ==
  ASSUME NEW r \in Record
  PROVE  r # NoRecord /\ r.key \in Key /\ r.pin \in Pin /\ r.key # NoKey
  BY VaultAssumption DEF Record

LEMMA SealedFacts ==
  ASSUME NEW key \in Key, NEW pin \in Pin
  PROVE  Sealed(key, pin) \in Record /\ Sealed(key, pin).key = key
  BY DEF Record, Sealed

LEMMA IdleFacts == Idle.name = "none" /\ Idle \in OpType
  BY DEF Idle, OpType

\* A call that goes on changes its phase only.
LEMMA ToFacts ==
  ASSUME op \in OpType, NEW phase \in {"rewrap", "rollback"} \cup Seal, To(phase)
  PROVE  /\ op' \in OpType
         /\ op'.phase = phase /\ op'.name = op.name /\ op'.key = op.key
         /\ op'.pin = op.pin /\ op'.plain = op.plain /\ op'.previous = op.previous
  BY DEF To, OpType, Seal

LEMMA LegacyFacts ==
  ASSUME NEW plain \in LegacySeen
  PROVE  plain \in BOOLEAN /\ (plain => legacy # NoKey)
  BY DEF LegacySeen

-----------------------------------------------------------------------------

LEMMA KeyInit == Init => KeyInv
<1> SUFFICES ASSUME Init PROVE KeyInv
  OBVIOUS
<1>1. /\ vault \in Record \cup {NoRecord} /\ legacy \in Key \cup {NoKey}
      /\ wallet \in Key \cup {NoKey}
      /\ wallet # NoKey => wallet \in {StoredKey, legacy}
  <2>1. CASE vault = NoRecord /\ legacy = NoKey /\ wallet = NoKey
    BY <2>1
  <2>2. CASE vault = NoRecord /\ legacy \in Key /\ wallet = legacy
    BY <2>2
  <2>3. CASE vault \in Record /\ legacy \in {NoKey, vault.key} /\ wallet = vault.key
    BY <2>3, RecordFacts DEF StoredKey
  <2> QED
    BY <2>1, <2>2, <2>3 DEF Init
<1>2. Ranges
  BY <1>1, IdleFacts DEF Init, Ranges
<1>3. vault # NoRecord => legacy \in {NoKey, vault.key}
  BY DEF Init
<1> QED
  BY <1>1, <1>2, <1>3, IdleFacts
  DEF Init, KeyInv, OpInv, SealInv, OneKey, KeyIsKept, RamIsSession, CachedIsWallet

\* encryptAndStore fails: its caller returns, or puts the old record back.
LEMMA SealFailsKeeps ==
  ASSUME KeyInv, SealFails, op.name \in {"create", "unlock"}, op.phase \in Seal,
         UNCHANGED <<legacy, cached, ram, unlocked, wallet, known, misread>>,
         vault' \in {vault, NoRecord},
         vault' # vault => legacy # NoKey
  PROVE  KeyInv'
<1> USE DEF KeyInv, Ranges, OneKey, KeyIsKept, StoredKey, RamIsSession, CachedIsWallet,
            OpInv, SealInv
<1>0. op # Idle
  BY IdleFacts
<1>1. CASE op.name = "create"
  <2>1. op' = Idle /\ CreateInv
    BY <1>0, <1>1 DEF SealFails
  <2> QED
    BY <1>0, <2>1, IdleFacts DEF CreateInv
<1>2. CASE op.name = "unlock"
  <2>1. To("rollback") /\ UnlockInv
    BY <1>0, <1>2 DEF SealFails
  <2>2. /\ op' \in OpType
        /\ op'.phase = "rollback" /\ op'.name = op.name /\ op'.key = op.key
        /\ op'.pin = op.pin /\ op'.previous = op.previous
    BY <2>1, ToFacts
  <2>3. UnlockInv' /\ op' # Idle
    BY <1>2, <2>1, <2>2, IdleFacts DEF UnlockInv
  <2> QED
    BY <1>0, <1>2, <2>2, <2>3 DEF Seal
<1> QED
  BY <1>1, <1>2

\* A call that succeeds has its key in NVS.
LEMMA OpenedKeeps ==
  ASSUME KeyInv, op # Idle, Opened(op.key, op.pin), op.key \in Key,
         vault' \in Record, vault'.key = op.key,
         legacy' \in {legacy, NoKey}, misread' = misread
  PROVE  KeyInv'
<1> USE DEF KeyInv, Ranges, OneKey
<1>1. wallet' \in Key \cup {NoKey} /\ wallet' # NoKey
  BY VaultAssumption DEF Opened
<1>2. vault' # NoRecord
  BY RecordFacts
<1>3. ~misread => wallet' = op.key /\ legacy' \in {NoKey, op.key}
  BY DEF Opened
<1>4. ~misread' => cached' \in {NoKey, wallet'}
  BY <1>3 DEF Opened, CachedIsWallet
<1> QED
  BY <1>1, <1>2, <1>3, <1>4, IdleFacts
  DEF Opened, KeyIsKept, StoredKey, RamIsSession, CachedIsWallet, OpInv, SealInv

-----------------------------------------------------------------------------
(* encryptAndStore *)

LEMMA SealKeeps ==
  KeyInv /\ (SealPut \/ SealVerify \/ SealClear \/ SealUndo) => KeyInv'
<1> SUFFICES ASSUME KeyInv, SealPut \/ SealVerify \/ SealClear \/ SealUndo
             PROVE  KeyInv'
  OBVIOUS
<1> USE DEF session, history
<1>0. /\ op \in OpType /\ op # Idle
      /\ op.name \in {"create", "unlock"} /\ op.phase \in Seal
      /\ op.key \in Key /\ op.pin \in Pin
  BY IdleFacts DEF SealPut, SealVerify, SealClear, SealUndo, Sealing, Seal,
     KeyInv, Ranges, OpInv, CreateInv, UnlockInv
<1>1. Sealed(op.key, op.pin) \in Record /\ Sealed(op.key, op.pin).key = op.key
  BY <1>0, SealedFacts
\* A seal that goes on to its next phase.
<1>2. ASSUME NEW phase \in Seal \ {"put"}, To(phase),
             vault' = Sealed(op.key, op.pin),
             UNCHANGED <<legacy, cached, ram, unlocked, wallet, misread>>,
             phase \in {"clear", "undo"} \/ op.plain => legacy # NoKey
      PROVE  KeyInv'
  <2>1. /\ op' \in OpType
        /\ op'.phase = phase /\ op'.name = op.name /\ op'.key = op.key
        /\ op'.pin = op.pin /\ op'.plain = op.plain /\ op'.previous = op.previous
    BY <1>0, <1>2, ToFacts
  <2>2. vault' \in Record /\ vault' # NoRecord /\ vault'.key = op.key /\ op' # Idle
    BY <1>0, <1>1, <1>2, <2>1, RecordFacts, IdleFacts
  <2>3. Ranges'
    BY <1>2, <2>1, <2>2 DEF KeyInv, Ranges
  <2>4. OpInv'
    BY <1>0, <1>2, <2>1, <2>2 DEF KeyInv, OpInv, CreateInv, UnlockInv, Seal
  <2>5. SealInv'
    BY <1>2, <2>1 DEF SealInv, Sealed
  <2>6. OneKey'
    BY <1>0, <1>2, <2>1, <2>2 DEF KeyInv, OneKey
  <2>7. KeyIsKept' /\ RamIsSession' /\ CachedIsWallet'
    BY <1>0, <1>2, <2>2 DEF KeyInv, OneKey, KeyIsKept, StoredKey, RamIsSession, CachedIsWallet
  <2> QED
    BY <2>3, <2>4, <2>5, <2>6, <2>7 DEF KeyInv
<1>3. CASE SealPut
  <2>1. op.phase = "put" /\ (op.plain => legacy # NoKey)
    BY <1>0, <1>3 DEF SealPut, Sealing, KeyInv, SealInv
  <2>2. CASE vault' = Sealed(op.key, op.pin) /\ To("verify")
    BY <1>2, <1>3, <2>1, <2>2 DEF SealPut, Seal
  <2>3. CASE SealFails /\ UNCHANGED vault
    BY <1>0, <1>3, <2>3, SealFailsKeeps DEF SealPut
  <2> QED
    BY <1>3, <2>2, <2>3 DEF SealPut
<1>4. CASE SealVerify
  <2>1. op.phase = "verify" /\ (op.plain => legacy # NoKey) /\ vault = Sealed(op.key, op.pin)
    BY <1>0, <1>4 DEF SealVerify, Sealing, KeyInv, SealInv
  <2>2. CASE op.plain /\ To("clear") /\ UNCHANGED <<cached, session, wallet, known>>
    BY <1>2, <1>4, <2>1, <2>2 DEF SealVerify, Seal
  <2>3. CASE Opened(op.key, op.pin)
    BY <1>0, <1>1, <1>4, <2>1, <2>3, OpenedKeeps DEF SealVerify
  <2>4. CASE SealFails /\ UNCHANGED <<cached, session, wallet, known>>
    BY <1>0, <1>4, <2>4, SealFailsKeeps DEF SealVerify
  <2> QED
    BY <1>4, <2>2, <2>3, <2>4 DEF SealVerify
<1>5. CASE SealClear
  <2>1. op.phase = "clear" /\ legacy # NoKey /\ vault = Sealed(op.key, op.pin)
    BY <1>0, <1>5 DEF SealClear, Sealing, KeyInv, SealInv
  <2>2. CASE legacy' = NoKey /\ Opened(op.key, op.pin)
    BY <1>0, <1>1, <1>5, <2>1, <2>2, OpenedKeeps DEF SealClear
  <2>3. CASE To("undo") /\ UNCHANGED <<legacy, cached, session, wallet, known>>
    BY <1>2, <1>5, <2>1, <2>3 DEF SealClear, Seal
  <2> QED
    BY <1>5, <2>2, <2>3 DEF SealClear
<1>6. CASE SealUndo
  <2>1. legacy # NoKey
    BY <1>0, <1>6 DEF SealUndo, Sealing, KeyInv, SealInv
  <2>2. vault' \in {vault, NoRecord}
    BY <1>6 DEF SealUndo
  <2> QED
    BY <1>0, <1>6, <2>1, <2>2, SealFailsKeeps DEF SealUndo
<1> QED
  BY <1>3, <1>4, <1>5, <1>6

-----------------------------------------------------------------------------
(* createOrEncrypt, unlock, changePin, lock and a power cut. *)

\* A new key is sealed only if there is nothing to lose, or a read went wrong.
LEMMA CreateKeeps ==
  ASSUME NEW pin \in Pin, KeyInv, CreateOrEncrypt(pin)
  PROVE  KeyInv'
<1> USE DEF nvs, session
<1>1. PICK seen \in LegacySeen, plain \in LegacySeen :
        \E source \in IF seen THEN {legacy} ELSE Key \ {legacy, StoredKey, wallet} :
           /\ op' = [name |-> "create", phase |-> "put", key |-> source, pin |-> pin,
                     plain |-> plain, previous |-> NoRecord]
           /\ misread' = (misread \/ vault # NoRecord \/ seen # (legacy # NoKey))
  BY DEF CreateOrEncrypt
<1>2. PICK source \in IF seen THEN {legacy} ELSE Key \ {legacy, StoredKey, wallet} :
           /\ op' = [name |-> "create", phase |-> "put", key |-> source, pin |-> pin,
                     plain |-> plain, previous |-> NoRecord]
           /\ misread' = (misread \/ vault # NoRecord \/ seen # (legacy # NoKey))
  BY <1>1
<1>3. /\ seen \in BOOLEAN /\ plain \in BOOLEAN
      /\ (seen => legacy # NoKey) /\ (plain => legacy # NoKey)
  BY LegacyFacts
<1>4. source \in Key
  BY <1>3, <1>2 DEF KeyInv, Ranges
<1>5. /\ op'.name = "create" /\ op'.phase = "put" /\ op'.key = source /\ op'.pin = pin
      /\ op'.plain = plain /\ op'.previous = NoRecord
      /\ op' \in OpType /\ op' # Idle
  BY <1>2, <1>3, <1>4, IdleFacts DEF OpType, Seal
<1>6. /\ op = Idle /\ ~unlocked
      /\ UNCHANGED <<vault, legacy, cached, ram, unlocked, wallet>>
  BY DEF CreateOrEncrypt
<1>7. Ranges'
  BY <1>2, <1>5, <1>6 DEF KeyInv, Ranges
<1>8. OpInv'
  BY <1>4, <1>5, <1>6 DEF KeyInv, RamIsSession, OpInv, CreateInv, Seal
<1>9. SealInv'
  BY <1>3, <1>5, <1>6 DEF SealInv
<1>10. ~misread' => vault = NoRecord /\ ~misread
                    /\ legacy \in {NoKey, source} /\ wallet \in {NoKey, source}
  <2> SUFFICES ASSUME ~misread'
               PROVE  vault = NoRecord /\ ~misread
                      /\ legacy \in {NoKey, source} /\ wallet \in {NoKey, source}
    OBVIOUS
  <2>1. ~misread /\ vault = NoRecord /\ (seen <=> legacy # NoKey)
    BY <1>2, <1>3
  <2>2. wallet \in {NoKey, legacy}
    BY <2>1 DEF KeyInv, KeyIsKept, StoredKey
  <2>3. legacy \in {NoKey, source}
    BY <2>1
  <2> QED
    BY <2>1, <2>2, <2>3
<1>11. OneKey'
  BY <1>10, <1>5, <1>6 DEF OneKey
<1>12. KeyIsKept' /\ CachedIsWallet'
  BY <1>10, <1>6 DEF KeyInv, KeyIsKept, StoredKey, CachedIsWallet
<1> QED
  BY <1>5, <1>7, <1>8, <1>9, <1>11, <1>12 DEF KeyInv, RamIsSession

\* A step that ends or begins a call without writing NVS needs only what it
\* says about the call and the session.
LEMMA ReadOnlyKeeps ==
  ASSUME KeyInv, UNCHANGED <<vault, legacy, cached, wallet, misread>>,
         op' \in OpType, OpInv', SealInv', RamIsSession',
         op' # Idle /\ ~misread => legacy \in {NoKey, op'.key} /\ wallet \in {NoKey, op'.key}
  PROVE  KeyInv'
BY DEF KeyInv, Ranges, OneKey, KeyIsKept, StoredKey, CachedIsWallet

LEMMA UnlockKeeps ==
  ASSUME NEW pin \in Pin, KeyInv, Unlock(pin)
  PROVE  KeyInv'
<1> USE DEF nvs, history
<1>1. /\ op = Idle /\ ~unlocked'
      /\ UNCHANGED <<vault, legacy, cached, wallet, misread>>
  BY DEF Unlock
<1>2. CASE op' = op /\ ram' = NoKey
  BY <1>1, <1>2, ReadOnlyKeeps, IdleFacts DEF KeyInv, OpInv, SealInv, RamIsSession
<1>3. CASE /\ vault # NoRecord /\ ram' = vault.key
           /\ op' = [name |-> "unlock", phase |-> "migrate", key |-> vault.key,
                     pin |-> pin, plain |-> FALSE, previous |-> vault]
  <2>1. vault \in Record /\ vault.key \in Key
    BY <1>3, RecordFacts DEF KeyInv, Ranges
  <2>2. /\ op'.name = "unlock" /\ op'.phase = "migrate" /\ op'.key = vault.key
        /\ op'.pin = pin /\ op'.plain = FALSE /\ op'.previous = vault
        /\ op' \in OpType /\ op' # Idle
    BY <1>3, <2>1, IdleFacts DEF OpType
  <2>3. OpInv' /\ SealInv' /\ RamIsSession'
    BY <1>1, <1>3, <2>1, <2>2 DEF OpInv, UnlockInv, SealInv, RamIsSession
  <2>4. ~misread => legacy \in {NoKey, vault.key} /\ wallet \in {NoKey, vault.key}
    BY <1>3 DEF KeyInv, OneKey, KeyIsKept, StoredKey
  <2> QED
    BY <1>1, <2>2, <2>3, <2>4, ReadOnlyKeeps
<1> QED
  BY <1>2, <1>3 DEF Unlock

\* What every later step of unlock and changePin starts from.
LEMMA UnlockFacts ==
  ASSUME KeyInv, op.name = "unlock"
  PROVE  UnlockInv /\ op \in OpType /\ op # Idle
BY IdleFacts DEF KeyInv, Ranges, OpInv

LEMMA ChangeFacts ==
  ASSUME KeyInv, op.name = "change"
  PROVE  ChangeInv /\ op \in OpType /\ op # Idle
BY IdleFacts DEF KeyInv, Ranges, OpInv

\* unlock's own steps: the record stays what it was.
LEMMA MigrateKeeps ==
  ASSUME KeyInv, UnlockMigrate
  PROVE  KeyInv'
<1> USE DEF session, history
<1>1. /\ UnlockInv /\ op \in OpType /\ op # Idle
      /\ op.name = "unlock" /\ op.phase = "migrate"
      /\ UNCHANGED <<vault, cached, wallet, misread>>
  BY UnlockFacts DEF UnlockMigrate, Is
<1>2. vault = op.previous /\ vault \in Record /\ vault.key = op.key /\ vault # NoRecord
  BY <1>1, RecordFacts DEF UnlockInv
<1>3. CASE To("rewrap") /\ legacy' \in {legacy, NoKey} /\ UNCHANGED <<ram, unlocked>>
  <2>1. /\ op' \in OpType
        /\ op'.phase = "rewrap" /\ op'.name = op.name /\ op'.key = op.key
        /\ op'.pin = op.pin /\ op'.previous = op.previous
    BY <1>1, <1>3, ToFacts
  <2>2. op' # Idle /\ Ranges'
    BY <1>1, <1>3, <2>1, IdleFacts DEF KeyInv, Ranges
  <2>3. OpInv' /\ SealInv'
    BY <1>1, <1>3, <2>1 DEF OpInv, UnlockInv, SealInv
  <2>4. OneKey' /\ KeyIsKept' /\ CachedIsWallet' /\ RamIsSession'
    BY <1>1, <1>2, <1>3, <2>1, <2>2
    DEF KeyInv, OneKey, KeyIsKept, StoredKey, CachedIsWallet, RamIsSession
  <2> QED
    BY <2>2, <2>3, <2>4 DEF KeyInv
<1>4. CASE ram' = NoKey /\ op' = Idle /\ UNCHANGED <<legacy, unlocked>>
  <2>1. OpInv' /\ SealInv' /\ RamIsSession' /\ op' \in OpType
    BY <1>1, <1>4, IdleFacts DEF OpInv, SealInv, RamIsSession, UnlockInv
  <2> QED
    BY <1>1, <1>4, <2>1, ReadOnlyKeeps
<1> QED
  BY <1>3, <1>4 DEF UnlockMigrate

LEMMA RewrapKeeps ==
  ASSUME KeyInv, UnlockRewrap
  PROVE  KeyInv'
<1> USE DEF session, history
<1>1. /\ UnlockInv /\ op \in OpType /\ op # Idle
      /\ op.name = "unlock" /\ op.phase = "rewrap"
      /\ UNCHANGED <<vault, legacy, misread>>
  BY UnlockFacts DEF UnlockRewrap, Is
<1>2. /\ vault = op.previous /\ vault \in Record /\ vault.key = op.key
      /\ op.key \in Key
  BY <1>1 DEF UnlockInv
<1>3. CASE Opened(op.key, op.pin)
  BY <1>1, <1>2, <1>3, OpenedKeeps
<1>4. ASSUME op' \in OpType, op'.phase \in {"put", "rollback"}, op'.name = op.name,
             op'.key = op.key, op'.pin = op.pin, op'.previous = op.previous,
             op'.plain /\ op'.phase = "put" => legacy # NoKey,
             UNCHANGED <<cached, ram, unlocked, wallet, known>>
      PROVE  KeyInv'
  <2>1. op' # Idle
    BY <1>1, <1>4, IdleFacts
  <2>2. OpInv' /\ SealInv' /\ RamIsSession'
    BY <1>1, <1>4, <2>1 DEF OpInv, UnlockInv, SealInv, RamIsSession, Seal
  <2>3. ~misread => legacy \in {NoKey, op.key} /\ wallet \in {NoKey, op.key}
    BY <1>1 DEF KeyInv, OneKey
  <2> QED
    BY <1>1, <1>4, <2>1, <2>2, <2>3, ReadOnlyKeeps
<1>5. ASSUME NEW plain \in LegacySeen, op' = [op EXCEPT !.phase = "put", !.plain = plain],
             UNCHANGED <<cached, ram, unlocked, wallet, known>>
      PROVE  KeyInv'
  <2>1. plain \in BOOLEAN /\ (plain => legacy # NoKey)
    BY <1>5, LegacyFacts
  <2>2. /\ op' \in OpType /\ op'.phase = "put" /\ op'.name = op.name /\ op'.key = op.key
        /\ op'.pin = op.pin /\ op'.plain = plain /\ op'.previous = op.previous
    BY <1>1, <1>5, <2>1 DEF OpType, Seal
  <2> QED
    BY <1>4, <1>5, <2>1, <2>2
<1>6. CASE To("rollback") /\ UNCHANGED <<cached, ram, unlocked, wallet, known>>
  <2>1. /\ op' \in OpType
        /\ op'.phase = "rollback" /\ op'.name = op.name /\ op'.key = op.key
        /\ op'.pin = op.pin /\ op'.previous = op.previous
    BY <1>1, <1>6, ToFacts
  <2> QED
    BY <1>4, <1>6, <2>1
<1> QED
  BY <1>3, <1>5, <1>6 DEF UnlockRewrap

LEMMA UnlockRollbackKeeps ==
  ASSUME KeyInv, UnlockRollback
  PROVE  KeyInv'
<1>1. /\ UnlockInv /\ op \in OpType /\ op # Idle
      /\ UNCHANGED <<legacy, misread>>
  BY UnlockFacts DEF UnlockRollback, Is
<1>2. CASE vault' = op.previous /\ Opened(op.key, op.pin)
  BY <1>1, <1>2, OpenedKeeps DEF UnlockInv
<1>3. CASE ram' = NoKey /\ op' = Idle /\ UNCHANGED <<vault, cached, unlocked, wallet, known>>
  <2>1. OpInv' /\ SealInv' /\ RamIsSession' /\ op' \in OpType
    BY <1>1, <1>3, IdleFacts DEF OpInv, SealInv, RamIsSession, UnlockInv
  <2> QED
    BY <1>1, <1>3, <2>1, ReadOnlyKeeps
<1> QED
  BY <1>2, <1>3 DEF UnlockRollback

LEMMA ChangePinKeeps ==
  ASSUME NEW pin \in Pin, KeyInv, ChangePin(pin)
  PROVE  KeyInv'
<1> USE DEF nvs, session
<1>1. /\ op = Idle /\ unlocked /\ vault \in Record /\ ram = vault.key
      /\ vault.key \in Key /\ vault # NoRecord /\ (misread \/ wallet = vault.key)
      /\ UNCHANGED <<vault, legacy, cached, wallet, misread, ram, unlocked>>
  BY RecordFacts DEF ChangePin, KeyInv, Ranges, RamIsSession, StoredKey
<1>2. /\ op'.name = "change" /\ op'.phase = "put" /\ op'.key = vault.key
      /\ op'.pin = pin /\ op'.previous = vault
      /\ op' \in OpType /\ op' # Idle
  BY <1>1, IdleFacts DEF ChangePin, OpType, Seal
<1>3. OpInv' /\ SealInv' /\ RamIsSession'
  BY <1>1, <1>2 DEF OpInv, ChangeInv, SealInv, RamIsSession
<1>4. ~misread => legacy \in {NoKey, vault.key} /\ wallet \in {NoKey, vault.key}
  BY <1>1 DEF KeyInv, OneKey
<1> QED
  BY <1>1, <1>2, <1>3, <1>4, ReadOnlyKeeps

\* Whatever changePin writes is a record of the same key.
LEMMA ChangeKeeps ==
  ASSUME KeyInv, ChangePut \/ ChangeVerify \/ ChangeRollback
  PROVE  KeyInv'
<1> USE DEF nvs, session, history
<1>1. /\ ChangeInv /\ op \in OpType /\ op # Idle /\ op.name = "change"
      /\ UNCHANGED <<legacy, cached, wallet, misread>>
  BY ChangeFacts DEF ChangePut, ChangeVerify, ChangeRollback, Is
<1>2. /\ op.key \in Key /\ vault \in Record /\ vault.key = op.key
      /\ op.previous \in Record /\ op.previous.key = op.key
      /\ Sealed(op.key, op.pin) \in Record /\ Sealed(op.key, op.pin).key = op.key
  BY <1>1, SealedFacts DEF ChangeInv, KeyInv, Ranges
<1>3. /\ vault' \in {vault, op.previous, Sealed(op.key, op.pin)}
      /\ \/ op' = Idle /\ UNCHANGED <<ram, unlocked>>
         \/ op' = Idle /\ ram' = NoKey /\ unlocked' = FALSE
         \/ (To("verify") \/ To("rollback")) /\ UNCHANGED <<ram, unlocked>>
  BY DEF ChangePut, ChangeVerify, ChangeRollback
<1>4. vault' \in Record /\ vault'.key = op.key /\ vault' # NoRecord
  BY <1>2, <1>3, RecordFacts
<1>5. /\ ~misread => legacy \in {NoKey, op.key} /\ wallet = op.key
      /\ ram = op.key /\ unlocked
  BY <1>1 DEF KeyInv, OneKey, ChangeInv
<1>6. KeyIsKept' /\ CachedIsWallet'
  BY <1>1, <1>4, <1>5 DEF KeyInv, KeyIsKept, StoredKey, CachedIsWallet
<1>7. CASE op' = Idle
  <2>1. Ranges' /\ OpInv' /\ SealInv' /\ OneKey'
    BY <1>1, <1>4, <1>5, <1>7, IdleFacts DEF KeyInv, Ranges, OpInv, SealInv, OneKey
  <2>2. \/ unlocked' /\ ram' = op.key
        \/ ~unlocked' /\ ram' = NoKey
    <3>1. CASE UNCHANGED <<ram, unlocked>>
      BY <1>5, <3>1
    <3>2. CASE ram' = NoKey /\ unlocked' = FALSE
      BY <3>2
    <3> QED
      BY <1>3, <3>1, <3>2
  <2>3. RamIsSession'
    BY <1>1, <1>4, <1>5, <2>2 DEF RamIsSession, StoredKey
  <2> QED
    BY <1>6, <2>1, <2>3 DEF KeyInv
<1>8. ASSUME NEW phase \in {"verify", "rollback"}, To(phase), UNCHANGED <<ram, unlocked>>
      PROVE  KeyInv'
  <2>1. /\ op' \in OpType
        /\ op'.phase = phase /\ op'.name = op.name /\ op'.key = op.key
        /\ op'.pin = op.pin /\ op'.previous = op.previous
    BY <1>1, <1>8, ToFacts DEF Seal
  <2>2. op' # Idle
    BY <1>1, <2>1, IdleFacts
  <2>3. Ranges' /\ SealInv' /\ OneKey' /\ RamIsSession'
    BY <1>1, <1>4, <1>5, <2>1, <2>2 DEF KeyInv, Ranges, SealInv, OneKey, RamIsSession
  <2>4. OpInv'
    BY <1>1, <1>4, <1>8, <2>1 DEF OpInv, ChangeInv
  <2> QED
    BY <1>6, <2>3, <2>4 DEF KeyInv
<1> QED
  BY <1>3, <1>7, <1>8

\* A call that is cut short leaves no more than the records it wrote.
LEMMA StopKeeps ==
  ASSUME KeyInv, Lock \/ Crash
  PROVE  KeyInv'
<1> USE DEF nvs, history
<1>1. /\ UNCHANGED <<vault, legacy, cached, wallet, misread>>
      /\ op' = Idle /\ ram' = NoKey /\ unlocked' = FALSE
  BY DEF Lock, Crash
<1>2. OpInv' /\ SealInv' /\ RamIsSession' /\ op' \in OpType
  BY <1>1, IdleFacts DEF OpInv, SealInv, RamIsSession
<1> QED
  BY <1>1, <1>2, ReadOnlyKeeps

LEMMA KeyStep == KeyInv /\ [Next]_vars => KeyInv'
<1> SUFFICES ASSUME KeyInv, [Next]_vars PROVE KeyInv'
  OBVIOUS
<1>1. CASE \E pin \in Pin : CreateOrEncrypt(pin) \/ Unlock(pin) \/ ChangePin(pin)
  BY <1>1, CreateKeeps, UnlockKeeps, ChangePinKeeps
<1>2. CASE SealPut \/ SealVerify \/ SealClear \/ SealUndo
  BY <1>2, SealKeeps
<1>3. CASE UnlockMigrate \/ UnlockRewrap \/ UnlockRollback
  BY <1>3, MigrateKeeps, RewrapKeeps, UnlockRollbackKeeps
<1>4. CASE ChangePut \/ ChangeVerify \/ ChangeRollback
  BY <1>4, ChangeKeeps
<1>5. CASE Lock \/ Crash
  BY <1>5, StopKeeps
<1>6. CASE UNCHANGED vars
  <2>1. UNCHANGED <<vault, legacy, cached, ram, unlocked, op, wallet, known, misread>>
    BY <1>6 DEF vars
  <2>2. KeyInv' <=> KeyInv
    BY <2>1 DEF KeyInv, Ranges, OpInv, CreateInv, UnlockInv, ChangeInv, SealInv, OneKey,
       KeyIsKept, StoredKey, RamIsSession, CachedIsWallet
  <2> QED
    BY <2>2
<1> QED
  BY <1>1, <1>2, <1>3, <1>4, <1>5, <1>6 DEF Next

-----------------------------------------------------------------------------

\* In every reachable state the calls keep to what they rely on.
THEOREM KeyCorrect == Spec => []KeyInv
BY KeyInit, KeyStep, PTL DEF Spec

\* No failing write, removal or check in createOrEncrypt, unlock or changePin and
\* no power cut inside one loses the key whose address the user was shown, as
\* long as no read that createOrEncrypt decides by has failed (misread): such a
\* read can make it seal a new key over the old one.
THEOREM KeyIsNeverLost == Spec => []KeyIsKept
<1>1. KeyInv => KeyIsKept
  BY DEF KeyInv
<1> QED
  BY <1>1, KeyCorrect, PTL

\* Between calls a locked vault has wiped its key from RAM, and an open one
\* signs with the key NVS has.
THEOREM SessionHasStoredKey == Spec => []RamIsSession
<1>1. KeyInv => RamIsSession
  BY DEF KeyInv
<1> QED
  BY <1>1, KeyCorrect, PTL

\* The address the locked screen shows from NVS belongs to the wallet's key, as
\* long as createOrEncrypt has not misread.
THEOREM CacheIsRight == Spec => []CachedIsWallet
<1>1. KeyInv => CachedIsWallet
  BY DEF KeyInv
<1> QED
  BY <1>1, KeyCorrect, PTL

-----------------------------------------------------------------------------
(* A known PIN always opens the vault, an open vault has no plaintext key  *)
(* beside it that it could read, and every variable keeps its range: on    *)
(* top of KeyInv.                                                          *)

\* The PIN of the record, of the call under way and of the record it would put
\* back are all PINs the user has reason to try.
PinInv ==
  /\ vault # NoRecord => vault.pin \in known
  /\ op # Idle => op.pin \in known
  /\ op.name = "unlock" => op.previous.pin = op.pin
  /\ op.name = "change" => op.previous.pin \in known

\* A plaintext key that is still there is known to the call that seals.
PlainInv ==
  /\ unlocked /\ ~blind => legacy = NoKey
  /\ op.name = "create" /\ op.phase \in {"put", "verify"} /\ ~blind /\ ~op.plain
       => legacy = NoKey
  /\ op.name = "unlock" /\ op.phase # "migrate" /\ ~blind => legacy = NoKey

\* What TypeOK asks beyond Ranges.
ShapeInv ==
  /\ cached \in Key \cup {NoKey} /\ ram \in Key \cup {NoKey}
  /\ unlocked \in BOOLEAN /\ blind \in BOOLEAN
  /\ known \in SUBSET Pin
  /\ op.name = "create" => op.previous = NoRecord
  /\ op.name = "change" => op.plain = FALSE

-----------------------------------------------------------------------------

LEMMA SealedPin ==
  ASSUME NEW key, NEW pin
  PROVE  Sealed(key, pin).pin = pin
BY DEF Sealed

LEMMA CallName ==
  ASSUME KeyInv, op # Idle
  PROVE  /\ op.name \in {"create", "unlock", "change"}
         /\ op \in OpType /\ op.key \in Key /\ op.pin \in Pin
BY DEF KeyInv, OpInv, CreateInv, UnlockInv, ChangeInv, Ranges

LEMMA SealStart ==
  ASSUME KeyInv, SealPut \/ SealVerify \/ SealClear \/ SealUndo
  PROVE  /\ op # Idle /\ op \in OpType /\ op.name \in {"create", "unlock"}
         /\ op.phase \in Seal
         /\ op.name = "create" => ~unlocked /\ ram = NoKey
         /\ op.name = "unlock" => ~unlocked
BY IdleFacts DEF SealPut, SealVerify, SealClear, SealUndo, Sealing, Seal, KeyInv,
   Ranges, OpInv, CreateInv, UnlockInv

LEMMA ExtraInit == Init => PinInv /\ PlainInv /\ ShapeInv
<1> SUFFICES ASSUME Init PROVE PinInv /\ PlainInv /\ ShapeInv
  OBVIOUS
<1>1. op = Idle /\ op.name = "none"
  BY IdleFacts DEF Init
<1>2. PinInv
  <2>1. CASE vault = NoRecord
    BY <1>1, <2>1 DEF PinInv
  <2>2. CASE vault \in Record /\ known = {vault.pin}
    BY <1>1, <2>2 DEF PinInv
  <2> QED BY <2>1, <2>2 DEF Init
<1>3. known \in SUBSET Pin
  <2>1. CASE known = {}
    BY <2>1
  <2>2. CASE vault \in Record /\ known = {vault.pin}
    BY <2>2, RecordFacts
  <2> QED BY <2>1, <2>2 DEF Init
<1> QED
  BY <1>1, <1>2, <1>3 DEF Init, PlainInv, ShapeInv

\* encryptAndStore in either caller.
LEMMA SealExtra ==
  ASSUME KeyInv, PinInv, PlainInv, ShapeInv,
         SealPut \/ SealVerify \/ SealClear \/ SealUndo
  PROVE  PinInv' /\ PlainInv' /\ ShapeInv'
<1> USE DEF session, history
<1>1. /\ op # Idle /\ op \in OpType /\ op.name \in {"create", "unlock"}
      /\ op.phase \in Seal /\ ~unlocked /\ op.key \in Key /\ op.pin \in Pin
  BY SealStart, CallName
<1>2. Sealed(op.key, op.pin).pin = op.pin /\ op.pin \in known
  BY <1>1, SealedPin DEF PinInv
<1>3. Idle.name = "none"
  BY IdleFacts
\* The seal goes on in another phase, or a rewrap rolls back.
<1>4. ASSUME NEW phase \in {"rollback"} \cup (Seal \ {"put"}), To(phase),
             vault' \in {vault, NoRecord, Sealed(op.key, op.pin)},
             phase = "verify" => op.phase = "put",
             UNCHANGED <<legacy, cached, ram, unlocked, wallet, known, misread, blind>>
      PROVE  PinInv' /\ PlainInv' /\ ShapeInv'
  <2>1. /\ op'.phase = phase /\ op'.name = op.name /\ op'.pin = op.pin
        /\ op'.plain = op.plain /\ op'.previous = op.previous
    BY <1>1, <1>4, ToFacts
  <2>2. PinInv'
    BY <1>1, <1>2, <1>4, <2>1 DEF PinInv
  <2>3. PlainInv'
    BY <1>1, <1>4, <2>1 DEF PlainInv, Seal
  <2> QED BY <1>1, <1>4, <2>1, <2>2, <2>3 DEF ShapeInv
\* The call gives up.
<1>5. ASSUME op' = Idle, vault' \in {vault, NoRecord},
             UNCHANGED <<legacy, cached, ram, unlocked, wallet, known, misread, blind>>
      PROVE  PinInv' /\ PlainInv' /\ ShapeInv'
  BY <1>1, <1>3, <1>5 DEF PinInv, PlainInv, ShapeInv
\* The call succeeds.
<1>6. ASSUME Opened(op.key, op.pin), vault' = Sealed(op.key, op.pin), blind' = blind,
             ~blind => legacy' = NoKey
      PROVE  PinInv' /\ PlainInv' /\ ShapeInv'
  BY <1>1, <1>2, <1>3, <1>6 DEF Opened, PinInv, PlainInv, ShapeInv
<1>7. CASE SealPut
  <2>1. CASE vault' = Sealed(op.key, op.pin) /\ To("verify")
    BY <1>4, <1>7, <2>1 DEF SealPut, Sealing, Seal
  <2>2. CASE SealFails /\ UNCHANGED vault
    BY <1>4, <1>5, <1>7, <2>2 DEF SealPut, SealFails
  <2> QED BY <1>7, <2>1, <2>2 DEF SealPut
<1>8. CASE SealVerify
  <2>1. op.phase = "verify" /\ vault = Sealed(op.key, op.pin)
    BY <1>1, <1>8 DEF SealVerify, Sealing, KeyInv, SealInv
  <2>2. CASE op.plain /\ To("clear") /\ UNCHANGED <<cached, session, wallet, known>>
    BY <1>4, <1>8, <2>2 DEF SealVerify, Seal
  <2>3. CASE ~op.plain /\ Opened(op.key, op.pin)
    BY <1>1, <1>6, <1>8, <2>1, <2>3 DEF SealVerify, PlainInv
  <2>4. CASE SealFails /\ UNCHANGED <<cached, session, wallet, known>>
    BY <1>4, <1>5, <1>8, <2>4 DEF SealVerify, SealFails
  <2> QED BY <1>8, <2>2, <2>3, <2>4 DEF SealVerify
<1>9. CASE SealClear
  <2>1. op.phase = "clear" /\ vault = Sealed(op.key, op.pin)
    BY <1>1, <1>9 DEF SealClear, Sealing, KeyInv, SealInv
  <2>2. CASE legacy' = NoKey /\ Opened(op.key, op.pin)
    BY <1>6, <1>9, <2>1, <2>2 DEF SealClear
  <2>3. CASE To("undo") /\ UNCHANGED <<legacy, cached, session, wallet, known>>
    BY <1>4, <1>9, <2>3 DEF SealClear, Seal
  <2> QED BY <1>9, <2>2, <2>3 DEF SealClear
<1>10. CASE SealUndo
  <2>1. vault' \in {vault, NoRecord}
    BY <1>10 DEF SealUndo
  <2> QED BY <1>4, <1>5, <1>10, <2>1 DEF SealUndo, SealFails
<1> QED
  BY <1>7, <1>8, <1>9, <1>10

\* createOrEncrypt, unlock and changePin begin.
LEMMA BeginExtra ==
  ASSUME NEW pin \in Pin, KeyInv, PinInv, PlainInv, ShapeInv,
         CreateOrEncrypt(pin) \/ Unlock(pin) \/ ChangePin(pin)
  PROVE  PinInv' /\ PlainInv' /\ ShapeInv'
<1> USE DEF nvs, session
<1>1. op = Idle /\ Idle.name = "none"
  BY IdleFacts DEF CreateOrEncrypt, Unlock, ChangePin
<1>2. CASE CreateOrEncrypt(pin)
  <2>1. PICK plain \in LegacySeen :
          /\ op'.name = "create" /\ op'.phase = "put" /\ op'.pin = pin
          /\ op'.plain = plain /\ op'.previous = NoRecord
          /\ blind' = (legacy # NoKey /\ ~plain)
    BY <1>2 DEF CreateOrEncrypt
  <2>2. /\ ~unlocked /\ known' = known \cup {pin}
        /\ UNCHANGED <<vault, legacy, cached, ram, unlocked, wallet>>
    BY <1>2 DEF CreateOrEncrypt
  <2>3. PinInv' /\ ShapeInv'
    BY <2>1, <2>2 DEF PinInv, ShapeInv
  <2>4. PlainInv'
    BY <2>1, <2>2, LegacyFacts DEF PlainInv
  <2> QED BY <2>3, <2>4
<1>3. CASE Unlock(pin)
  <2>1. /\ unlocked' = FALSE /\ blind' = FALSE
        /\ UNCHANGED <<vault, legacy, cached, wallet, known>>
    BY <1>3 DEF Unlock
  <2>2. CASE ram' = NoKey /\ op' = op
    BY <1>1, <2>1, <2>2 DEF PinInv, PlainInv, ShapeInv
  <2>3. CASE /\ vault # NoRecord /\ vault.pin = pin /\ ram' = vault.key
             /\ op' = [name |-> "unlock", phase |-> "migrate", key |-> vault.key,
                       pin |-> pin, plain |-> FALSE, previous |-> vault]
    <3>1. vault \in Record /\ vault.key \in Key
      BY <2>3, RecordFacts DEF KeyInv, Ranges
    <3>2. /\ op'.name = "unlock" /\ op'.phase = "migrate" /\ op'.pin = pin
          /\ op'.previous = vault
      BY <2>3
    <3>3. PinInv'
      BY <2>1, <2>3, <3>2 DEF PinInv
    <3>4. PlainInv' /\ ShapeInv'
      BY <2>1, <2>3, <3>1, <3>2 DEF PlainInv, ShapeInv
    <3> QED BY <3>3, <3>4
  <2> QED BY <1>3, <2>2, <2>3 DEF Unlock
<1>4. CASE ChangePin(pin)
  <2>1. /\ op'.name = "change" /\ op'.pin = pin /\ op'.plain = FALSE
        /\ op'.previous = vault /\ vault # NoRecord
        /\ known' = known \cup {pin}
        /\ UNCHANGED <<vault, legacy, cached, ram, unlocked, wallet, blind>>
    BY <1>4 DEF ChangePin
  <2> QED BY <2>1 DEF PinInv, PlainInv, ShapeInv
<1> QED
  BY <1>2, <1>3, <1>4

\* unlock's own steps.
LEMMA UnlockExtra ==
  ASSUME KeyInv, PinInv, PlainInv, ShapeInv,
         UnlockMigrate \/ UnlockRewrap \/ UnlockRollback
  PROVE  PinInv' /\ PlainInv' /\ ShapeInv'
<1> USE DEF session, history
<1>1. /\ op.name = "unlock" /\ op # Idle /\ op \in OpType /\ UnlockInv
      /\ op.key \in Key /\ op.pin \in Pin /\ ~unlocked
      /\ op.pin \in known /\ op.previous.pin = op.pin
  BY UnlockFacts DEF UnlockMigrate, UnlockRewrap, UnlockRollback, Is, UnlockInv, PinInv
<1>2. Idle.name = "none"
  BY IdleFacts
<1>3. CASE UnlockMigrate
  <2>1. op.phase = "migrate" /\ UNCHANGED <<vault, cached, wallet, known, unlocked>>
    BY <1>3 DEF UnlockMigrate, Is
  <2>2. CASE /\ To("rewrap") /\ UNCHANGED ram
             /\ \/ blind' = (legacy # NoKey) /\ UNCHANGED legacy
                \/ legacy' = NoKey /\ UNCHANGED blind
    <3>1. /\ op'.phase = "rewrap" /\ op'.name = "unlock" /\ op'.pin = op.pin
          /\ op'.previous = op.previous
      BY <1>1, <2>2, ToFacts
    <3> QED BY <1>1, <2>1, <2>2, <3>1 DEF PinInv, PlainInv, ShapeInv
  <2>3. CASE ram' = NoKey /\ op' = Idle /\ UNCHANGED <<legacy, unlocked, blind>>
    BY <1>1, <1>2, <2>1, <2>3 DEF PinInv, PlainInv, ShapeInv
  <2> QED BY <1>3, <2>2, <2>3 DEF UnlockMigrate
<1>4. CASE UnlockRewrap
  <2>1. op.phase = "rewrap" /\ vault = op.previous /\ UNCHANGED <<vault, legacy, blind>>
    BY <1>1, <1>4 DEF UnlockRewrap, Is, UnlockInv
  <2>2. CASE Opened(op.key, op.pin)
    BY <1>1, <1>2, <2>1, <2>2 DEF Opened, PinInv, PlainInv, ShapeInv
  <2>3. CASE /\ \/ \E plain \in LegacySeen : op' = [op EXCEPT !.phase = "put", !.plain = plain]
                \/ To("rollback")
             /\ UNCHANGED <<cached, ram, unlocked, wallet, known>>
    <3>1. /\ op'.phase \in {"put", "rollback"} /\ op'.name = "unlock" /\ op'.pin = op.pin
          /\ op'.previous = op.previous
      BY <1>1, <2>3, ToFacts DEF OpType
    <3> QED BY <1>1, <2>1, <2>3, <3>1 DEF PinInv, PlainInv, ShapeInv
  <2> QED BY <1>4, <2>2, <2>3 DEF UnlockRewrap
<1>5. CASE UnlockRollback
  <2>1. op.phase = "rollback" /\ UNCHANGED <<legacy, blind>>
    BY <1>5 DEF UnlockRollback, Is
  <2>2. CASE vault' = op.previous /\ Opened(op.key, op.pin)
    BY <1>1, <1>2, <2>1, <2>2 DEF Opened, PinInv, PlainInv, ShapeInv
  <2>3. CASE ram' = NoKey /\ op' = Idle /\ UNCHANGED <<vault, cached, unlocked, wallet, known>>
    BY <1>1, <1>2, <2>1, <2>3 DEF PinInv, PlainInv, ShapeInv
  <2> QED BY <1>5, <2>2, <2>3 DEF UnlockRollback
<1> QED
  BY <1>3, <1>4, <1>5

\* changePin's steps: old and new PIN are known until the change is decided.
LEMMA ChangeExtra ==
  ASSUME KeyInv, PinInv, PlainInv, ShapeInv, ChangePut \/ ChangeVerify \/ ChangeRollback
  PROVE  PinInv' /\ PlainInv' /\ ShapeInv'
<1> USE DEF nvs, session, history
<1>1. /\ op.name = "change" /\ op # Idle /\ op \in OpType /\ ChangeInv
      /\ op.key \in Key /\ op.pin \in Pin /\ op.previous \in Record
      /\ op.pin \in known /\ op.previous.pin \in known /\ op.previous.pin \in Pin
      /\ UNCHANGED <<legacy, cached, wallet, blind>>
  BY ChangeFacts, RecordFacts
  DEF ChangePut, ChangeVerify, ChangeRollback, Is, ChangeInv, PinInv
<1>2. Idle.name = "none" /\ Sealed(op.key, op.pin).pin = op.pin
  BY IdleFacts, SealedPin
<1>3. ASSUME NEW phase \in {"verify", "rollback"}, To(phase),
             vault' \in {vault, Sealed(op.key, op.pin)},
             UNCHANGED <<ram, unlocked, known>>
      PROVE  PinInv' /\ PlainInv' /\ ShapeInv'
  <2>1. /\ op'.name = "change" /\ op'.pin = op.pin /\ op'.plain = op.plain
        /\ op'.previous = op.previous
    BY <1>1, <1>3, ToFacts DEF Seal
  <2> QED BY <1>1, <1>2, <1>3, <2>1 DEF PinInv, PlainInv, ShapeInv
<1>4. CASE ChangePut
  BY <1>3, <1>4 DEF ChangePut
<1>5. CASE ChangeVerify
  <2>1. CASE vault = Sealed(op.key, op.pin) /\ op' = Idle /\ known' = {op.pin}
    BY <1>1, <1>2, <1>5, <2>1 DEF ChangeVerify, PinInv, PlainInv, ShapeInv
  <2>2. CASE To("rollback") /\ UNCHANGED known
    BY <1>3, <1>5, <2>2 DEF ChangeVerify
  <2> QED BY <1>5, <2>1, <2>2 DEF ChangeVerify
<1>6. CASE ChangeRollback
  <2>1. CASE vault' = op.previous /\ known' = {op.previous.pin} /\ UNCHANGED <<ram, unlocked>>
    BY <1>1, <1>2, <1>6, <2>1 DEF ChangeRollback, PinInv, PlainInv, ShapeInv
  <2>2. CASE /\ vault' \in {vault, op.previous}
             /\ ram' = NoKey /\ unlocked' = FALSE /\ UNCHANGED known
    BY <1>1, <1>2, <1>6, <2>2 DEF ChangeRollback, PinInv, PlainInv, ShapeInv
  <2> QED BY <1>6, <2>1, <2>2 DEF ChangeRollback
<1> QED
  BY <1>4, <1>5, <1>6

LEMMA ExtraStep ==
  KeyInv /\ PinInv /\ PlainInv /\ ShapeInv /\ [Next]_vars => PinInv' /\ PlainInv' /\ ShapeInv'
<1> SUFFICES ASSUME KeyInv, PinInv, PlainInv, ShapeInv, [Next]_vars
             PROVE  PinInv' /\ PlainInv' /\ ShapeInv'
  OBVIOUS
<1>1. CASE \E pin \in Pin : CreateOrEncrypt(pin) \/ Unlock(pin) \/ ChangePin(pin)
  BY <1>1, BeginExtra
<1>2. CASE SealPut \/ SealVerify \/ SealClear \/ SealUndo
  BY <1>2, SealExtra
<1>3. CASE UnlockMigrate \/ UnlockRewrap \/ UnlockRollback
  BY <1>3, UnlockExtra
<1>4. CASE ChangePut \/ ChangeVerify \/ ChangeRollback
  BY <1>4, ChangeExtra
<1>5. CASE Lock \/ Crash
  BY <1>5, IdleFacts DEF Lock, Crash, nvs, history, PinInv, PlainInv, ShapeInv
<1>6. CASE UNCHANGED vars
  BY <1>6 DEF vars, PinInv, PlainInv, ShapeInv
<1> QED
  BY <1>1, <1>2, <1>3, <1>4, <1>5, <1>6 DEF Next

LEMMA ExtraInvariant == Spec => [](KeyInv /\ PinInv /\ PlainInv /\ ShapeInv)
BY KeyInit, KeyStep, ExtraInit, ExtraStep, PTL DEF Spec

-----------------------------------------------------------------------------

\* The call under way has one of the shapes that Call lists.
LEMMA OpIsCall ==
  ASSUME KeyInv, ShapeInv, PlainInv
  PROVE  op \in Call \cup {Idle}
<1>1. CASE op = Idle
  BY <1>1
<1>2. CASE op.name = "create" /\ CreateInv
  <2>1. op \in [name : {"create"}, phase : Seal, key : Key, pin : Pin, plain : BOOLEAN,
                previous : {NoRecord}]
    BY <1>2 DEF KeyInv, Ranges, OpType, CreateInv, ShapeInv
  <2> QED BY <2>1 DEF Call
<1>3. CASE op.name = "unlock" /\ UnlockInv
  <2>1. op \in [name : {"unlock"}, phase : {"migrate", "rewrap"} \cup Seal \cup {"rollback"},
                key : Key, pin : Pin, plain : BOOLEAN, previous : Record]
    BY <1>3 DEF KeyInv, Ranges, OpType, UnlockInv
  <2> QED BY <2>1 DEF Call
<1>4. CASE op.name = "change" /\ ChangeInv
  <2>1. op \in [name : {"change"}, phase : {"put", "verify", "rollback"}, key : Key,
                pin : Pin, plain : {FALSE}, previous : Record]
    BY <1>4 DEF KeyInv, Ranges, OpType, ChangeInv, ShapeInv
  <2> QED BY <2>1 DEF Call
<1> QED
  BY <1>1, <1>2, <1>3, <1>4 DEF KeyInv, OpInv

\* Every variable of the key store keeps its range.
THEOREM VaultTypeCorrect == Spec => []TypeOK
<1>1. KeyInv /\ PlainInv /\ ShapeInv => TypeOK
  BY OpIsCall DEF TypeOK, KeyInv, Ranges, ShapeInv
<1> QED
  BY <1>1, ExtraInvariant, PTL

\* Whatever fails and wherever power is lost in createOrEncrypt, unlock or
\* changePin, a PIN that the user has reason to try opens the vault.
THEOREM KnownPinAlwaysOpens == Spec => []KnownPinOpens
<1>1. PinInv => KnownPinOpens
  BY DEF PinInv, KnownPinOpens
<1> QED
  BY <1>1, ExtraInvariant, PTL

\* encryptAndStore and unlock open the vault only with the plaintext key of an
\* early build gone, unless they could not read it.
THEOREM OpenVaultIsSealed == Spec => []OpenIsSealed
<1>1. PlainInv => OpenIsSealed
  BY DEF PlainInv, OpenIsSealed
<1> QED
  BY <1>1, ExtraInvariant, PTL

-----------------------------------------------------------------------------
(* The calls implement VaultContract.  An unlock that could read whether    *)
(* there is a plaintext key has removed it before it rewraps, so the rewrap *)
(* never comes to the undo that takes the record away (RewrapInv).  Whether *)
(* it could is settled in the step that leaves "migrate" (MigrateInv).      *)

MigrateInv == op.name = "unlock" /\ op.phase = "migrate" => ~blind /\ ~op.plain

RewrapInv == op.name = "unlock" => ~op.plain /\ op.phase \notin {"clear", "undo"}

ContractInv ==
  /\ MigrateInv
  /\ ~blind => RewrapInv /\ (unlocked \/ op.name = "unlock" => vault # NoRecord)

\* Until a call could not read what it decides by.
ContractStep == Contract!Next \/ UNCHANGED Contract!vars
Excused      == misread' \/ blind'

\* The ways a step may look to the wallet screen.
LEMMA OpensOrLocks ==
  ASSUME Kind' = Kind,
         \/ unlocked' \in {unlocked, FALSE}
         \/ unlocked' = TRUE /\ Kind = "sealed"
  PROVE  ContractStep
  BY DEF ContractStep, Contract!Next, Contract!Open, Contract!Lock, Contract!vars

LEMMA MakesOrFails ==
  ASSUME ~unlocked, op.name = "create", Kind' \in {Kind, "sealed"},
         \/ unlocked' = unlocked
         \/ unlocked' = TRUE /\ Kind' = "sealed"
  PROVE  ContractStep
<1>1. Kind # "sealed"
  BY DEF Kind, Making
<1> QED
  BY <1>1 DEF ContractStep, Contract!Next, Contract!Create, Contract!CreateFails

\* Both the record and the call under way decide what the screen sees.
LEMMA KindFacts ==
  /\ ~Making /\ vault # NoRecord => Kind = "sealed"
  /\ (~Making /\ vault # NoRecord)' => Kind' = "sealed"
  /\ legacy' = legacy /\ Making /\ vault' = NoRecord => Kind' = Kind
  /\ legacy' = legacy /\ Making /\ Making' => Kind' = Kind
  /\ legacy' = legacy /\ Making /\ ~Making' => Kind' \in {Kind, "sealed"}
  /\ legacy' = legacy /\ vault' = vault /\ ~Making /\ ~Making' => Kind' = Kind
  BY DEF Kind, Making

LEMMA ContractInit == Init => ContractInv
  BY IdleFacts DEF Init, ContractInv, MigrateInv, RewrapInv

\* Only a call of unlock begins with its migration.
LEMMA MigrateStep ==
  ASSUME KeyInv, MigrateInv, [Next]_vars
  PROVE  MigrateInv'
<1> USE IdleFacts DEF MigrateInv
<1>1. ASSUME \/ op' = Idle
             \/ op'.name = "create" \/ op'.name = "change"
             \/ op'.phase # "migrate"
             \/ UNCHANGED <<op, blind>>
      PROVE  MigrateInv'
  BY <1>1
<1>2. ASSUME NEW pin \in Pin, CreateOrEncrypt(pin) \/ Unlock(pin) \/ ChangePin(pin)
      PROVE  MigrateInv'
  <2>1. CASE CreateOrEncrypt(pin)
    BY <1>1, <2>1 DEF CreateOrEncrypt
  <2>2. CASE Unlock(pin)
    BY <2>2 DEF Unlock
  <2>3. CASE ChangePin(pin)
    BY <1>1, <2>3 DEF ChangePin
  <2> QED
    BY <1>2, <2>1, <2>2, <2>3
<1>3. op \in OpType
  BY DEF KeyInv, Ranges
<1>4. \A phase \in {"rewrap", "rollback"} \cup Seal : To(phase) => op'.phase # "migrate"
  BY <1>3, ToFacts DEF Seal
<1>5. SealFails => op' = Idle \/ op'.phase # "migrate"
  BY <1>4 DEF SealFails
<1>6. CASE SealPut \/ SealVerify \/ SealClear \/ SealUndo
  BY <1>1, <1>4, <1>5, <1>6 DEF SealPut, SealVerify, SealClear, SealUndo, Opened, Seal
<1>7. CASE UnlockMigrate \/ UnlockRollback
  BY <1>1, <1>4, <1>7 DEF UnlockMigrate, UnlockRollback, Opened
<1>8. CASE UnlockRewrap
  <2>1. \A plain \in LegacySeen : [op EXCEPT !.phase = "put", !.plain = plain].phase = "put"
    BY <1>3 DEF OpType
  <2> QED
    BY <1>1, <1>4, <1>8, <2>1 DEF UnlockRewrap, Opened
<1>9. CASE ChangePut \/ ChangeVerify \/ ChangeRollback
  BY <1>1, <1>4, <1>9 DEF ChangePut, ChangeVerify, ChangeRollback, Seal
<1>10. CASE Lock \/ Crash \/ UNCHANGED vars
  BY <1>1, <1>10 DEF Lock, Crash, vars, history
<1> QED
  BY <1>2, <1>6, <1>7, <1>8, <1>9, <1>10 DEF Next

\* createOrEncrypt: nothing is seen of it before it ends.
LEMMA CreateContract ==
  ASSUME KeyInv, MigrateInv', op.name = "create",
         SealPut \/ SealVerify \/ SealClear \/ SealUndo
  PROVE  ContractInv' /\ ContractStep
<1> USE DEF session, history
<1>1. CreateInv /\ op \in OpType /\ ~unlocked /\ Making
  BY IdleFacts DEF KeyInv, Ranges, OpInv, CreateInv, Making
<1>2. Sealed(op.key, op.pin) # NoRecord
  BY <1>1, SealedFacts, RecordFacts DEF CreateInv
\* It goes on, or fails.
<1>3. ASSUME UNCHANGED <<legacy, unlocked>>,
             \/ SealFails
             \/ \E phase \in {"verify", "clear", "undo"} : To(phase)
      PROVE  ContractInv' /\ ContractStep
  <2>1. op' = Idle \/ op'.name = "create"
    BY <1>1, <1>3, ToFacts DEF SealFails, Seal
  <2>2. Kind' \in {Kind, "sealed"}
    BY <1>1, <1>3, <2>1, KindFacts, IdleFacts DEF Making
  <2>3. op'.name \notin {"unlock", "change"} /\ ~unlocked'
    BY <1>1, <1>3, <2>1, IdleFacts
  <2>4. ContractStep
    BY <1>1, <1>3, <2>2, MakesOrFails
  <2>5. ContractInv'
    BY <1>3, <2>3 DEF ContractInv, RewrapInv
  <2> QED
    BY <2>4, <2>5
<1>4. ASSUME Opened(op.key, op.pin), vault' # NoRecord
      PROVE  ContractInv' /\ ContractStep
  <2>1. unlocked' = TRUE /\ op'.name = "none"
    BY <1>4, IdleFacts DEF Opened
  <2>2. Kind' = "sealed"
    BY <1>4, <2>1, KindFacts DEF Making
  <2> QED
    BY <1>1, <1>4, <2>1, <2>2, MakesOrFails DEF ContractInv, RewrapInv
<1>5. CASE SealPut
  BY <1>3, <1>5 DEF SealPut
<1>6. CASE SealVerify
  <2>1. CASE Opened(op.key, op.pin) /\ vault = Sealed(op.key, op.pin)
    BY <1>2, <1>4, <1>6, <2>1 DEF SealVerify
  <2>3. CASE SealFails /\ UNCHANGED session
    BY <1>3, <1>6, <2>3 DEF SealVerify
  <2>4. CASE To("clear") /\ UNCHANGED session
    BY <1>3, <1>6, <2>4 DEF SealVerify
  <2> QED
    BY <1>6, <2>1, <2>3, <2>4 DEF SealVerify
<1>7. CASE SealClear
  <2>1. vault = Sealed(op.key, op.pin) /\ vault' = vault
    BY <1>1, <1>7 DEF SealClear, Sealing, KeyInv, SealInv
  <2>2. CASE Opened(op.key, op.pin)
    BY <1>2, <1>4, <2>1, <2>2
  <2>3. CASE To("undo") /\ UNCHANGED <<legacy, session>>
    BY <1>3, <2>3
  <2> QED
    BY <1>7, <2>2, <2>3 DEF SealClear
<1>8. CASE SealUndo
  BY <1>3, <1>8 DEF SealUndo
<1> QED
  BY <1>5, <1>6, <1>7, <1>8

\* unlock: the record may be replaced or put back, but there always is one.
LEMMA UnlockContract ==
  ASSUME KeyInv, PlainInv, ContractInv, MigrateInv', ~blind', op.name = "unlock",
         \/ SealPut \/ SealVerify \/ SealClear \/ SealUndo
         \/ UnlockMigrate \/ UnlockRewrap \/ UnlockRollback
  PROVE  ContractInv' /\ ContractStep
<1> USE DEF session, history
<1>1. /\ UnlockInv /\ op \in OpType /\ ~unlocked /\ ~Making
      /\ op.key \in Key /\ op.pin \in Pin /\ op.previous \in Record
  BY UnlockFacts DEF UnlockInv, Making
<1>2. /\ vault # NoRecord /\ Kind = "sealed"
      /\ ~op.plain /\ op.phase \notin {"clear", "undo"}
  <2>1. CASE op.phase = "migrate"
    BY <1>1, <2>1, RecordFacts, KindFacts DEF ContractInv, MigrateInv, UnlockInv
  <2>2. CASE op.phase # "migrate"
    <3>1. ~blind
      BY <2>2 DEF SealPut, SealVerify, SealClear, SealUndo, UnlockMigrate, UnlockRewrap,
                  UnlockRollback, Is
    <3> QED
      BY <1>1, <3>1, KindFacts DEF ContractInv, RewrapInv
  <2> QED
    BY <2>1, <2>2
<1>3. Sealed(op.key, op.pin) # NoRecord /\ op.previous # NoRecord
  BY <1>1, SealedFacts, RecordFacts
<1>4. \A plain \in LegacySeen : plain \in BOOLEAN /\ (plain => legacy # NoKey)
  BY LegacyFacts
\* It goes on to a phase after the migration.
<1>5. ASSUME op'.name = "unlock", ~op'.plain, op'.phase \notin {"clear", "undo", "migrate"},
             vault' # NoRecord, unlocked' = unlocked
      PROVE  ContractInv' /\ ContractStep
  <2>1. Kind' = "sealed"
    BY <1>5, KindFacts DEF Making
  <2>2. ContractStep
    BY <1>2, <1>5, <2>1, OpensOrLocks
  <2> QED
    BY <1>5, <2>2 DEF ContractInv, RewrapInv
\* It ends.
<1>6. ASSUME op' = Idle, vault' # NoRecord, unlocked' \in {unlocked, TRUE}
      PROVE  ContractInv' /\ ContractStep
  <2>1. op'.name = "none"
    BY <1>6, IdleFacts
  <2>2. Kind' = "sealed"
    BY <1>6, <2>1, KindFacts DEF Making
  <2>3. ContractStep
    BY <1>2, <1>6, <2>2, OpensOrLocks
  <2> QED
    BY <1>6, <2>1, <2>3 DEF ContractInv, RewrapInv
<1>7. ASSUME NEW phase \in {"rewrap", "rollback", "verify"}, To(phase)
      PROVE  op'.name = "unlock" /\ ~op'.plain /\ op'.phase = phase
  BY <1>1, <1>2, <1>7, ToFacts DEF Seal
<1>8. SealFails => To("rollback")
  BY DEF SealFails
<1>9. CASE SealPut
  BY <1>2, <1>3, <1>5, <1>7, <1>8, <1>9 DEF SealPut, Sealing
<1>10. CASE SealVerify
  <2>1. CASE Opened(op.key, op.pin)
    BY <1>2, <1>6, <1>10, <2>1 DEF SealVerify, Opened
  <2>2. CASE SealFails /\ UNCHANGED session
    BY <1>2, <1>5, <1>7, <1>8, <1>10, <2>2 DEF SealVerify, Sealing
  <2> QED
    BY <1>2, <1>10, <2>1, <2>2 DEF SealVerify
<1>11. CASE SealClear \/ SealUndo
  BY <1>2, <1>11 DEF SealClear, SealUndo, Sealing
<1>12. CASE UnlockMigrate
  <2>1. CASE op' = Idle
    BY <1>2, <1>6, <1>12, <2>1 DEF UnlockMigrate, To
  <2>2. CASE To("rewrap") /\ UNCHANGED session
    BY <1>2, <1>5, <1>7, <1>12, <2>2 DEF UnlockMigrate
  <2> QED
    BY <1>12, <2>1, <2>2 DEF UnlockMigrate
<1>13. CASE UnlockRewrap
  <2>1. legacy = NoKey /\ vault' = vault
    BY <1>13 DEF UnlockRewrap, Is, PlainInv
  <2>2. CASE Opened(op.key, op.pin)
    BY <1>2, <1>6, <2>1, <2>2 DEF Opened
  <2>3. ASSUME NEW plain \in LegacySeen, UNCHANGED session,
               op' = [op EXCEPT !.phase = "put", !.plain = plain]
        PROVE  ContractInv' /\ ContractStep
    <3>1. plain = FALSE
      BY <1>4, <2>1, <2>3
    <3>2. op'.name = "unlock" /\ ~op'.plain /\ op'.phase = "put"
      BY <1>1, <2>3, <3>1 DEF OpType
    <3> QED
      BY <1>2, <1>5, <2>1, <2>3, <3>2
  <2>4. CASE To("rollback") /\ UNCHANGED session
    BY <1>2, <1>5, <1>7, <2>1, <2>4
  <2> QED
    BY <1>13, <2>2, <2>3, <2>4 DEF UnlockRewrap
<1>14. CASE UnlockRollback
  BY <1>2, <1>3, <1>6, <1>14 DEF UnlockRollback, Opened
<1> QED
  BY <1>9, <1>10, <1>11, <1>12, <1>13, <1>14

\* changePin replaces the record in one write, and locks when in doubt.
LEMMA ChangeContract ==
  ASSUME KeyInv, MigrateInv', ChangePut \/ ChangeVerify \/ ChangeRollback
  PROVE  ContractInv' /\ ContractStep
<1> USE DEF session, history
<1>1. /\ ChangeInv /\ op \in OpType /\ op.name = "change" /\ ~Making
      /\ op.key \in Key /\ op.pin \in Pin /\ op.previous \in Record
      /\ vault # NoRecord
  BY ChangeFacts DEF ChangePut, ChangeVerify, ChangeRollback, Is, ChangeInv, Making
<1>2. Sealed(op.key, op.pin) # NoRecord /\ op.previous # NoRecord /\ Kind = "sealed"
  BY <1>1, SealedFacts, RecordFacts, KindFacts
<1>3. vault' # NoRecord /\ unlocked' \in {unlocked, FALSE}
  <2>1. CASE ChangePut
    BY <1>1, <1>2, <2>1 DEF ChangePut
  <2>2. CASE ChangeVerify
    BY <1>1, <2>2 DEF ChangeVerify, nvs
  <2>3. CASE ChangeRollback
    BY <1>1, <1>2, <2>3 DEF ChangeRollback
  <2> QED
    BY <2>1, <2>2, <2>3
<1>4. op'.name \in {"change", "none"}
  BY <1>1, ToFacts, IdleFacts DEF ChangePut, ChangeVerify, ChangeRollback, Seal
<1>5. Kind' = "sealed"
  BY <1>3, <1>4, KindFacts DEF Making
<1>6. ContractStep
  BY <1>2, <1>3, <1>5, OpensOrLocks
<1> QED
  BY <1>3, <1>4, <1>6 DEF ContractInv, RewrapInv

\* The calls' first steps, lock() and a loss of power.
LEMMA StartContract ==
  ASSUME KeyInv, ContractInv, MigrateInv', unlocked \in BOOLEAN,
         \/ \E pin \in Pin : CreateOrEncrypt(pin) \/ Unlock(pin) \/ ChangePin(pin)
         \/ Lock \/ Crash
  PROVE  ContractInv' /\ (Excused \/ ContractStep)
<1> USE IdleFacts DEF session, history, nvs, Making
<1>1. ASSUME NEW pin \in Pin, CreateOrEncrypt(pin)
      PROVE  ContractInv' /\ (Excused \/ ContractStep)
  <2>1. op = Idle /\ ~unlocked /\ UNCHANGED <<vault, legacy, unlocked>>
    BY <1>1 DEF CreateOrEncrypt
  <2>2. op'.name = "create"
    BY <1>1 DEF CreateOrEncrypt
  <2>3. misread' \/ vault = NoRecord
    BY <1>1 DEF CreateOrEncrypt
  <2>4. vault = NoRecord => Kind' = Kind
    BY <2>1, <2>2 DEF Kind
  <2> QED
    BY <2>1, <2>2, <2>3, <2>4, OpensOrLocks DEF ContractInv, RewrapInv, Excused
<1>2. ASSUME NEW pin \in Pin, Unlock(pin) PROVE ContractInv' /\ ContractStep
  <2>1. op = Idle /\ unlocked' = FALSE /\ UNCHANGED <<vault, legacy>>
    BY <1>2 DEF Unlock
  <2>2. \/ op' = op
        \/ /\ op'.name = "unlock" /\ op'.phase = "migrate" /\ ~op'.plain
           /\ vault # NoRecord
    BY <1>2 DEF Unlock
  <2>3. Kind' = Kind
    BY <2>1, <2>2 DEF Kind
  <2> QED
    BY <2>1, <2>2, <2>3, OpensOrLocks DEF ContractInv, RewrapInv
<1>3. ASSUME NEW pin \in Pin, ChangePin(pin) PROVE ContractInv' /\ ContractStep
  <2>1. op = Idle /\ op'.name = "change" /\ vault # NoRecord
        /\ UNCHANGED <<vault, legacy, unlocked>>
    BY <1>3 DEF ChangePin
  <2>2. Kind' = Kind
    BY <2>1 DEF Kind
  <2> QED
    BY <2>1, <2>2, OpensOrLocks DEF ContractInv, RewrapInv
<1>4. CASE Lock
  <2>1. op' = op /\ op = Idle /\ unlocked' = FALSE /\ UNCHANGED <<vault, legacy>>
    BY <1>4 DEF Lock
  <2>2. Kind' = Kind
    BY <2>1, KindFacts
  <2> QED
    BY <2>1, <2>2, OpensOrLocks DEF ContractInv, RewrapInv
<1>5. CASE Crash
  <2>1. op'.name = "none" /\ unlocked' = FALSE /\ UNCHANGED <<vault, legacy>>
    BY <1>5 DEF Crash
  <2>2. ContractInv'
    BY <2>1 DEF ContractInv, RewrapInv
  <2>3. CASE op.name = "create"
    <3>1. ~unlocked
      BY <2>3 DEF KeyInv, OpInv, CreateInv
    <3>2. Kind' \in {Kind, "sealed"}
      BY <2>1, <2>3, KindFacts
    <3>3. unlocked' = unlocked
      BY <2>1, <3>1 DEF ContractInv
    <3>4. ContractStep
      BY <2>3, <3>1, <3>2, <3>3, MakesOrFails
    <3> QED
      BY <2>2, <3>4
  <2>4. CASE op.name # "create"
    <3>1. Kind' = Kind
      BY <2>1, <2>4, KindFacts
    <3> QED
      BY <2>1, <2>2, <3>1, OpensOrLocks
  <2> QED
    BY <2>3, <2>4
<1> QED
  BY <1>1, <1>2, <1>3, <1>4, <1>5

LEMMA ContractKept ==
  ASSUME KeyInv, PlainInv, ShapeInv, ContractInv, [Next]_vars
  PROVE  ContractInv' /\ (Excused \/ ContractStep)
<1>1. MigrateInv'
  BY MigrateStep DEF ContractInv
<1>2. CASE SealPut \/ SealVerify \/ SealClear \/ SealUndo
  <2>1. op.name \in {"create", "unlock"}
    BY <1>2 DEF SealPut, SealVerify, SealClear, SealUndo, Sealing
  <2> QED
    BY <1>1, <1>2, <2>1, CreateContract, UnlockContract DEF ContractInv, Excused
<1>3. CASE UnlockMigrate \/ UnlockRewrap \/ UnlockRollback
  <2>1. op.name = "unlock"
    BY <1>3 DEF UnlockMigrate, UnlockRewrap, UnlockRollback, Is
  <2> QED
    BY <1>1, <1>3, <2>1, UnlockContract DEF ContractInv, Excused
<1>4. CASE ChangePut \/ ChangeVerify \/ ChangeRollback
  BY <1>1, <1>4, ChangeContract
<1>5. CASE UNCHANGED vars
  BY <1>5 DEF vars, ContractInv, MigrateInv, RewrapInv, ContractStep, Contract!vars,
              Kind, Making
<1> QED
  BY <1>1, <1>2, <1>3, <1>4, <1>5, StartContract DEF Next, ShapeInv

\* The key store does what the wallet screen takes its calls to do
\* (VaultContract), for any keys and PINs, whatever fails and whenever power is
\* lost: once sealed, always sealed, and open only then.  Excepted are a
\* createOrEncrypt that could not read what there is, and an unlock that could
\* not read the plaintext key it comes upon later.
THEOREM VaultKeepsContract == Spec => ImplementsContract
<1>1. Init => Contract!Init
  BY DEF Init, Contract!Init, Kind, Making
<1>2. KeyInv /\ PlainInv /\ ShapeInv /\ ContractInv /\ [Next]_vars
        => ContractInv' /\ (Excused \/ ContractStep)
  BY ContractKept
<1>3. Excused \/ ContractStep
        => [Contract!Next \/ misread' \/ blind']_(Contract!vars)
  BY DEF ContractStep, Excused
<1> QED
  BY <1>1, <1>2, <1>3, ContractInit, ExtraInvariant, PTL DEF Spec, ImplementsContract

\* Where reads of NVS do not fail, no call is misled by one.
LEMMA ReadsNeverMislead ==
  ASSUME "read" \notin Faults
  PROVE  Spec => [](~misread /\ ~blind)
<1>1. Init => ~misread /\ ~blind
  BY DEF Init
<1>2. ~misread /\ ~blind /\ [Next]_vars => ~misread' /\ ~blind'
  <2>1. \A plain \in LegacySeen : plain = (legacy # NoKey)
    BY DEF LegacySeen, MayFail
  <2>2. SUFFICES ASSUME ~misread, ~blind, [Next]_vars PROVE ~misread' /\ ~blind'
    OBVIOUS
  <2>3. ASSUME NEW pin \in Pin, CreateOrEncrypt(pin) PROVE ~misread' /\ ~blind'
    <3>1. PICK seen, plain \in LegacySeen :
            /\ misread' = (misread \/ vault # NoRecord \/ seen # (legacy # NoKey))
            /\ blind' = (legacy # NoKey /\ ~plain)
      BY <2>3 DEF CreateOrEncrypt
    <3>2. vault = NoRecord
      BY <2>3 DEF CreateOrEncrypt, MayFail
    <3> QED
      BY <2>1, <2>2, <3>1, <3>2
  <2>4. CASE \E pin \in Pin : Unlock(pin) \/ ChangePin(pin)
    BY <2>2, <2>4 DEF Unlock, ChangePin
  <2>5. CASE SealPut \/ SealVerify \/ SealClear \/ SealUndo
    BY <2>2, <2>5 DEF SealPut, SealVerify, SealClear, SealUndo, history
  <2>6. CASE UnlockMigrate
    <3>1. FALSE \in LegacySeen => legacy = NoKey
      BY <2>1
    <3>2. misread' = misread /\ (blind' = blind \/ blind' = FALSE)
      BY <2>6, <3>1 DEF UnlockMigrate
    <3> QED
      BY <2>2, <3>2
  <2>7. CASE UnlockRewrap \/ UnlockRollback \/ ChangePut \/ ChangeVerify \/ ChangeRollback
    <3>1. misread' = misread /\ blind' = blind
      BY <2>7 DEF UnlockRewrap, UnlockRollback, ChangePut, ChangeVerify, ChangeRollback,
                  history
    <3> QED
      BY <2>2, <3>1
  <2>8. CASE Lock \/ Crash \/ UNCHANGED vars
    BY <2>2, <2>8 DEF Lock, Crash, history, vars
  <2> QED
    BY <2>2, <2>3, <2>4, <2>5, <2>6, <2>7, <2>8 DEF Next
<1> QED
  BY <1>1, <1>2, PTL DEF Spec

\* Where reads of NVS do not fail, the key is never lost, without exception,
\* whatever else fails and wherever power is lost.
THEOREM KeySurvivesFailedWrites ==
  ASSUME "read" \notin Faults
  PROVE  Spec => [](wallet # NoKey => wallet \in {StoredKey, legacy})
<1>1. KeyIsKept /\ ~misread => (wallet # NoKey => wallet \in {StoredKey, legacy})
  BY DEF KeyIsKept
<1> QED
  BY <1>1, ReadsNeverMislead, KeyIsNeverLost, PTL

\* Where reads of NVS do not fail there are no exceptions: KeyVault refines
\* VaultContract.
THEOREM VaultRefinesContract ==
  ASSUME "read" \notin Faults
  PROVE  Spec => Contract!Spec
<1>1. ~misread' /\ ~blind' /\ [Contract!Next \/ misread' \/ blind']_(Contract!vars)
        => [Contract!Next]_(Contract!vars)
  OBVIOUS
<1> QED
  BY <1>1, ReadsNeverMislead, VaultKeepsContract, PTL DEF ImplementsContract, Contract!Spec

=============================================================================
