-------------------------------- MODULE Vault --------------------------------
(***************************************************************************)
(* The Rust vault (vault.rs, called through app.rs) under the concurrency  *)
(* it really meets.  A call made by the Flutter UI runs on a worker thread *)
(* of flutter_rust_bridge, so calls overlap; lock_vault is `sync` and runs *)
(* on the Dart thread itself, which does nothing else meanwhile.  The      *)
(* vault is two mutexes, `state` and `master_key`, taken separately, and a *)
(* file that save_to_file rewrites in place.                               *)
(*                                                                         *)
(* Of the UI this module keeps what decides which calls can be in flight:  *)
(* the screen shown, whether the call that showed a screen is still        *)
(* mounted, and the auto-unlock of the first VaultScreen.                  *)
(***************************************************************************)
EXTENDS VaultData, FiniteSets

CONSTANTS
    Workers,        \* threads of the bridge's pool
    Salts,          \* Argon2 salts; a salt stands for the hash and key made from it
    Forms,          \* the connection forms the user may submit
    Imports,        \* the mRemoteNG documents the user may import
    NoVault, NoKey, \* None in the two mutexes
    Free,           \* nobody holds the mutex
    Absent, Torn,   \* no file; a file that does not parse
    MaxCalls,       \* bound: calls, locks and crashes in a behaviour
    Remembering,    \* the keyring may hold a password when the app starts
    Hasty           \* the user submits again while a submission runs

Files == [salt: Salts, key: Salts, data: VaultDatas]
VaultStates == [salt: Salts, data: VaultDatas]

ASSUME VaultAssumption ==
    /\ NoVault \notin VaultStates /\ NoVault \notin VaultDatas /\ NoKey \notin Salts
    /\ Free \notin Workers
    /\ {Absent, Torn} \cap Files = {} /\ Absent # Torn /\ Torn \notin VaultDatas
    /\ Forms \subseteq ConnRecs
    /\ \A doc \in Imports : /\ doc.ids \subseteq ConnIds \cup FolderIds
                             /\ doc.changes \in Seq(Changes) /\ doc.changes # <<>>
                             /\ \A i \in 1..Len(doc.changes) :
                                    doc.changes[i].op \in {"add_folder", "import_connections"}
    /\ MaxCalls \in Nat
    /\ Remembering \in BOOLEAN /\ Hasty \in BOOLEAN

VARIABLES
    state, masterKey,     \* the contents of the two mutexes
    stateLock, keyLock,   \* who holds each across more than one step
    disk,                 \* the vault file
    pc, call, applied,    \* each worker: next step, its call, changes already made
    buf,                  \* each worker: the file image it read or will write
    screen, exists,       \* the screen shown; VaultScreen._vaultExists
    auto, mine,           \* pending auto-unlock; calls whose screen is mounted
    dart,                 \* the Dart thread: free, or inside lock_vault
    used,                 \* UUIDs and salts already drawn
    calls,                \* calls made so far
    acked, doomed,        \* connections reported saved; deletions requested
    sealed,               \* nothing was submitted since the last lock or start
    lost,                 \* additions that an opening put older contents in place of
    met                   \* what has met: see RivalCreations, LockedLate, Crossing

vaultVars == <<state, masterKey, stateLock, keyLock, disk>>
workerVars == <<pc, call, applied, buf>>
uiVars == <<screen, exists, auto, mine, dart>>
ghostVars == <<used, calls, acked, doomed, sealed, lost, met>>
vars == <<vaultVars, workerVars, uiVars, ghostVars>>

Opening == {"create_vault", "unlock_vault", "auto_unlock"}
Editing == {"add_connection", "update_connection", "delete_connection",
            "add_folder", "update_folder", "delete_folder", "import_mremoteng_xml"}
Calls == [op: Opening \cup Editing, changes: Seq(Changes)]
NoCall == [op |-> "auto_unlock", changes |-> <<>>]

(* "create_state" to "load_key" are the steps of a call; "returned" and    *)
(* "failed" wait for Dart to run the continuation of the await.            *)
Steps == {"create_state", "create_key", "apply", "save_state", "save_key",
          "open", "write", "load_read", "load_state", "load_key"}
Done == {"returned", "failed"}

Readable == disk \notin {Absent, Torn}

Init ==
    /\ state = NoVault /\ masterKey = NoKey
    /\ stateLock = Free /\ keyLock = Free
    /\ disk = Absent
    /\ pc = [w \in Workers |-> "idle"]
    /\ call = [w \in Workers |-> NoCall]
    /\ applied = [w \in Workers |-> 0]
    /\ buf = [w \in Workers |-> Absent]
    /\ screen = "vault" /\ exists = FALSE
    /\ auto = "none" /\ mine = {} /\ dart = "ui"
    /\ used = {} /\ calls = 0 /\ acked = {} /\ doomed = {} /\ sealed = TRUE
    /\ lost = {} /\ met = {}

-----------------------------------------------------------------------------
(* Issuing a call: the bridge hands it to an idle worker.                  *)
Begin(w, op, changes, first) ==
    /\ dart = "ui" /\ calls < MaxCalls
    /\ pc[w] = "idle"
    /\ pc' = [pc EXCEPT ![w] = first]
    /\ call' = [call EXCEPT ![w] = [op |-> op, changes |-> changes]]
    /\ applied' = [applied EXCEPT ![w] = 0]
    /\ calls' = calls + 1
    /\ UNCHANGED <<vaultVars, buf, screen, exists, dart>>

(* A creation begins beside another one.                                   *)
RivalCreations == \E w \in Workers : pc[w] # "idle" /\ call[w].op = "create_vault"

(* Bound: a salt for this creation and for each that has not drawn its own. *)
SaltLeft == Cardinality({w \in Workers : pc[w] = "create_state"}) < Cardinality(Salts \ used)

(* VaultScreen._submit: the button is disabled while a submission runs,    *)
(* Enter in one of the fields is not.                                      *)
Submitting == \E w \in mine : call[w].op \in {"create_vault", "unlock_vault"}

(* Mutant: the form offers creation although a vault exists. *)
CreateVaultAnyway(w) ==
    /\ screen = "vault" /\ (Submitting => Hasty)
    /\ SaltLeft
    /\ Begin(w, "create_vault", <<>>, "create_state")
    /\ mine' = mine \cup {w} /\ sealed' = FALSE
    /\ met' = IF RivalCreations THEN met \cup {"rivals"} ELSE met
    /\ UNCHANGED <<auto, used, acked, doomed, lost>>

CreateVault(w) ==
    /\ screen = "vault" /\ ~exists /\ (Submitting => Hasty)
    /\ SaltLeft
    /\ Begin(w, "create_vault", <<>>, "create_state")
    /\ mine' = mine \cup {w} /\ sealed' = FALSE
    /\ met' = IF RivalCreations THEN met \cup {"rivals"} ELSE met
    /\ UNCHANGED <<auto, used, acked, doomed, lost>>

UnlockVault(w) ==
    /\ screen = "vault" /\ exists /\ (Submitting => Hasty)
    /\ Begin(w, "unlock_vault", <<>>, "load_read")
    /\ mine' = mine \cup {w} /\ sealed' = FALSE
    /\ UNCHANGED <<auto, used, acked, doomed, lost, met>>

(* VaultScreen._tryAutoUnlock after the keyring answered: it does not ask  *)
(* whether its screen is still mounted before it calls unlockVault.        *)
AutoUnlock(w) ==
    /\ auto # "none"
    /\ Begin(w, "auto_unlock", <<>>, "load_read")
    /\ auto' = "none"
    /\ IF auto = "pending"
       THEN mine' = mine \cup {w} /\ sealed' = FALSE
       ELSE UNCHANGED <<mine, sealed>>
    /\ UNCHANGED <<used, acked, doomed, lost, met>>

(* The keyring had no password after all, or could not be read.            *)
AutoUnlockEnds ==
    /\ dart = "ui" /\ auto # "none"
    /\ auto' = "none"
    /\ UNCHANGED <<vaultVars, workerVars, screen, exists, mine, dart, ghostVars>>

(* HomeScreen and the screens above it.                                    *)
Edit(w, op, changes, fresh, doom) ==
    /\ screen = "home"
    /\ fresh \cap used = {}
    /\ Begin(w, op, changes, "apply")
    /\ used' = used \cup fresh
    /\ doomed' = doomed \cup doom
    /\ UNCHANGED <<auto, mine, sealed, acked, lost, met>>

AddConnection(w) == \E c \in ConnIds, r \in Forms :
    Edit(w, "add_connection", <<[op |-> "add_connection", conn |-> c, rec |-> r]>>, {c}, {})

UpdateConnection(w) == \E c \in ConnIds \cap used, r \in Forms :
    Edit(w, "update_connection", <<[op |-> "update_connection", conn |-> c, rec |-> r]>>, {}, {})

DeleteConnection(w) == \E c \in ConnIds \cap used :
    Edit(w, "delete_connection", <<[op |-> "delete_connection", conn |-> c]>>, {}, {c})

AddFolder(w) == \E f \in FolderIds, p \in (FolderIds \cap used) \cup {Root} :
    Edit(w, "add_folder", <<[op |-> "add_folder", folder |-> f, parent |-> p]>>, {f}, {})

UpdateFolder(w) == \E f \in FolderIds \cap used, p \in (FolderIds \cap used) \cup {Root} :
    Edit(w, "update_folder", <<[op |-> "update_folder", folder |-> f, parent |-> p]>>, {}, {})

DeleteFolder(w) == \E f \in FolderIds \cap used :
    Edit(w, "delete_folder", <<[op |-> "delete_folder", folder |-> f]>>, {}, {})

(* import_mremoteng_xml: one add_folder for each parsed folder, then the   *)
(* connections in one import_connections; a document brings its own UUIDs. *)
ImportXml(w) == \E doc \in Imports :
    Edit(w, "import_mremoteng_xml", doc.changes, doc.ids, {})

-----------------------------------------------------------------------------
(* What a worker does.                                                     *)
Goto(w, step) == pc' = [pc EXCEPT ![w] = step]

(* An opening puts `data` into memory: what was added and is not in it.    *)
Added == acked \cup {call[w].changes[1].conn :
                         w \in {v \in Workers : call[v].op = "add_connection" /\ applied[v] = 1}}
Overtaken(data) == {c \in Added : ~HasConn(data, c)}

(* Between the halves of lock comes one half of an opening.                *)
Crossing == dart = "lock_state"
MeetsLock == met' = IF Crossing THEN met \cup {"crossed"} ELSE met

(* Vault::create draws the salt and sets the two mutexes one after the     *)
(* other; app.rs then saves.                                               *)
CreateState(w) ==
    /\ pc[w] = "create_state" /\ stateLock = Free
    /\ \E s \in Salts \ used :
          /\ state' = [salt |-> s, data |-> EmptyData]
          /\ buf' = [buf EXCEPT ![w] = [salt |-> s, key |-> s, data |-> EmptyData]]
          /\ used' = used \cup {s}
    /\ lost' = lost \cup Overtaken(EmptyData)
    /\ Goto(w, "create_key")
    /\ UNCHANGED <<masterKey, stateLock, keyLock, disk, call, applied, uiVars,
                    calls, acked, doomed, sealed, met>>

CreateKey(w) ==
    /\ pc[w] = "create_key" /\ keyLock = Free
    /\ masterKey' = buf[w].key
    /\ MeetsLock
    /\ Goto(w, "save_state")
    /\ UNCHANGED <<state, stateLock, keyLock, disk, call, applied, buf, uiVars,
                    used, calls, acked, doomed, sealed, lost>>

(* One method of Vault under the state mutex; `?` returns on the first     *)
(* error and leaves the changes made before it.                            *)
ApplyChange(w) ==
    /\ pc[w] = "apply" /\ stateLock = Free
    /\ LET ch == call[w].changes[applied[w] + 1] IN
       IF state = NoVault \/ ~Applicable(state.data, ch)
       THEN /\ Goto(w, "failed")
            /\ UNCHANGED <<state, applied>>
       ELSE /\ state' = [state EXCEPT !.data = Apply(@, ch)]
            /\ applied' = [applied EXCEPT ![w] = @ + 1]
            /\ Goto(w, IF applied[w] + 1 = Len(call[w].changes) THEN "save_state" ELSE "apply")
    /\ UNCHANGED <<masterKey, stateLock, keyLock, disk, call, buf, uiVars, ghostVars>>

(* Vault::save_to_file holds `state`, then also `master_key`, until the    *)
(* file is written.                                                        *)
SaveState(w) ==
    /\ pc[w] = "save_state" /\ stateLock = Free
    /\ IF state = NoVault
       THEN /\ Goto(w, "failed")
            /\ UNCHANGED stateLock
       ELSE /\ stateLock' = w
            /\ Goto(w, "save_key")
    /\ UNCHANGED <<state, masterKey, keyLock, disk, call, applied, buf, uiVars, ghostVars>>

SaveKey(w) ==
    /\ pc[w] = "save_key" /\ keyLock = Free
    /\ IF masterKey = NoKey
       THEN /\ stateLock' = Free
            /\ Goto(w, "failed")
            /\ UNCHANGED <<keyLock, buf>>
       ELSE /\ keyLock' = w
            /\ buf' = [buf EXCEPT ![w] = [salt |-> state.salt, key |-> masterKey, data |-> state.data]]
            /\ Goto(w, "open")
            /\ UNCHANGED stateLock
    /\ UNCHANGED <<state, masterKey, disk, call, applied, uiVars, ghostVars>>

Release == stateLock' = Free /\ keyLock' = Free

(* Mutant: the guards are dropped before the slow fs::write. *)
OpenFileUnguarded(w) ==
    /\ pc[w] = "open"
    /\ disk' = Torn
    /\ Goto(w, "write")
    /\ Release
    /\ UNCHANGED <<state, masterKey, call, applied, buf, uiVars, ghostVars>>

(* fs::write truncates the file, then fills it; either may fail.           *)
OpenFile(w) ==
    /\ pc[w] = "open"
    /\ \/ /\ disk' = Torn
          /\ Goto(w, "write")
          /\ UNCHANGED <<stateLock, keyLock>>
       \/ /\ Goto(w, "failed")
          /\ Release
          /\ UNCHANGED disk
    /\ UNCHANGED <<state, masterKey, call, applied, buf, uiVars, ghostVars>>

WriteFile(w) ==
    /\ pc[w] = "write"
    /\ \/ /\ disk' = buf[w]
          /\ Goto(w, "returned")
       \/ /\ Goto(w, "failed")
          /\ UNCHANGED disk
    /\ Release
    /\ UNCHANGED <<state, masterKey, call, applied, buf, uiVars, ghostVars>>

(* Mutant: the contents are used before the file is found to parse. *)
LoadReadUnchecked(w) ==
    /\ pc[w] = "load_read"
    /\ buf' = [buf EXCEPT ![w] = disk]
    /\ Goto(w, "load_state")
    /\ UNCHANGED <<vaultVars, call, applied, uiVars, ghostVars>>

(* Vault::load_from_file: the file is read without any mutex; a wrong      *)
(* password fails against the hash, a right one must still decrypt.        *)
LoadRead(w) ==
    /\ pc[w] = "load_read"
    /\ \/ /\ Readable
          /\ disk.key = disk.salt
          /\ buf' = [buf EXCEPT ![w] = disk]
          /\ Goto(w, "load_state")
       \/ /\ Goto(w, "failed")
          /\ UNCHANGED buf
    /\ UNCHANGED <<vaultVars, call, applied, uiVars, ghostVars>>

LoadState(w) ==
    /\ pc[w] = "load_state" /\ stateLock = Free
    /\ state' = [salt |-> buf[w].salt, data |-> buf[w].data]
    /\ lost' = lost \cup Overtaken(buf[w].data)
    /\ Goto(w, "load_key")
    /\ UNCHANGED <<masterKey, stateLock, keyLock, disk, call, applied, buf, uiVars,
                    used, calls, acked, doomed, sealed, met>>

LoadKey(w) ==
    /\ pc[w] = "load_key" /\ keyLock = Free
    /\ masterKey' = buf[w].key
    /\ MeetsLock
    /\ Goto(w, "returned")
    /\ UNCHANGED <<state, stateLock, keyLock, disk, call, applied, buf, uiVars,
                    used, calls, acked, doomed, sealed, lost>>

WorkerStep(w) ==
    \/ CreateState(w) \/ CreateKey(w) \/ ApplyChange(w)
    \/ SaveState(w) \/ SaveKey(w) \/ OpenFile(w) \/ WriteFile(w)
    \/ LoadRead(w) \/ LoadState(w) \/ LoadKey(w)

-----------------------------------------------------------------------------
(* What the Dart thread does.                                              *)

(* Mutant: a continuation does not ask whether its screen is mounted. *)
ReplaceMounted(next) ==
    /\ screen' = next
    /\ UNCHANGED <<mine, auto>>

(* A new screen replaces the one shown: continuations of the old one find  *)
(* themselves unmounted.                                                   *)
Replace(next) ==
    /\ screen' = next
    /\ mine' = {}
    /\ auto' = IF auto = "pending" THEN "orphan" ELSE auto

(* The await of a call resumes.  An unlock or a creation that succeeded    *)
(* shows HomeScreen if its own screen is still there.                      *)
Deliver(w) ==
    /\ dart = "ui" /\ pc[w] \in Done
    /\ Goto(w, "idle")
    /\ buf' = [buf EXCEPT ![w] = Absent]
    /\ IF pc[w] = "returned" /\ w \in mine
       THEN Replace("home")
       ELSE /\ mine' = mine \ {w}
            /\ UNCHANGED <<screen, auto>>
    /\ acked' = IF pc[w] = "returned" /\ call[w].op = "add_connection"
                THEN acked \cup {call[w].changes[1].conn}
                ELSE acked
    /\ call' = [call EXCEPT ![w] = NoCall]
    /\ applied' = [applied EXCEPT ![w] = 0]
    /\ UNCHANGED <<vaultVars, exists, dart, used, calls, doomed, sealed, lost, met>>

(* Lock is pressed beside an opening, or before an auto-unlock, of a       *)
(* VaultScreen that was replaced.                                          *)
OpeningSteps == {"create_state", "create_key", "load_read", "load_state", "load_key"}
LockedLate == auto # "none" \/ \E w \in Workers : pc[w] \in OpeningSteps

(* HomeScreen._lockVault: lock_vault blocks the Dart thread on each mutex  *)
(* in turn, then VaultScreen(skipAutoUnlock: true) is shown.               *)
PressLock ==
    /\ screen = "home" /\ dart = "ui" /\ calls < MaxCalls
    /\ dart' = "lock_key"
    /\ calls' = calls + 1
    /\ met' = (met \ {"late"}) \cup (IF LockedLate THEN {"late"} ELSE {})
    /\ UNCHANGED <<vaultVars, workerVars, screen, exists, auto, mine, used, acked, doomed, sealed, lost>>

(* Mutant: lock drops the contents only. *)
LockKeyKept ==
    /\ dart = "lock_key" /\ keyLock = Free
    /\ dart' = "lock_state"
    /\ UNCHANGED <<vaultVars, workerVars, screen, exists, auto, mine, ghostVars>>

(* Mutant: lock keeps the guard of the key while it waits for the state,   *)
(* the opposite of save_to_file's order.                                   *)
LockKeyHeld ==
    /\ dart = "lock_key" /\ keyLock = Free
    /\ masterKey' = NoKey
    /\ keyLock' = dart
    /\ dart' = "lock_state"
    /\ UNCHANGED <<state, stateLock, disk, workerVars, screen, exists, auto, mine, ghostVars>>

LockKey ==
    /\ dart = "lock_key" /\ keyLock = Free
    /\ masterKey' = NoKey
    /\ dart' = "lock_state"
    /\ UNCHANGED <<state, stateLock, keyLock, disk, workerVars, screen, exists, auto, mine, ghostVars>>

(* Mutant: lock drops the key only. *)
LockStateKept ==
    /\ dart = "lock_state" /\ stateLock = Free
    /\ dart' = "ui"
    /\ Replace("vault")
    /\ exists' = (disk # Absent)
    /\ sealed' = TRUE
    /\ UNCHANGED <<vaultVars, workerVars, used, calls, acked, doomed, lost, met>>

LockState ==
    /\ dart = "lock_state" /\ stateLock = Free
    /\ state' = NoVault
    /\ dart' = "ui"
    /\ Replace("vault")
    /\ exists' = (disk # Absent)
    /\ sealed' = TRUE
    /\ met' = IF \E w \in Workers : pc[w] \in {"create_key", "load_key"}
              THEN met \cup {"crossed"} ELSE met
    /\ UNCHANGED <<masterKey, stateLock, keyLock, disk, workerVars, used, calls, acked, doomed, lost>>

(* The process dies and is started again: only the file survives, and the  *)
(* first VaultScreen auto-unlocks if the keyring holds a password.         *)
Restart ==
    /\ calls < MaxCalls
    /\ calls' = calls + 1
    /\ state' = NoVault /\ masterKey' = NoKey
    /\ stateLock' = Free /\ keyLock' = Free
    /\ pc' = [w \in Workers |-> "idle"]
    /\ call' = [w \in Workers |-> NoCall]
    /\ applied' = [w \in Workers |-> 0]
    /\ buf' = [w \in Workers |-> Absent]
    /\ screen' = "vault" /\ exists' = (disk # Absent)
    /\ auto' \in IF Remembering /\ disk # Absent THEN {"none", "pending"} ELSE {"none"}
    /\ mine' = {} /\ dart' = "ui"
    /\ sealed' = TRUE /\ met' = met \cap {"rivals"}
    /\ UNCHANGED <<disk, used, acked, doomed, lost>>

Request(w) ==
    \/ CreateVault(w) \/ UnlockVault(w) \/ AutoUnlock(w)
    \/ AddConnection(w) \/ UpdateConnection(w) \/ DeleteConnection(w)
    \/ AddFolder(w) \/ UpdateFolder(w) \/ DeleteFolder(w) \/ ImportXml(w)

Next ==
    \/ \E w \in Workers : Request(w) \/ WorkerStep(w) \/ Deliver(w)
    \/ PressLock \/ LockKey \/ LockState \/ AutoUnlockEnds
    \/ Restart

Spec == Init /\ [][Next]_vars

(* Threads are scheduled; the user and the crash are under no obligation.  *)
Fairness ==
    /\ \A w \in Workers : WF_vars(WorkerStep(w)) /\ WF_vars(Deliver(w))
    /\ WF_vars(LockKey) /\ WF_vars(LockState)

FairSpec == Spec /\ Fairness

-----------------------------------------------------------------------------
(* Every variable holds a value of its kind. *)
TypeOK ==
    /\ state \in VaultStates \cup {NoVault}
    /\ masterKey \in Salts \cup {NoKey}
    /\ stateLock \in Workers \cup {Free} /\ keyLock \in Workers \cup {Free}
    /\ disk \in Files \cup {Absent, Torn}
    /\ pc \in [Workers -> Steps \cup Done \cup {"idle"}]
    /\ call \in [Workers -> Calls]
    /\ applied \in [Workers -> Nat]
    /\ buf \in [Workers -> Files \cup {Absent}]
    /\ screen \in {"vault", "home"} /\ exists \in BOOLEAN
    /\ auto \in {"none", "pending", "orphan"} /\ mine \subseteq Workers
    /\ dart \in {"ui", "lock_key", "lock_state"}
    /\ used \subseteq ConnIds \cup FolderIds \cup Salts
    /\ calls \in Nat /\ acked \subseteq ConnIds /\ doomed \subseteq ConnIds /\ sealed \in BOOLEAN
    /\ lost \subseteq ConnIds /\ met \subseteq {"rivals", "late", "crossed"}

(* vault.rs says of the file that salt and hash lie beside the contents    *)
(* "to verify the master password and derive the encryption key": the key  *)
(* the contents are encrypted under is the one derived from that salt,     *)
(* although save_to_file takes them from two mutexes that create and       *)
(* load_from_file set in separate steps.                                   *)
DiskDecryptable == Readable => disk.key = disk.salt

(* It is so whatever saves, loads and locks come between those steps, with *)
(* one exception: a creation that begins while another one runs.           *)
FileOpens == "rivals" \notin met => DiskDecryptable

(* vault.rs says of is_unlocked "currently unlocked and usable", and it    *)
(* looks at the key alone: a key is only ever set while there is a state,  *)
(* in whatever other order openings, locks and edits overlap, unless an    *)
(* opening stood between its halves when lock cleared the contents, or     *)
(* ended between the halves of lock.                                       *)
UnlockedIsUsable == masterKey # NoKey /\ "crossed" \notin met => state # NoVault

(* "All decrypted data is cleared from memory" (README, Locking the        *)
(* Vault): after lock_vault and until somebody submits a password or a     *)
(* new screen auto-unlocks, neither key nor contents are in memory.        *)
LockedStaysLocked == sealed => state = NoVault /\ masterKey = NoKey

(* It is so whatever edits, saves and imports are in flight beside the     *)
(* lock and go on after it, unless an opening or auto-unlock left over     *)
(* from a former screen was still to come when Lock was pressed.           *)
LockClears == "late" \notin met => LockedStaysLocked

(* add_connection promises to "persist the vault": once it has returned    *)
(* Ok, every readable version of the file holds the connection, whatever   *)
(* edits, saves, failed saves, locks and restarts come later, until its    *)
(* deletion is requested.  The one way to lose it is an opening that puts  *)
(* contents without it into memory.                                        *)
AddedIsPersisted == Readable => \A c \in acked \ (doomed \cup lost) : HasConn(disk.data, c)

(* A save writes one consistent snapshot: the file changes to what memory  *)
(* holds at that very moment, or is torn; no edit slips in between the     *)
(* serialisation and the write, and no lock in the middle of it.           *)
SaveIsSnapshot == [][disk' \notin {disk, Torn} =>
                        /\ state # NoVault
                        /\ disk' = [salt |-> state.salt, key |-> masterKey, data |-> state.data]]_vars

(* HomeScreen looks at the vault when it appears and falls back to         *)
(* VaultScreen if it is locked or has no file: a creation or unlock that   *)
(* succeeded while its screen is shown never meets that.                   *)
HomeFindsVault == \A w \in mine : pc[w] = "returned" =>
                        disk # Absent /\ masterKey # NoKey /\ state # NoVault

(* The two mutexes are taken in two orders (save_to_file: state then key;  *)
(* lock: key then state) by threads that wait for each other, and still    *)
(* every call returns and lock_vault gives the Dart thread back.           *)
CallsReturn == /\ \A w \in Workers : pc[w] # "idle" ~> pc[w] = "idle"
               /\ dart # "ui" ~> dart = "ui"
-----------------------------------------------------------------------------
(* The vault implements VaultStore: what each worker has fetched from the  *)
(* file, or is to create, and has not yet put into memory is its image.    *)
OfferedEdits ==
         [op: {"add_connection", "update_connection"}, conn: ConnIds, rec: Forms]
    \cup [op: {"delete_connection"}, conn: ConnIds]
    \cup [op: {"add_folder", "update_folder"}, folder: FolderIds, parent: Folders]
    \cup [op: {"delete_folder"}, folder: FolderIds]
    \cup UNION {{doc.changes[i] : i \in DOMAIN doc.changes} : doc \in Imports}

Store == INSTANCE VaultStore WITH
    Edits <- OfferedEdits, Openings <- Workers, Locked <- NoVault, Unreadable <- Torn,
    mem <- IF state = NoVault THEN NoVault ELSE state.data,
    file <- IF Readable THEN disk.data ELSE Torn,
    image <- [w \in Workers |-> CASE pc[w] = "create_state" -> EmptyData
                                  [] pc[w] = "load_state" -> buf[w].data
                                  [] OTHER -> NoVault]

(* Edits, saves and the halves of create, unlock and lock, in any overlap, *)
(* with saves that fail and restarts between any two steps, amount to the  *)
(* atomic operations of VaultStore.                                        *)
ImplementsStore == Store!Spec
=============================================================================
