----------------------------- MODULE VaultScreen -----------------------------
(***************************************************************************)
(* The Remember checkbox of VaultScreen and the credential in the OS       *)
(* keyring, on top of Vault: every step of Vault is taken here under what  *)
(* the screen and the keyring allow, and the keyring has steps of its own. *)
(* A password is the one of the vault with a certain salt.                 *)
(*                                                                         *)
(* The fields belong to the screen shown.  A submission whose screen was   *)
(* replaced goes on to ask its own screen's _rememberPassword, which       *)
(* nobody can change any more (`insisting`).                               *)
(***************************************************************************)
EXTENDS Vault

CONSTANT MaxDeletes     \* bound: deletions of the credential in flight

ASSUME ScreenAssumption == MaxDeletes \in Nat

VARIABLES
    keyring,    \* the credential: the vault whose password it is, or NoKey
    remember,   \* _rememberPassword
    hasStored,  \* _hasStoredPassword
    saving,     \* each submission: "no", "saving" its password, "answered"
    insisting,  \* submissions of former screens whose box was ticked
    deletes,    \* deletions in flight: of the screen shown, of former ones
    misled      \* the screen shown was told wrong, or not told: see Misleads

keyringVars == <<keyring, remember, hasStored, saving, insisting, deletes, misled>>
screenVars == <<vars, keyringVars>>

NoDeletes == [of \in {"shown", "left"} |-> 0]

ScreenInit ==
    /\ Init
    /\ keyring = NoKey /\ remember = FALSE /\ hasStored = FALSE
    /\ saving = [w \in Workers |-> "no"] /\ insisting = {}
    /\ deletes = NoDeletes /\ misled = FALSE

Submits(w) == call[w].op \in {"create_vault", "unlock_vault"}

(* Nothing is in flight, of this screen or a former one.                   *)
Quiet == auto = "none" /\ deletes = NoDeletes /\ \A w \in Workers : pc[w] = "idle"

(* Somebody else than the screen shown changes the credential.             *)
Misleads == misled' = (misled \/ keyring' # keyring)

-----------------------------------------------------------------------------
(* The checkbox, ticked while either field is true.                        *)
Ticked == remember \/ hasStored

Tick ==
    /\ screen = "vault" /\ dart = "ui" /\ ~Ticked
    /\ Remembering
    /\ remember' = TRUE
    /\ UNCHANGED <<vars, keyring, hasStored, saving, insisting, deletes, misled>>

Untick ==
    /\ screen = "vault" /\ dart = "ui" /\ Ticked
    /\ remember' = FALSE
    /\ IF hasStored
       THEN /\ deletes["shown"] < MaxDeletes
            /\ deletes' = [deletes EXCEPT !["shown"] = @ + 1]
       ELSE UNCHANGED deletes
    /\ UNCHANGED <<vars, keyring, hasStored, saving, insisting, misled>>

(* Mutant: the field is cleared though the deletion failed. *)
DeletePasswordUnchecked(of) ==
    /\ deletes[of] > 0
    /\ deletes' = [deletes EXCEPT ![of] = @ - 1]
    /\ keyring' \in {keyring, NoKey}
    /\ hasStored' = (hasStored /\ of = "left")
    /\ IF of = "left" THEN Misleads ELSE UNCHANGED misled
    /\ UNCHANGED <<vars, remember, saving, insisting>>

(* The credential is deleted, and the screen, if still there, told; or it  *)
(* fails and nothing changes.                                              *)
DeletePassword(of) ==
    /\ deletes[of] > 0
    /\ deletes' = [deletes EXCEPT ![of] = @ - 1]
    /\ \/ keyring' = NoKey /\ hasStored' = (hasStored /\ of = "left")
       \/ UNCHANGED <<keyring, hasStored>>
    /\ IF of = "left" THEN Misleads ELSE UNCHANGED misled
    /\ UNCHANGED <<vars, remember, saving, insisting>>

-----------------------------------------------------------------------------
(* _submit after createVault or unlockVault has succeeded.                 *)
Remembers(w) == Submits(w) /\ IF w \in mine THEN remember ELSE w \in insisting

(* Mutant: the password is saved whether or not the vault took it. *)
BeginSaveAnyway(w) ==
    /\ dart = "ui" /\ pc[w] \in Done /\ buf[w] # Absent
    /\ Remembers(w) /\ saving[w] = "no"
    /\ saving' = [saving EXCEPT ![w] = "saving"]
    /\ UNCHANGED <<vars, keyring, remember, hasStored, insisting, deletes, misled>>

BeginSave(w) ==
    /\ dart = "ui" /\ pc[w] = "returned"
    /\ Remembers(w) /\ saving[w] = "no"
    /\ saving' = [saving EXCEPT ![w] = "saving"]
    /\ UNCHANGED <<vars, keyring, remember, hasStored, insisting, deletes, misled>>

SavePassword(w) ==
    /\ saving[w] = "saving"
    /\ saving' = [saving EXCEPT ![w] = "answered"]
    /\ keyring' \in {keyring, buf[w].salt}      \* it may fail
    /\ IF w \in mine THEN UNCHANGED misled ELSE Misleads
    /\ UNCHANGED <<vars, remember, hasStored, insisting, deletes>>

(* A continuation: HomeScreen takes the place of a screen that is mounted, *)
(* and a failed auto-unlock clears the field, but not the credential.      *)
Continue(w) ==
    /\ saving[w] # "saving"
    /\ pc[w] = "returned" /\ Remembers(w) => saving[w] = "answered"
    /\ Deliver(w)
    /\ saving' = [saving EXCEPT ![w] = "no"]
    /\ IF screen' # screen
       THEN /\ remember' = FALSE /\ hasStored' = FALSE /\ misled' = FALSE
            /\ deletes' = [NoDeletes EXCEPT !["left"] = deletes["shown"] + deletes["left"]]
            /\ insisting' = (insisting \cup {v \in mine : Submits(v) /\ remember}) \ {w}
       ELSE /\ LET fails == w \in mine /\ call[w].op = "auto_unlock" IN
               hasStored' = (hasStored /\ ~fails) /\ misled' = (misled \/ fails)
            /\ insisting' = insisting \ {w}
            /\ UNCHANGED <<remember, deletes>>
    /\ UNCHANGED keyring

-----------------------------------------------------------------------------
(* The calls of Vault.  The auto-unlock needs the password it asked for.   *)
Asked(w) ==
    /\ Request(w)
    /\ call'[w].op = "auto_unlock" => keyring # NoKey
    /\ UNCHANGED keyringVars

(* getMasterPasswordFromKeyring finds nothing, or fails.                   *)
NotFound ==
    /\ AutoUnlockEnds
    /\ \/ keyring = NoKey /\ UNCHANGED <<hasStored, misled>>
       \/ /\ hasStored' = (hasStored /\ auto = "orphan")
          /\ misled' = (misled \/ auto = "pending")
    /\ UNCHANGED <<keyring, remember, saving, insisting, deletes>>

Pressed == PressLock /\ UNCHANGED keyringVars

Underway == /\ LockKey \/ \E w \in Workers : WorkerStep(w)
            /\ UNCHANGED keyringVars

(* _checkVaultExists of a new screen: isMasterPasswordInKeyring also says  *)
(* no when the keyring cannot be read.                                     *)
AskKeyring ==
    /\ remember' = FALSE
    /\ hasStored' \in {keyring # NoKey, FALSE}
    /\ misled' = (hasStored' # (keyring # NoKey))

Locked == /\ LockState /\ AskKeyring
          /\ UNCHANGED <<keyring, saving, insisting, deletes>>

(* The keyring outlives the process.                                       *)
Started ==
    /\ Restart /\ AskKeyring
    /\ auto' = (IF exists' /\ hasStored' THEN "pending" ELSE "none")
    /\ saving' = [w \in Workers |-> "no"] /\ insisting' = {} /\ deletes' = NoDeletes
    /\ UNCHANGED keyring

ScreenNext ==
    \/ Tick \/ Untick
    \/ \E of \in DOMAIN deletes : DeletePassword(of)
    \/ \E w \in Workers : Asked(w) \/ BeginSave(w) \/ SavePassword(w) \/ Continue(w)
    \/ NotFound \/ Pressed \/ Underway \/ Locked \/ Started

ScreenSpec == ScreenInit /\ [][ScreenNext]_screenVars

(* As in Vault; the keyring answers.                                       *)
ScreenFairness ==
    /\ \A w \in Workers :
        /\ WF_screenVars(WorkerStep(w) /\ UNCHANGED keyringVars)
        /\ WF_screenVars(BeginSave(w) \/ SavePassword(w) \/ Continue(w))
    /\ WF_screenVars(LockKey /\ UNCHANGED keyringVars) /\ WF_screenVars(Locked)

ScreenFairSpec == ScreenSpec /\ ScreenFairness

-----------------------------------------------------------------------------
(* Every variable holds a value of its kind. *)
ScreenTypeOK ==
    /\ TypeOK
    /\ keyring \in Salts \cup {NoKey}
    /\ remember \in BOOLEAN /\ hasStored \in BOOLEAN /\ misled \in BOOLEAN
    /\ saving \in [Workers -> {"no", "saving", "answered"}]
    /\ insisting \subseteq Workers
    /\ deletes \in [{"shown", "left"} -> Nat]

(* A remembered password opens the vault that is there: it was saved only  *)
(* after the vault had taken it, whatever creations failed before and      *)
(* however often the form was submitted, unless creations overlapped.      *)
RememberedOpens ==
    "rivals" \notin met => (Readable /\ keyring # NoKey => disk.salt = keyring)

(* "Unchecking it immediately clears any stored credential" needs a box    *)
(* that knows of it: when nothing is in flight the field says whether the  *)
(* keyring holds a password, unless the keyring could not be read, the     *)
(* auto-unlock failed, or a former screen's saving or deletion came after  *)
(* this screen had asked.                                                  *)
BoxTellsKeyring ==
    screen = "vault" /\ Quiet /\ ~misled => (hasStored <=> keyring # NoKey)
=============================================================================
