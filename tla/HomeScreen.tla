----------------------------- MODULE HomeScreen ------------------------------
(***************************************************************************)
(* One stay on HomeScreen with the vault unlocked: the lists it caches,    *)
(* the reloads that bring them up to date, and what is opened above it:    *)
(* ConnectionDetailScreen, the folder and the import dialog.  Every edit   *)
(* and every half of a reload is a call on a pool thread, and nothing      *)
(* keeps the user from going on, or from closing the dialog, meanwhile.    *)
(* The mutexes and the file are those of Vault; here a method of vault.rs  *)
(* is one step, and a save works or fails.                                 *)
(***************************************************************************)
EXTENDS VaultData, FiniteSets

CONSTANTS
    Slots,      \* calls in flight
    Typed,      \* the endpoints the user types into the form
    Imports,    \* documents the user may import: their changes and their UUIDs
    Nothing,    \* null
    MaxActs     \* bound: edits and refreshes

Loads == 0..MaxActs

(* The UUIDs of the connections that a change may add.                     *)
Added(ch) ==
    CASE ch.op = "add_connection" -> {ch.conn}
      [] ch.op = "import_connections" -> {ch.batch[i].id : i \in 1..Len(ch.batch)}
      [] OTHER -> {}

(* ids are drawn for the changes, and no two changes share one.            *)
DrawnFor(changes, ids) ==
    \A k \in 1..Len(changes) :
        /\ Added(changes[k]) \subseteq ids
        /\ \A l \in 1..Len(changes) : k # l => Added(changes[k]) \cap Added(changes[l]) = {}

(* A document becomes folders, then connections, each with a UUID of its   *)
(* own.                                                                    *)
ASSUME HomeAssumption ==
    /\ MaxActs \in Nat /\ IsFiniteSet(Slots)
    /\ Nothing \notin ConnIds /\ Typed \subseteq Endpoints
    /\ \A i \in Imports :
          /\ i.ids \subseteq ConnIds \cup FolderIds
          /\ i.changes \in Seq(Changes) /\ Len(i.changes) > 0
          /\ DrawnFor(i.changes, i.ids)

VARIABLES
    data,           \* the vault's contents in memory
    conns, folders, \* _connections, _folders
    loading,        \* _isLoading
    top,            \* what is open above HomeScreen, and its fields
    calls,          \* the edits in flight
    loads, started, \* the runs of _loadConnections, and the number of the latest
    used, acts,     \* UUIDs drawn; edits and refreshes so far
    deleted,        \* history: connections removed by delete_connection
    missed,         \* history: an edit ended without a reload since the latest one began
    shownBy         \* history: the reload whose lists are shown

screenVars == <<conns, folders, loading, top>>
loadVars == <<loads, started, missed, shownBy>>
vars == <<data, screenVars, calls, loadVars, used, acts, deleted>>

HomeOnly == [at |-> "home", conn |-> Nothing, folder |-> Root, offered |-> {},
             ready |-> FALSE, busy |-> FALSE]
Open(at, c, f, ids) == [HomeOnly EXCEPT !.at = at, !.conn = c, !.folder = f, !.offered = ids]

NoCall == [from |-> "home", step |-> "idle", changes |-> <<>>, applied |-> 0, mounted |-> TRUE]
NoLoad == [step |-> "unused", conns |-> EmptyData.conns, folders |-> EmptyData.folders]

(* The tree is drawn from the root folders down; here with all of them     *)
(* expanded.                                                               *)
DrawnFolders(d) ==
    LET Level[n \in Nat] == IF n = 0 THEN {f \in FolderIds : d.folders[f] = Root}
                            ELSE {f \in FolderIds : d.folders[f] \in Level[n - 1]}
    IN  UNION {Level[n] : n \in 0..Cardinality(FolderIds)}
Drawn(d) == {c \in Conns(d) : d.conns[c].folder \in DrawnFolders(d) \cup {Root}}

Listed == {c \in ConnIds : conns[c] # NoConn}
Cards == Drawn([conns |-> conns, folders |-> folders])

Init ==
    /\ data = EmptyData
    /\ conns = EmptyData.conns /\ folders = EmptyData.folders /\ loading = TRUE
    /\ top = HomeOnly
    /\ calls = [s \in Slots |-> NoCall]
    /\ loads = [n \in Loads |-> IF n = 0 THEN [NoLoad EXCEPT !.step = "conns"] ELSE NoLoad]
    /\ started = 0 /\ shownBy = 0 /\ missed = FALSE
    /\ used = {} /\ acts = 0 /\ deleted = {}

-----------------------------------------------------------------------------
(* _loadConnections: first the connections, then the folders, then both    *)
(* are shown.  Runs are not ordered among each other.                      *)
BeginLoad ==
    /\ started' = started + 1
    /\ loads' = [loads EXCEPT ![started'].step = "conns"]
    /\ missed' = FALSE
    /\ UNCHANGED shownBy

ReadConns(n) ==
    /\ loads[n].step = "conns"
    /\ loads' = [loads EXCEPT ![n].step = "folders", ![n].conns = data.conns]
    /\ UNCHANGED <<data, screenVars, calls, started, missed, shownBy, used, acts, deleted>>

ReadFolders(n) ==
    /\ loads[n].step = "folders"
    /\ loads' = [loads EXCEPT ![n].step = "answer", ![n].folders = data.folders]
    /\ UNCHANGED <<data, screenVars, calls, started, missed, shownBy, used, acts, deleted>>

(* Mutant: the folders just read are not taken over. *)
ShowConns(n) ==
    /\ loads[n].step = "answer"
    /\ conns' = loads[n].conns
    /\ loading' = FALSE
    /\ loads' = [loads EXCEPT ![n] = NoLoad]
    /\ shownBy' = n
    /\ UNCHANGED <<data, folders, top, calls, started, missed, used, acts, deleted>>

Show(n) ==
    /\ loads[n].step = "answer"
    /\ conns' = loads[n].conns /\ folders' = loads[n].folders
    /\ loading' = FALSE
    /\ loads' = [loads EXCEPT ![n] = NoLoad]
    /\ shownBy' = n
    /\ UNCHANGED <<data, top, calls, started, missed, used, acts, deleted>>

-----------------------------------------------------------------------------
(* The user.  The dialogs and the detail screen cover HomeScreen.          *)
AtHome == top.at = "home" /\ ~loading
Listing(l) == {f \in FolderIds : l[f] # NoFolder}

OpenDetail ==
    /\ AtHome
    /\ \/ top' = Open("detail", Nothing, Root, {})
       \/ \E c \in Cards : top' = Open("detail", c, conns[c].folder, {})
    /\ UNCHANGED <<data, conns, folders, loading, calls, loadVars, used, acts, deleted>>

(* ConnectionDetailScreen._loadFolders has its own answer from the vault.  *)
OfferFolders ==
    /\ top.at = "detail" /\ ~top.ready
    /\ top' = [top EXCEPT !.ready = TRUE, !.offered = Listing(data.folders)]
    /\ UNCHANGED <<data, conns, folders, loading, calls, loadVars, used, acts, deleted>>

(* The folder dialog keeps the list it was opened with.                    *)
OpenDialog ==
    /\ AtHome
    /\ \/ top' = Open("folders", Nothing, Root, Listing(folders))
       \/ top' = Open("import", Nothing, Root, {})
    /\ UNCHANGED <<data, conns, folders, loading, calls, loadVars, used, acts, deleted>>

(* Back, Close, or a tap beside the dialog, at any time.                   *)
CloseTop ==
    /\ top.at # "home"
    /\ top' = HomeOnly
    /\ calls' = [s \in Slots |-> IF calls[s].from = top.at
                                 THEN [calls[s] EXCEPT !.mounted = FALSE] ELSE calls[s]]
    /\ UNCHANGED <<data, conns, folders, loading, loadVars, used, acts, deleted>>

Refresh ==
    /\ AtHome /\ Listed # {} /\ acts < MaxActs
    /\ acts' = acts + 1
    /\ BeginLoad
    /\ UNCHANGED <<data, screenVars, calls, used, deleted>>

Issue(s, changes, fresh) ==
    /\ calls[s] = NoCall /\ acts < MaxActs
    /\ fresh \cap used = {}
    /\ calls' = [calls EXCEPT ![s] = [NoCall EXCEPT !.from = top.at, !.step = "apply",
                                                    !.changes = changes]]
    /\ used' = used \cup fresh /\ acts' = acts + 1
    /\ UNCHANGED <<data, conns, folders, loading, deleted>>

(* _deleteConnection, after the confirmation, of a connection drawn.       *)
DeleteConnection(s) == \E c \in Cards :
    /\ AtHome
    /\ Issue(s, <<[op |-> "delete_connection", conn |-> c]>>, {})
    /\ UNCHANGED <<top, loadVars>>

(* _cloneConnection: everything but the name, as the card has it.          *)
CloneConnection(s) == \E c \in Cards, d \in ConnIds, e \in Endpoints :
    /\ AtHome /\ e # conns[c].endpoint
    /\ Issue(s, <<[op |-> "add_connection", conn |-> d,
                   rec |-> [conns[c] EXCEPT !.endpoint = e]]>>, {d})
    /\ UNCHANGED <<top, loadVars>>

(* ConnectionDetailScreen._save.                                           *)
Save(s) == \E f \in top.offered \cup {Root, top.folder}, e \in Typed :
    /\ top.at = "detail" /\ ~top.busy
    /\ LET r == [endpoint |-> e, folder |-> f, jump |-> NoJump] IN
       IF top.conn = Nothing
       THEN \E c \in ConnIds :
                Issue(s, <<[op |-> "add_connection", conn |-> c, rec |-> r]>>, {c})
       ELSE Issue(s, <<[op |-> "update_connection", conn |-> top.conn, rec |-> r]>>, {})
    /\ top' = [top EXCEPT !.busy = TRUE]
    /\ UNCHANGED loadVars

AddFolder(s) == \E f \in FolderIds, p \in top.offered \cup {Root} :
    /\ top.at = "folders"
    /\ Issue(s, <<[op |-> "add_folder", folder |-> f, parent |-> p]>>, {f})
    /\ UNCHANGED <<top, loadVars>>

DeleteFolder(s) == \E f \in top.offered :
    /\ top.at = "folders"
    /\ Issue(s, <<[op |-> "delete_folder", folder |-> f]>>, {})
    /\ UNCHANGED <<top, loadVars>>

ImportXml(s) == \E doc \in Imports :
    /\ top.at = "import" /\ ~top.busy
    /\ Issue(s, doc.changes, doc.ids)
    /\ top' = [top EXCEPT !.busy = TRUE]
    /\ UNCHANGED loadVars

-----------------------------------------------------------------------------
(* The pool: one method of vault.rs after the other, then the save.        *)
ApplyChange(s) ==
    /\ calls[s].step = "apply"
    /\ LET ch == calls[s].changes[calls[s].applied + 1]
           last == calls[s].applied + 1 = Len(calls[s].changes)
       IN  IF Applicable(data, ch)
           THEN /\ data' = Apply(data, ch)
                /\ calls' = [calls EXCEPT ![s].applied = @ + 1,
                                          ![s].step = IF last THEN "save" ELSE "apply"]
                /\ deleted' = IF ch.op = "delete_connection"
                              THEN deleted \cup {ch.conn} ELSE deleted
           ELSE /\ calls' = [calls EXCEPT ![s].step = "failed"]
                /\ UNCHANGED <<data, deleted>>
    /\ UNCHANGED <<screenVars, loadVars, used, acts>>

SaveToFile(s) ==
    /\ calls[s].step = "save"
    /\ \E step \in {"returned", "failed"} : calls' = [calls EXCEPT ![s].step = step]
    /\ UNCHANGED <<data, screenVars, loadVars, used, acts, deleted>>

-----------------------------------------------------------------------------
(* The continuations of the awaits.                                        *)
Await(s, from) ==
    /\ calls[s].from = from /\ calls[s].step \in {"returned", "failed"}
    /\ calls' = [calls EXCEPT ![s] = NoCall]
    /\ UNCHANGED <<data, conns, folders, loading, used, acts, deleted>>

Returned(s) == calls[s].step = "returned"

NoReload(s) ==
    /\ missed' = (missed \/ calls[s].applied > 0)
    /\ UNCHANGED <<loads, started, shownBy>>

(* _deleteConnection and _cloneConnection: an error is a message only.     *)
ConnectionDone(s) ==
    /\ Await(s, "home")
    /\ IF Returned(s) THEN BeginLoad ELSE NoReload(s)
    /\ UNCHANGED top

Idle(t) == [t EXCEPT !.busy = FALSE]

(* Mutant: the button is enabled again in the good case only. *)
SaveDoneSpinning(s) ==
    /\ Await(s, "detail")
    /\ IF Returned(s) /\ calls[s].mounted
       THEN top' = HomeOnly /\ BeginLoad
       ELSE UNCHANGED top /\ NoReload(s)

(* _save: the screen pops with `true`, whereupon HomeScreen reloads; if it *)
(* was left meanwhile it popped without.                                   *)
SaveDone(s) ==
    /\ Await(s, "detail")
    /\ IF Returned(s) /\ calls[s].mounted
       THEN top' = HomeOnly /\ BeginLoad
       ELSE /\ top' = IF calls[s].mounted THEN Idle(top) ELSE top
            /\ NoReload(s)

(* _addFolder calls setState before onChanged, which throws if the dialog  *)
(* was closed; _deleteFolder calls onChanged first.                        *)
FolderDone(s) ==
    /\ Await(s, "folders")
    /\ IF Returned(s) /\ (calls[s].mounted \/ calls[s].changes[1].op = "delete_folder")
       THEN BeginLoad ELSE NoReload(s)
    /\ UNCHANGED top

(* Mutant: `finally` is forgotten. *)
ImportDoneSpinning(s) ==
    /\ Await(s, "import")
    /\ IF Returned(s) THEN BeginLoad ELSE NoReload(s)
    /\ top' = IF calls[s].mounted /\ Returned(s) THEN HomeOnly ELSE top

(* _import: onImported, then the dialog pops; `finally` ends the spinner.  *)
ImportDone(s) ==
    /\ Await(s, "import")
    /\ IF Returned(s) THEN BeginLoad ELSE NoReload(s)
    /\ top' = IF ~calls[s].mounted THEN top ELSE IF Returned(s) THEN HomeOnly ELSE Idle(top)

Pool(s) == ApplyChange(s) \/ SaveToFile(s)
Continue(s) == ConnectionDone(s) \/ SaveDone(s) \/ FolderDone(s) \/ ImportDone(s)
Reload(n) == ReadConns(n) \/ ReadFolders(n) \/ Show(n)

Next ==
    \/ OpenDetail \/ OfferFolders \/ OpenDialog \/ CloseTop \/ Refresh
    \/ \E s \in Slots : \/ DeleteConnection(s) \/ CloneConnection(s) \/ Save(s)
                       \/ AddFolder(s) \/ DeleteFolder(s) \/ ImportXml(s)
                       \/ Pool(s) \/ Continue(s)
    \/ \E n \in Loads : Reload(n)

Spec == Init /\ [][Next]_vars

(* Threads run and continuations are executed; the user need do nothing.   *)
Fairness == /\ \A s \in Slots : WF_vars(Pool(s)) /\ WF_vars(Continue(s))
            /\ \A n \in Loads : WF_vars(Reload(n))

FairSpec == Spec /\ Fairness

-----------------------------------------------------------------------------
(* Every variable holds a value of its kind, no reload is begun that       *)
(* nobody asked for, and a form is busy only while it waits for a call.    *)
TypeOK ==
    /\ data \in VaultDatas /\ [conns |-> conns, folders |-> folders] \in VaultDatas
    /\ {loading, missed} \subseteq BOOLEAN
    /\ top.at \in {"home", "detail", "folders", "import"}
    /\ top.conn \in ConnIds \cup {Nothing} /\ top.folder \in Folders
    /\ top.offered \subseteq FolderIds
    /\ \A s \in Slots : /\ calls[s].step \in {"idle", "apply", "save", "returned", "failed"}
                        /\ calls[s].applied \in 0..Len(calls[s].changes)
    /\ \A n \in Loads : loads[n].step \in {"unused", "conns", "folders", "answer"}
    /\ started \in 0..acts /\ shownBy \in 0..started /\ acts \in 0..MaxActs
    /\ used \subseteq ConnIds \cup FolderIds /\ deleted \subseteq used
    /\ top.busy => \E s \in Slots : calls[s].from = top.at /\ calls[s].mounted

(* When everything has come back, HomeScreen shows what the vault holds,   *)
(* whatever the user did meanwhile, unless an older reload was shown after *)
(* a newer one, or an edit changed the vault and ended without a reload    *)
(* (an error, or a screen that was left).                                  *)
Settled == /\ \A s \in Slots : calls[s] = NoCall
           /\ \A n \in Loads : loads[n].step = "unused"
ViewIsCurrent == Settled /\ shownBy = started /\ ~missed
                    => conns = data.conns /\ folders = data.folders

(* A connection that was deleted does not come back: not by saving a form  *)
(* opened before, by cloning its card or by a second deletion.             *)
DeletedStaysDeleted == deleted \cap Conns(data) = {}

(* No spinner stays: the list's, the form's and the import dialog's all    *)
(* end, on errors too.                                                     *)
SpinnersEnd == (loading ~> ~loading) /\ (top.busy ~> ~top.busy)

(* "Connections in this folder will be moved to root" (the dialog that     *)
(* asks before a folder is deleted): none that could be reached in the     *)
(* tree before is out of reach afterwards.                                 *)
DeletionHidesNothing == [][
    (\E f \in FolderIds : HasFolder(data, f) /\ ~HasFolder(data, f)')
        => Drawn(data) \subseteq Drawn(data')]_vars
=============================================================================
