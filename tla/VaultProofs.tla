----------------------------- MODULE VaultProofs -----------------------------
(***************************************************************************)
(* Theorems about the vault for any number of workers, connections,        *)
(* folders, salts and calls: what the operations on its contents return,   *)
(* what holds whatever the user does, what Lock promises, that the vault   *)
(* is a VaultStore; then that VaultScreen and the keyring implement the    *)
(* vault, so whatever is proved of it holds of all three together, that    *)
(* what the keyring holds opens the vault, and that the Remember box shows *)
(* whether it holds anything.                                              *)
(***************************************************************************)
EXTENDS VaultScreen, TLAPS

(* A new vault is well formed. *)
LEMMA EmptyDataType == EmptyData \in VaultDatas
  BY DEF EmptyData, VaultDatas

(* Each method of vault.rs that changes the contents keeps them well formed. *)
LEMMA PutConnType ==
  ASSUME NEW d \in VaultDatas, NEW c \in ConnIds, NEW r \in ConnRecs
  PROVE  PutConn(d, c, r) \in VaultDatas
  BY DEF PutConn, VaultDatas

LEMMA RemoveConnType ==
  ASSUME NEW d \in VaultDatas, NEW c \in ConnIds
  PROVE  RemoveConn(d, c) \in VaultDatas
  BY DEF RemoveConn, VaultDatas

LEMMA PutFolderType ==
  ASSUME NEW d \in VaultDatas, NEW f \in FolderIds, NEW p \in Folders
  PROVE  PutFolder(d, f, p) \in VaultDatas
  BY DEF PutFolder, VaultDatas

LEMMA RemoveFolderType ==
  ASSUME NEW d \in VaultDatas, NEW f \in FolderIds
  PROVE  RemoveFolder(d, f) \in VaultDatas
<1>1. ASSUME NEW c \in ConnIds, HasConn(d, c)
      PROVE  [d.conns[c] EXCEPT !.folder = Root] \in ConnRecs
  BY <1>1 DEF HasConn, VaultDatas, ConnRecs, Folders
<1>2. QED
  BY <1>1 DEF RemoveFolder, VaultDatas

LEMMA ImportConnsType ==
  ASSUME NEW d \in VaultDatas, NEW batch \in Batches
  PROVE  ImportConns(d, batch) \in VaultDatas
<1> DEFINE Source(c) == {i \in 1..Len(batch) : batch[i].id = c /\ Kept(d, batch, i)}
<1> DEFINE new == [c \in ConnIds |-> IF Source(c) = {} THEN d.conns[c]
                                     ELSE batch[CHOOSE i \in Source(c) : TRUE].rec]
<1>1. ASSUME NEW c \in ConnIds, Source(c) # {}
      PROVE  batch[CHOOSE i \in Source(c) : TRUE].rec \in ConnRecs
  <2>1. (CHOOSE i \in Source(c) : TRUE) \in Source(c)
    BY <1>1
  <2>2. (CHOOSE i \in Source(c) : TRUE) \in 1..Len(batch)
    BY <2>1
  <2> DEFINE Elems == [id: ConnIds, rec: ConnRecs]
  <2>3. batch \in Seq(Elems)
    BY DEF Batches
  <2> HIDE DEF Elems
  <2>4. \A i \in 1..Len(batch) : batch[i] \in Elems
    BY <2>3
  <2> QED
    BY <2>2, <2>4 DEF Elems
<1>2. new \in [ConnIds -> ConnRecs \cup {NoConn}]
  BY <1>1 DEF VaultDatas
<1>3. ImportConns(d, batch) = [d EXCEPT !.conns = new]
  BY DEF ImportConns
<1> HIDE DEF new
<1>4. QED
  BY <1>2, <1>3 DEF VaultDatas

(* ... and so does every change. *)
LEMMA ApplyType ==
  ASSUME NEW d \in VaultDatas, NEW ch \in Changes
  PROVE  Apply(d, ch) \in VaultDatas
<1>1. CASE ch \in [op: {"add_connection", "update_connection"}, conn: ConnIds, rec: ConnRecs]
  BY <1>1, PutConnType DEF Apply
<1>2. CASE ch \in [op: {"delete_connection"}, conn: ConnIds]
  BY <1>2, RemoveConnType DEF Apply
<1>3. CASE ch \in [op: {"add_folder", "update_folder"}, folder: FolderIds, parent: Folders]
  BY <1>3, PutFolderType DEF Apply
<1>4. CASE ch \in [op: {"delete_folder"}, folder: FolderIds]
  BY <1>4, RemoveFolderType DEF Apply
<1>5. CASE ch \in [op: {"import_connections"}, batch: Batches]
  BY <1>5, ImportConnsType DEF Apply
<1>6. QED
  BY <1>1, <1>2, <1>3, <1>4, <1>5 DEF Changes

-----------------------------------------------------------------------------
(* delete_folder says that connections are "moved back to the root rather  *)
(* than being deleted": none is lost, and none is left in the folder.      *)
THEOREM DeleteFolderKeepsConnections ==
  ASSUME NEW d \in VaultDatas, NEW f \in FolderIds
  PROVE  /\ Conns(RemoveFolder(d, f)) = Conns(d)
         /\ \A c \in Conns(d) : RemoveFolder(d, f).conns[c].folder # f
         /\ \A c \in Conns(d) : d.conns[c].folder # f =>
                RemoveFolder(d, f).conns[c] = d.conns[c]
<1> DEFINE e == RemoveFolder(d, f)
<1>1. ASSUME NEW c \in ConnIds
      PROVE  e.conns[c] = IF HasConn(d, c) /\ d.conns[c].folder = f
                          THEN [d.conns[c] EXCEPT !.folder = Root] ELSE d.conns[c]
  BY DEF RemoveFolder
<1> HIDE DEF e
<1>2. ASSUME NEW c \in ConnIds, HasConn(d, c)
      PROVE  /\ d.conns[c] \in ConnRecs
             /\ e.conns[c] \in ConnRecs
             /\ e.conns[c].folder # f
             /\ d.conns[c].folder # f => e.conns[c] = d.conns[c]
  <2>1. d.conns[c] \in ConnRecs
    BY <1>2 DEF HasConn, VaultDatas
  <2>2. CASE d.conns[c].folder = f
    <3>1. e.conns[c] = [d.conns[c] EXCEPT !.folder = Root]
      BY <1>1, <1>2, <2>2
    <3> QED
      BY <2>1, <2>2, <3>1, DataAssumption DEF ConnRecs, Folders
  <2>3. CASE d.conns[c].folder # f
    BY <1>1, <1>2, <2>1, <2>3
  <2> QED
    BY <2>1, <2>2, <2>3
<1>3. ASSUME NEW c \in ConnIds
      PROVE  HasConn(e, c) <=> HasConn(d, c)
  BY <1>1, <1>2, <1>3, DataAssumption DEF HasConn
<1>4. Conns(e) = Conns(d)
  BY <1>3 DEF Conns
<1>5. QED
  BY <1>2, <1>4 DEF Conns, e

-----------------------------------------------------------------------------
(* Which mutexes a worker holds between two of its steps: save_to_file's   *)
(* guards are the only ones that outlive a step.                           *)
HoldsState(w) == pc[w] \in {"save_key", "open", "write"}
HoldsKey(w) == pc[w] \in {"open", "write"}

(* A mutex is held by the worker at the matching place and nobody else,    *)
(* and what was found inside it is still there.                            *)
MutexDiscipline ==
    \A w \in Workers :
        /\ HoldsState(w) <=> stateLock = w
        /\ HoldsKey(w) <=> keyLock = w
        /\ HoldsState(w) => state # NoVault
        /\ HoldsKey(w) => masterKey # NoKey

(* What a worker carries from one step to a later one. *)
CallsWellFormed ==
    \A w \in Workers :
        /\ pc[w] = "apply" => applied[w] < Len(call[w].changes)
        /\ call[w].op = "add_connection" =>
               call[w].changes # <<>> /\ call[w].changes[1].conn \in ConnIds

Images ==
    \A w \in Workers :
        /\ pc[w] \in {"create_key", "load_state", "load_key"} =>
               buf[w] \in Files /\ buf[w].key = buf[w].salt
        /\ HoldsKey(w) =>
               buf[w] = [salt |-> state.salt, key |-> masterKey, data |-> state.data]
        /\ pc[w] = "returned" => buf[w] \in Files

MemInv == TypeOK /\ MutexDiscipline /\ CallsWellFormed /\ Images

(* The file appears once and is never removed. *)
FileExists ==
    /\ screen = "home" \/ exists \/ dart # "ui" => disk # Absent
    /\ \A w \in Workers :
          pc[w] \in {"write", "returned", "load_state", "load_key"} => disk # Absent

(* Before the first vault is shown the calls are creations of the          *)
(* VaultScreen shown, and there is nothing in memory or on disk but the    *)
(* empty contents.                                                         *)
Fresh == screen = "vault" /\ ~exists
Creating(w) == pc[w] \in {"create_state", "create_key"}
FirstVault ==
    /\ Fresh => /\ auto = "none" /\ dart = "ui"
                /\ state # NoVault => state.data = EmptyData
                /\ Readable => disk.data = EmptyData
                /\ \A w \in Workers : pc[w] # "idle" =>
                       w \in mine /\ call[w].op = "create_vault" /\ pc[w] # "apply"
                       /\ pc[w] \notin {"load_read", "load_state", "load_key"}
    /\ dart # "ui" => screen = "home"

(* Creations that do not overlap: each ends before the first vault is      *)
(* shown, and none begins once a readable file is there.                   *)
OneCreation ==
    /\ Fresh => /\ \A v, w \in Workers : pc[v] # "idle" /\ pc[w] # "idle" => v = w
                /\ Readable => \E w \in Workers : pc[w] = "returned"
    /\ \A w \in Workers : Creating(w) => Fresh
    /\ \A w \in Workers : pc[w] = "create_key" => state # NoVault /\ state.salt = buf[w].salt

(* Outside a creation every key, salt and image in play is of one salt. *)
OneSalt ==
    (\A w \in Workers : ~Creating(w)) =>
        \E s \in Salts \cup {NoKey} :
            /\ state # NoVault => state.salt = s
            /\ masterKey # NoKey => masterKey = s
            /\ \A w \in Workers : pc[w] \in {"load_state", "load_key"} => buf[w].salt = s
            /\ Readable => disk.salt = s

Sole == OneCreation /\ OneSalt /\ DiskDecryptable

IInv == MemInv /\ FileExists /\ FirstVault /\ ("rivals" \notin met => Sole)

-----------------------------------------------------------------------------
USE VaultAssumption, DataAssumption DEF vaultVars, workerVars, uiVars, ghostVars

(* The initial state satisfies MemInv. *)
LEMMA InitMem == Init => MemInv
<1>1. Init => TypeOK
  <2>1. NoCall \in Calls
    BY DEF NoCall, Calls, Opening, Editing
  <2>2. Init => pc \in [Workers -> Steps \cup Done \cup {"idle"}] /\ applied \in [Workers -> Nat]
    BY DEF Init
  <2>3. Init => call \in [Workers -> Calls] /\ buf \in [Workers -> Files \cup {Absent}]
    BY <2>1 DEF Init
  <2>4. Init => used \subseteq ConnIds \cup FolderIds \cup Salts /\ acked \subseteq ConnIds
                /\ doomed \subseteq ConnIds /\ mine \subseteq Workers
                /\ lost \subseteq ConnIds /\ met \subseteq {"rivals", "late", "crossed"}
    BY DEF Init
  <2>5. Init => exists \in BOOLEAN /\ sealed \in BOOLEAN
    BY Zenon DEF Init
  <2>6. Init => state \in VaultStates \cup {NoVault} /\ masterKey \in Salts \cup {NoKey}
                /\ stateLock \in Workers \cup {Free} /\ keyLock \in Workers \cup {Free}
                /\ disk \in Files \cup {Absent, Torn}
    BY Zenon DEF Init
  <2>7. Init => screen \in {"vault", "home"} /\ auto \in {"none", "pending", "orphan"}
                /\ dart \in {"ui", "lock_key", "lock_state"} /\ calls \in Nat
    BY DEF Init
  <2>8. QED
    BY Zenon, <2>2, <2>3, <2>4, <2>5, <2>6, <2>7 DEF TypeOK
<1>2. Init => MutexDiscipline
  BY DEF Init, MutexDiscipline, HoldsState, HoldsKey
<1>3. Init => CallsWellFormed
  BY DEF Init, CallsWellFormed, NoCall
<1>4. Init => Images
  BY DEF Init, Images, HoldsKey
<1>5. QED
  BY <1>1, <1>2, <1>3, <1>4 DEF MemInv

(* Issuing any call keeps MemInv: the worker was idle, holds nothing and   *)
(* starts at a step that needs nothing from before.                        *)
LEMMA BeginMem ==
  ASSUME MemInv, NEW w \in Workers,
         NEW op \in Opening \cup Editing, NEW changes \in Seq(Changes),
         NEW first \in {"create_state", "load_read", "apply"},
         first = "apply" => changes # <<>>,
         op = "add_connection" => changes # <<>> /\ changes[1].conn \in ConnIds,
         Begin(w, op, changes, first),
         auto' \in {"none", "pending", "orphan"}, mine' \subseteq Workers,
         used' \subseteq ConnIds \cup FolderIds \cup Salts,
         acked' \subseteq ConnIds, doomed' \subseteq ConnIds, sealed' \in BOOLEAN,
         lost' \subseteq ConnIds, met' \subseteq {"rivals", "late", "crossed"}
  PROVE  MemInv'
<1> USE DEF MemInv
<1>1. TypeOK'
  BY DEF TypeOK, Begin, Calls, Steps
<1>2. MutexDiscipline'
  BY DEF TypeOK, MutexDiscipline, HoldsState, HoldsKey, Begin
<1>3. CallsWellFormed'
  <2>1. first = "apply" => 0 < Len(changes)
    OBVIOUS
  <2>2. QED
    BY <2>1 DEF TypeOK, CallsWellFormed, Begin
<1>4. Images'
  BY DEF TypeOK, Images, HoldsKey, Begin
<1>5. QED
  BY <1>1, <1>2, <1>3, <1>4

(* The edits: what is asked for is what the screens offer.                 *)
Offered(op, changes, doom) ==
    /\ changes # <<>>
    /\ \A i \in 1..Len(changes) :
          /\ changes[i] \in OfferedEdits
          /\ changes[i].op = "delete_connection" => changes[i].conn \in doom
    /\ op = "add_connection" => Len(changes) = 1 /\ changes[1].op = "add_connection"

Edits(w) ==
    \E op \in Editing, changes \in Seq(Changes), fresh \in SUBSET (ConnIds \cup FolderIds),
       doom \in SUBSET ConnIds : Edit(w, op, changes, fresh, doom) /\ Offered(op, changes, doom)

LEMMA RequestCases ==
  ASSUME NEW w \in Workers, Request(w)
  PROVE  CreateVault(w) \/ UnlockVault(w) \/ AutoUnlock(w) \/ Edits(w)
<1>1. ASSUME NEW op \in Editing, NEW changes \in Seq(Changes),
             NEW fresh \in SUBSET (ConnIds \cup FolderIds), NEW doom \in SUBSET ConnIds,
             Edit(w, op, changes, fresh, doom), Offered(op, changes, doom)
      PROVE  Edits(w)
  BY <1>1 DEF Edits
<1>2. ASSUME NEW x \in Changes, x \in OfferedEdits, NEW op \in Editing,
             NEW fresh \in SUBSET (ConnIds \cup FolderIds), NEW doom \in SUBSET ConnIds,
             x.op = "delete_connection" => x.conn \in doom,
             op = "add_connection" => x.op = "add_connection",
             Edit(w, op, <<x>>, fresh, doom)
      PROVE  Edits(w)
  <2> DEFINE one == <<x>>
  <2>1. one \in Seq(Changes) /\ Len(one) = 1 /\ one # <<>> /\ \A i \in 1..Len(one) : one[i] = x
    OBVIOUS
  <2>2. Edit(w, op, one, fresh, doom)
    BY <1>2
  <2> HIDE DEF one
  <2>3. Offered(op, one, doom)
    BY <1>2, <2>1 DEF Offered
  <2>4. QED
    BY <1>1, <2>1, <2>2, <2>3
<1>3. CASE AddConnection(w)
  <2>1. PICK c \in ConnIds, r \in Forms :
          Edit(w, "add_connection", <<[op |-> "add_connection", conn |-> c, rec |-> r]>>, {c}, {})
    BY <1>3 DEF AddConnection
  <2> DEFINE x == [op |-> "add_connection", conn |-> c, rec |-> r]
  <2>2. x \in Changes /\ x \in OfferedEdits /\ x.op = "add_connection"
    BY DEF Changes, OfferedEdits
  <2>3. Edit(w, "add_connection", <<x>>, {c}, {})
    BY <2>1
  <2> HIDE DEF x
  <2>4. "add_connection" \in Editing
    BY DEF Editing
  <2>5. QED
    BY <1>2, <2>2, <2>3, <2>4
<1>4. CASE UpdateConnection(w)
  <2>1. PICK c \in ConnIds, r \in Forms :
          Edit(w, "update_connection", <<[op |-> "update_connection", conn |-> c, rec |-> r]>>, {}, {})
    BY <1>4 DEF UpdateConnection
  <2> DEFINE x == [op |-> "update_connection", conn |-> c, rec |-> r]
  <2>2. x \in Changes /\ x \in OfferedEdits /\ x.op = "update_connection"
    BY DEF Changes, OfferedEdits
  <2>3. Edit(w, "update_connection", <<x>>, {}, {})
    BY <2>1
  <2> HIDE DEF x
  <2>4. "update_connection" \in Editing
    BY DEF Editing
  <2>5. QED
    BY <1>2, <2>2, <2>3, <2>4
<1>5. CASE DeleteConnection(w)
  <2>1. PICK c \in ConnIds :
          Edit(w, "delete_connection", <<[op |-> "delete_connection", conn |-> c]>>, {}, {c})
    BY <1>5 DEF DeleteConnection
  <2> DEFINE x == [op |-> "delete_connection", conn |-> c]
  <2>2. x \in Changes /\ x \in OfferedEdits /\ x.op = "delete_connection" /\ x.conn \in {c}
    BY DEF Changes, OfferedEdits
  <2>3. Edit(w, "delete_connection", <<x>>, {}, {c})
    BY <2>1
  <2> HIDE DEF x
  <2>4. "delete_connection" \in Editing
    BY DEF Editing
  <2>5. QED
    BY <1>2, <2>2, <2>3, <2>4
<1>6. CASE AddFolder(w)
  <2>1. PICK f \in FolderIds, p \in Folders :
          Edit(w, "add_folder", <<[op |-> "add_folder", folder |-> f, parent |-> p]>>, {f}, {})
    BY <1>6 DEF AddFolder, Folders
  <2> DEFINE x == [op |-> "add_folder", folder |-> f, parent |-> p]
  <2>2. x \in Changes /\ x \in OfferedEdits /\ x.op = "add_folder"
    BY DEF Changes, OfferedEdits
  <2>3. Edit(w, "add_folder", <<x>>, {f}, {})
    BY <2>1
  <2> HIDE DEF x
  <2>4. "add_folder" \in Editing
    BY DEF Editing
  <2>5. QED
    BY <1>2, <2>2, <2>3, <2>4
<1>7. CASE UpdateFolder(w)
  <2>1. PICK f \in FolderIds, p \in Folders :
          Edit(w, "update_folder", <<[op |-> "update_folder", folder |-> f, parent |-> p]>>, {}, {})
    BY <1>7 DEF UpdateFolder, Folders
  <2> DEFINE x == [op |-> "update_folder", folder |-> f, parent |-> p]
  <2>2. x \in Changes /\ x \in OfferedEdits /\ x.op = "update_folder"
    BY DEF Changes, OfferedEdits
  <2>3. Edit(w, "update_folder", <<x>>, {}, {})
    BY <2>1
  <2> HIDE DEF x
  <2>4. "update_folder" \in Editing
    BY DEF Editing
  <2>5. QED
    BY <1>2, <2>2, <2>3, <2>4
<1>8. CASE DeleteFolder(w)
  <2>1. PICK f \in FolderIds :
          Edit(w, "delete_folder", <<[op |-> "delete_folder", folder |-> f]>>, {}, {})
    BY <1>8 DEF DeleteFolder
  <2> DEFINE x == [op |-> "delete_folder", folder |-> f]
  <2>2. x \in Changes /\ x \in OfferedEdits /\ x.op = "delete_folder"
    BY DEF Changes, OfferedEdits
  <2>3. Edit(w, "delete_folder", <<x>>, {}, {})
    BY <2>1
  <2> HIDE DEF x
  <2>4. "delete_folder" \in Editing
    BY DEF Editing
  <2>5. QED
    BY <1>2, <2>2, <2>3, <2>4
<1>9. CASE ImportXml(w)
  <2>1. PICK doc \in Imports : Edit(w, "import_mremoteng_xml", doc.changes, doc.ids, {})
    BY <1>9 DEF ImportXml
  <2>2. doc.changes \in Seq(Changes) /\ "import_mremoteng_xml" \in Editing
    BY DEF Editing
  <2>3. \A i \in 1..Len(doc.changes) : doc.changes[i] \in OfferedEdits
                                      /\ doc.changes[i].op # "delete_connection"
    <3> DEFINE Of(d) == {d.changes[i] : i \in DOMAIN d.changes}
    <3>1. \A i \in 1..Len(doc.changes) : doc.changes[i] \in Of(doc)
      BY <2>2
    <3>2. OfferedEdits = [op: {"add_connection", "update_connection"}, conn: ConnIds, rec: Forms]
                    \cup [op: {"delete_connection"}, conn: ConnIds]
                    \cup [op: {"add_folder", "update_folder"}, folder: FolderIds, parent: Folders]
                    \cup [op: {"delete_folder"}, folder: FolderIds]
                    \cup UNION {Of(d) : d \in Imports}
      BY DEF OfferedEdits
    <3> HIDE DEF Of
    <3>3. \A i \in 1..Len(doc.changes) : doc.changes[i].op # "delete_connection"
      BY <2>2
    <3>4. QED
      BY <3>1, <3>2, <3>3
  <2>4. Offered("import_mremoteng_xml", doc.changes, {})
    BY <2>2, <2>3 DEF Offered
  <2>5. QED
    BY <1>1, <2>1, <2>2, <2>4
<1>10. QED
  BY <1>3, <1>4, <1>5, <1>6, <1>7, <1>8, <1>9 DEF Request

(* The calls of the UI. *)
LEMMA RequestMem ==
  ASSUME MemInv, NEW w \in Workers, Request(w)
  PROVE  MemInv'
<1> USE DEF Opening, Editing
<1>1. <<>> \in Seq(Changes)
  OBVIOUS
<1>2. CASE CreateVault(w) \/ UnlockVault(w)
  <2>1. auto' \in {"none", "pending", "orphan"} /\ mine' \subseteq Workers
        /\ used' \subseteq ConnIds \cup FolderIds \cup Salts
        /\ acked' \subseteq ConnIds /\ doomed' \subseteq ConnIds /\ sealed' = FALSE
        /\ lost' \subseteq ConnIds /\ met' \subseteq {"rivals", "late", "crossed"}
    BY <1>2 DEF CreateVault, UnlockVault, MemInv, TypeOK
  <2>2. QED
    BY <1>1, <1>2, <2>1, BeginMem DEF CreateVault, UnlockVault
<1>3. CASE AutoUnlock(w)
  <2>1. auto' \in {"none", "pending", "orphan"} /\ mine' \subseteq Workers
        /\ used' \subseteq ConnIds \cup FolderIds \cup Salts
        /\ acked' \subseteq ConnIds /\ doomed' \subseteq ConnIds
        /\ lost' \subseteq ConnIds /\ met' \subseteq {"rivals", "late", "crossed"}
    BY <1>3 DEF AutoUnlock, MemInv, TypeOK
  <2>2. sealed' \in BOOLEAN
    BY <1>3 DEF AutoUnlock, MemInv, TypeOK
  <2>3. QED
    BY <1>1, <1>3, <2>1, <2>2, BeginMem DEF AutoUnlock
<1>4. CASE Edits(w)
  <2>1. PICK op \in Editing, changes \in Seq(Changes), fresh \in SUBSET (ConnIds \cup FolderIds),
             doom \in SUBSET ConnIds :
          Edit(w, op, changes, fresh, doom) /\ Offered(op, changes, doom)
    BY <1>4 DEF Edits
  <2>2. auto' \in {"none", "pending", "orphan"} /\ mine' \subseteq Workers
        /\ used' \subseteq ConnIds \cup FolderIds \cup Salts
        /\ acked' \subseteq ConnIds /\ doomed' \subseteq ConnIds
        /\ lost' \subseteq ConnIds /\ met' \subseteq {"rivals", "late", "crossed"}
    BY <2>1 DEF Edit, MemInv, TypeOK
  <2>3. sealed' \in BOOLEAN
    BY <2>1 DEF Edit, MemInv, TypeOK
  <2>4. changes # <<>> /\ (op = "add_connection" => changes[1].conn \in ConnIds)
    BY <2>1 DEF Offered, Changes
  <2>5. QED
    BY <2>1, <2>2, <2>3, <2>4, BeginMem DEF Edit
<1>5. QED
  BY <1>2, <1>3, <1>4, RequestCases

-----------------------------------------------------------------------------
(* What was added are connections.                                         *)
LEMMA AddedType == ASSUME MemInv PROVE Added \subseteq ConnIds
  BY DEF MemInv, TypeOK, CallsWellFormed, Added

(* The steps of a worker. *)
LEMMA WorkerMem ==
  ASSUME MemInv, NEW w \in Workers, WorkerStep(w)
  PROVE  MemInv'
<1> USE DEF MemInv, Goto
<1>1. CASE CreateState(w)
  <2>1. PICK s \in Salts :
          /\ state' = [salt |-> s, data |-> EmptyData]
          /\ buf' = [buf EXCEPT ![w] = [salt |-> s, key |-> s, data |-> EmptyData]]
          /\ used' = used \cup {s}
    BY <1>1 DEF CreateState
  <2>2. state' \in VaultStates /\ [salt |-> s, key |-> s, data |-> EmptyData] \in Files
    BY <2>1, EmptyDataType DEF VaultStates, Files
  <2>8. lost' \subseteq ConnIds
    BY <1>1, AddedType DEF CreateState, Overtaken, TypeOK
  <2>3. TypeOK'
    BY <1>1, <2>1, <2>2, <2>8 DEF TypeOK, CreateState, Steps
  <2>4. MutexDiscipline'
    BY <1>1, <2>2 DEF TypeOK, MutexDiscipline, HoldsState, HoldsKey, CreateState
  <2>5. CallsWellFormed'
    BY <1>1 DEF TypeOK, CallsWellFormed, CreateState
  <2>6. Images'
    BY <1>1, <2>1, <2>2 DEF TypeOK, MutexDiscipline, HoldsState, Images, HoldsKey, CreateState
  <2>7. QED
    BY <2>3, <2>4, <2>5, <2>6
<1>2. CASE CreateKey(w)
  <2>1. buf[w] \in Files /\ buf[w].key \in Salts
    BY <1>2 DEF CreateKey, Images, Files
  <2>7. met' \subseteq {"rivals", "late", "crossed"}
    BY <1>2 DEF CreateKey, MeetsLock, TypeOK
  <2>2. TypeOK'
    BY <1>2, <2>1, <2>7 DEF TypeOK, CreateKey, Steps
  <2>3. MutexDiscipline'
    BY <1>2, <2>1 DEF TypeOK, MutexDiscipline, HoldsState, HoldsKey, CreateKey
  <2>4. CallsWellFormed'
    BY <1>2 DEF TypeOK, CallsWellFormed, CreateKey
  <2>5. Images'
    BY <1>2 DEF TypeOK, MutexDiscipline, Images, HoldsKey, CreateKey
  <2>6. QED
    BY <2>2, <2>3, <2>4, <2>5
<1>3. CASE ApplyChange(w)
  <2> DEFINE ch == call[w].changes[applied[w] + 1]
  <2>1. pc[w] = "apply" /\ stateLock = Free /\ keyLock = Free /\ call[w].changes \in Seq(Changes)
        /\ applied[w] \in Nat /\ applied[w] < Len(call[w].changes)
    BY <1>3 DEF ApplyChange, TypeOK, Calls, CallsWellFormed, MutexDiscipline, HoldsState, HoldsKey
  <2>2. ch \in Changes
    BY <2>1
  <2>3. ASSUME state # NoVault
        PROVE  [state EXCEPT !.data = Apply(@, ch)] \in VaultStates
    <3>1. state \in VaultStates /\ state.data \in VaultDatas
      BY <2>3 DEF TypeOK, VaultStates
    <3>2. Apply(state.data, ch) \in VaultDatas
      BY <2>2, <3>1, ApplyType
    <3>3. QED
      BY <3>1, <3>2 DEF VaultStates
  <2> HIDE DEF ch
  <2>4. \/ state' = state /\ applied' = applied /\ pc' = [pc EXCEPT ![w] = "failed"]
        \/ /\ state # NoVault /\ state' = [state EXCEPT !.data = Apply(@, ch)]
           /\ applied' = [applied EXCEPT ![w] = @ + 1]
           /\ \/ pc' = [pc EXCEPT ![w] = "save_state"]
              \/ /\ pc' = [pc EXCEPT ![w] = "apply"]
                 /\ applied[w] + 1 # Len(call[w].changes)
    BY <1>3 DEF ApplyChange, ch
  <2>5. UNCHANGED <<masterKey, stateLock, keyLock, disk, call, buf, uiVars, ghostVars>>
    BY <1>3 DEF ApplyChange
  <2>6. (state' = NoVault) = (state = NoVault)
    BY <2>3, <2>4
  <2>7. TypeOK'
    <3>1. state' \in VaultStates \cup {NoVault}
      BY <2>3, <2>4 DEF TypeOK
    <3>2. pc' \in [Workers -> Steps \cup Done \cup {"idle"}]
      BY <2>4 DEF TypeOK, Steps, Done
    <3>3. applied' \in [Workers -> Nat]
      <4>1. applied \in [Workers -> Nat] /\ applied[w] + 1 \in Nat
        BY <2>1 DEF TypeOK
      <4>2. applied' = applied \/ applied' = [applied EXCEPT ![w] = applied[w] + 1]
        BY <2>4
      <4>3. QED
        BY <4>1, <4>2
    <3>4. QED
      BY <2>5, <3>1, <3>2, <3>3 DEF TypeOK
  <2>8. MutexDiscipline'
    BY <2>1, <2>4, <2>5, <2>6 DEF TypeOK, MutexDiscipline, HoldsState, HoldsKey
  <2>9. CallsWellFormed'
    BY <2>1, <2>4, <2>5 DEF TypeOK, CallsWellFormed, Calls
  <2>10. Images'
    BY <2>1, <2>4, <2>5 DEF TypeOK, MutexDiscipline, Images, HoldsKey
  <2>11. QED
    BY <2>7, <2>8, <2>9, <2>10
<1>4. CASE SaveState(w)
  <2>1. TypeOK'
    BY <1>4 DEF TypeOK, SaveState, Steps, Done
  <2>2. MutexDiscipline'
    BY <1>4 DEF TypeOK, MutexDiscipline, HoldsState, HoldsKey, SaveState
  <2>3. CallsWellFormed'
    BY <1>4 DEF TypeOK, CallsWellFormed, SaveState
  <2>4. Images'
    BY <1>4 DEF TypeOK, Images, HoldsKey, SaveState
  <2>5. QED
    BY <2>1, <2>2, <2>3, <2>4
<1>5. CASE SaveKey(w)
  <2>1. state \in VaultStates /\ stateLock = w
    BY <1>5 DEF TypeOK, MutexDiscipline, HoldsState, SaveKey
  <2>2. masterKey # NoKey =>
          [salt |-> state.salt, key |-> masterKey, data |-> state.data] \in Files
    BY <2>1 DEF TypeOK, VaultStates, Files
  <2>3. TypeOK'
    BY <1>5, <2>2, SMTT(30) DEF TypeOK, SaveKey, Steps, Done
  <2>4. MutexDiscipline'
    BY <1>5, <2>1 DEF TypeOK, MutexDiscipline, HoldsState, HoldsKey, SaveKey
  <2>5. CallsWellFormed'
    BY <1>5 DEF TypeOK, CallsWellFormed, SaveKey
  <2>6. Images'
    BY <1>5 DEF TypeOK, MutexDiscipline, Images, HoldsKey, SaveKey
  <2>7. QED
    BY <2>3, <2>4, <2>5, <2>6
<1>6. CASE OpenFile(w)
  <2>1. TypeOK'
    BY <1>6 DEF TypeOK, OpenFile, Release, Steps, Done
  <2>2. MutexDiscipline'
    BY <1>6 DEF TypeOK, MutexDiscipline, HoldsState, HoldsKey, OpenFile, Release
  <2>3. CallsWellFormed'
    BY <1>6 DEF TypeOK, CallsWellFormed, OpenFile
  <2>4. Images'
    BY <1>6 DEF TypeOK, Images, HoldsKey, OpenFile
  <2>5. QED
    BY <2>1, <2>2, <2>3, <2>4
<1>7. CASE WriteFile(w)
  <2>1. buf[w] \in Files
    <3>1. buf[w] = [salt |-> state.salt, key |-> masterKey, data |-> state.data]
          /\ state \in VaultStates /\ masterKey \in Salts
      BY <1>7 DEF WriteFile, Images, HoldsKey, HoldsState, MutexDiscipline, TypeOK
    <3>2. QED
      BY <3>1 DEF VaultStates, Files
  <2>2. TypeOK'
    BY <1>7, <2>1 DEF TypeOK, WriteFile, Release, Done
  <2>3. MutexDiscipline'
    BY <1>7 DEF TypeOK, MutexDiscipline, HoldsState, HoldsKey, WriteFile, Release
  <2>4. CallsWellFormed'
    BY <1>7 DEF TypeOK, CallsWellFormed, WriteFile
  <2>5. Images'
    BY <1>7, <2>1 DEF TypeOK, Images, HoldsKey, WriteFile
  <2>6. QED
    BY <2>2, <2>3, <2>4, <2>5
<1>8. CASE LoadRead(w)
  <2>1. Readable => disk \in Files
    BY DEF TypeOK, Readable
  <2>2. TypeOK'
    <3>1. pc' \in [Workers -> Steps \cup Done \cup {"idle"}]
      BY <1>8 DEF TypeOK, LoadRead, Goto, Steps, Done
    <3>2. buf \in [Workers -> Files \cup {Absent}] /\ (buf' = buf \/ (disk \in Files /\ buf' = [buf EXCEPT ![w] = disk]))
      BY <1>8, <2>1 DEF TypeOK, LoadRead
    <3>3. buf' \in [Workers -> Files \cup {Absent}]
      BY <3>2
    <3>4. QED
      BY <1>8, <3>1, <3>3 DEF TypeOK, LoadRead
  <2>3. MutexDiscipline'
    BY <1>8 DEF TypeOK, MutexDiscipline, HoldsState, HoldsKey, LoadRead
  <2>4. CallsWellFormed'
    BY <1>8 DEF TypeOK, CallsWellFormed, LoadRead
  <2>5. Images'
    BY <1>8, <2>1 DEF TypeOK, Images, HoldsKey, LoadRead
  <2>6. QED
    BY <2>2, <2>3, <2>4, <2>5
<1>9. CASE LoadState(w)
  <2>1. [salt |-> buf[w].salt, data |-> buf[w].data] \in VaultStates
    BY <1>9 DEF LoadState, Images, Files, VaultStates
  <2>2. stateLock = Free /\ keyLock = Free
    BY <1>9 DEF LoadState, MutexDiscipline, HoldsState, HoldsKey, TypeOK
  <2>8. lost' \subseteq ConnIds
    BY <1>9, AddedType DEF LoadState, Overtaken, TypeOK
  <2>3. TypeOK'
    BY <1>9, <2>1, <2>8 DEF TypeOK, LoadState, Steps
  <2>4. MutexDiscipline'
    BY <1>9, <2>1 DEF TypeOK, MutexDiscipline, HoldsState, HoldsKey, LoadState
  <2>5. CallsWellFormed'
    BY <1>9 DEF TypeOK, CallsWellFormed, LoadState
  <2>6. Images'
    BY <1>9, <2>2 DEF TypeOK, MutexDiscipline, Images, HoldsKey, LoadState
  <2>7. QED
    BY <2>3, <2>4, <2>5, <2>6
<1>10. CASE LoadKey(w)
  <2>1. buf[w].key \in Salts
    BY <1>10 DEF LoadKey, Images, Files
  <2>7. met' \subseteq {"rivals", "late", "crossed"}
    BY <1>10 DEF LoadKey, MeetsLock, TypeOK
  <2>2. TypeOK'
    BY <1>10, <2>1, <2>7 DEF TypeOK, LoadKey, Done
  <2>3. MutexDiscipline'
    BY <1>10, <2>1 DEF TypeOK, MutexDiscipline, HoldsState, HoldsKey, LoadKey
  <2>4. CallsWellFormed'
    BY <1>10 DEF TypeOK, CallsWellFormed, LoadKey
  <2>5. Images'
    BY <1>10 DEF TypeOK, MutexDiscipline, Images, HoldsKey, LoadKey
  <2>6. QED
    BY <2>2, <2>3, <2>4, <2>5
<1>11. QED
  BY <1>1, <1>2, <1>3, <1>4, <1>5, <1>6, <1>7, <1>8, <1>9, <1>10 DEF WorkerStep

-----------------------------------------------------------------------------
(* The steps of the Dart thread, and a restart. *)
LEMMA DeliverMem ==
  ASSUME MemInv, NEW w \in Workers, Deliver(w)
  PROVE  MemInv'
<1> USE DEF MemInv, Goto, Done
<1>1. NoCall \in Calls /\ NoCall.op # "add_connection"
  BY DEF NoCall, Calls, Opening, Editing
<1>2. acked' \subseteq ConnIds
  BY DEF Deliver, TypeOK, CallsWellFormed
<1>3. screen' \in {"vault", "home"} /\ auto' \in {"none", "pending", "orphan"} /\ mine' \subseteq Workers
  BY DEF Deliver, Replace, TypeOK
<1>4. call' \in [Workers -> Calls] /\ pc' \in [Workers -> Steps \cup Done \cup {"idle"}]
      /\ applied' \in [Workers -> Nat] /\ buf' \in [Workers -> Files \cup {Absent}]
  BY <1>1 DEF Deliver, TypeOK
<1>5. TypeOK'
  BY <1>2, <1>3, <1>4 DEF Deliver, TypeOK
<1>6. MutexDiscipline'
  BY DEF Deliver, TypeOK, MutexDiscipline, HoldsState, HoldsKey
<1>7. CallsWellFormed'
  BY <1>1 DEF Deliver, TypeOK, CallsWellFormed
<1>8. Images'
  BY DEF Deliver, TypeOK, Images, HoldsKey
<1>9. QED
  BY <1>5, <1>6, <1>7, <1>8

LEMMA DartMem ==
  ASSUME MemInv, PressLock \/ LockKey \/ LockState \/ AutoUnlockEnds
  PROVE  MemInv'
<1> USE DEF MemInv
<1>1. TypeOK'
  <2>1. CASE PressLock \/ AutoUnlockEnds
    <3>1. met' \subseteq {"rivals", "late", "crossed"}
      BY <2>1 DEF PressLock, AutoUnlockEnds, TypeOK
    <3>2. calls' \in Nat /\ dart' \in {"ui", "lock_key", "lock_state"} /\ auto' \in {auto, "none"}
      BY <2>1 DEF PressLock, AutoUnlockEnds, TypeOK
    <3>3. UNCHANGED <<vaultVars, workerVars, screen, exists, mine, used, acked, doomed, sealed, lost>>
      BY <2>1 DEF PressLock, AutoUnlockEnds
    <3>4. QED
      BY <3>1, <3>2, <3>3 DEF TypeOK
  <2>2. CASE LockKey
    BY <2>2 DEF LockKey, TypeOK
  <2>3. CASE LockState
    <3>1. exists' \in BOOLEAN /\ sealed' \in BOOLEAN /\ met' \subseteq met \cup {"crossed"}
      BY Zenon, <2>3 DEF LockState
    <3>2. QED
      BY <2>3, <3>1 DEF LockState, Replace, TypeOK
  <2>4. QED
    BY <2>1, <2>2, <2>3
<1>2. MutexDiscipline'
  BY DEF AutoUnlockEnds, PressLock, LockKey, LockState, TypeOK, MutexDiscipline, HoldsState, HoldsKey
<1>3. CallsWellFormed'
  BY DEF AutoUnlockEnds, PressLock, LockKey, LockState, CallsWellFormed
<1>4. Images'
  BY DEF AutoUnlockEnds, PressLock, LockKey, LockState, TypeOK, MutexDiscipline, HoldsState, Images, HoldsKey
<1>5. QED
  BY <1>1, <1>2, <1>3, <1>4

LEMMA RestartMem ==
  ASSUME MemInv, Restart
  PROVE  MemInv'
<1>1. NoCall \in Calls /\ NoCall.op # "add_connection"
  BY DEF NoCall, Calls, Opening, Editing
<1>2. TypeOK'
  <2>1. exists' \in BOOLEAN /\ sealed' \in BOOLEAN
    BY Zenon DEF Restart
  <2>2. call' \in [Workers -> Calls] /\ pc' \in [Workers -> Steps \cup Done \cup {"idle"}]
        /\ applied' \in [Workers -> Nat] /\ buf' \in [Workers -> Files \cup {Absent}]
    BY <1>1 DEF Restart
  <2>3. QED
    BY <2>1, <2>2 DEF Restart, MemInv, TypeOK
<1>3. MutexDiscipline'
  BY DEF Restart, MutexDiscipline, HoldsState, HoldsKey
<1>4. CallsWellFormed'
  BY <1>1 DEF Restart, CallsWellFormed
<1>5. Images'
  BY DEF Restart, Images, HoldsKey
<1>6. QED
  BY <1>2, <1>3, <1>4, <1>5 DEF MemInv

(* MemInv holds throughout: types, the discipline of the two mutexes, and  *)
(* what a worker carries from step to step.                                *)
LEMMA MemInvariant == Spec => []MemInv
<1>1. MemInv /\ [Next]_vars => MemInv'
  <2> SUFFICES ASSUME MemInv, [Next]_vars
               PROVE  MemInv'
    OBVIOUS
  <2>1. CASE Next
    BY <2>1, RequestMem, WorkerMem, DeliverMem, DartMem, RestartMem DEF Next
  <2>2. CASE UNCHANGED vars
    <3>1. TypeOK' /\ CallsWellFormed'
      BY <2>2 DEF vars, MemInv, TypeOK, CallsWellFormed
    <3>2. MutexDiscipline' /\ Images'
      BY <2>2 DEF vars, MemInv, MutexDiscipline, HoldsState, HoldsKey, Images
    <3>3. QED
      BY <3>1, <3>2 DEF MemInv
  <2>3. QED
    BY <2>1, <2>2
<1>2. QED
  BY InitMem, <1>1, PTL DEF Spec

(* Every variable keeps its type. *)
THEOREM TypeCorrect == Spec => []TypeOK
<1>1. MemInv => TypeOK
  BY DEF MemInv
<1>2. QED
  BY MemInvariant, <1>1, PTL

-----------------------------------------------------------------------------
(* Whatever the interleaving, a save puts into the file exactly what the   *)
(* two mutexes hold at the moment of the write: save_to_file keeps both    *)
(* guards until fs::write is over.                                         *)
THEOREM SavesAreSnapshots == Spec => SaveIsSnapshot
<1> DEFINE Snapshot == disk' \notin {disk, Torn} =>
                         /\ state # NoVault
                         /\ disk' = [salt |-> state.salt, key |-> masterKey, data |-> state.data]
<1>1. MemInv /\ [Next]_vars => [Snapshot]_vars
  <2> SUFFICES ASSUME MemInv, [Next]_vars, disk' \notin {disk, Torn}
               PROVE  /\ state # NoVault
                      /\ disk' = [salt |-> state.salt, key |-> masterKey, data |-> state.data]
    OBVIOUS
  <2>1. PICK w \in Workers : WriteFile(w)
    <3>1. ASSUME NEW w \in Workers, Request(w)
          PROVE  UNCHANGED disk
      BY <3>1 DEF Request, CreateVault, UnlockVault, AutoUnlock, AddConnection, UpdateConnection,
                  DeleteConnection, AddFolder, UpdateFolder, DeleteFolder, ImportXml, Edit, Begin
    <3>2. ASSUME NEW w \in Workers, WorkerStep(w)
          PROVE  WriteFile(w)
      BY <3>2 DEF WorkerStep, CreateState, CreateKey, ApplyChange, SaveState, SaveKey, OpenFile,
                  LoadRead, LoadState, LoadKey
    <3>3. ASSUME NEW w \in Workers, Deliver(w)
          PROVE  UNCHANGED disk
      BY <3>3 DEF Deliver
    <3>4. CASE PressLock \/ LockKey \/ LockState \/ AutoUnlockEnds \/ Restart
      BY <3>4 DEF AutoUnlockEnds, PressLock, LockKey, LockState, Restart
    <3>5. CASE UNCHANGED vars
      BY <3>5 DEF vars
    <3>6. QED
      BY <3>1, <3>2, <3>3, <3>4, <3>5 DEF Next
  <2>2. HoldsState(w) /\ HoldsKey(w) /\ disk' = buf[w]
    BY <2>1 DEF WriteFile, HoldsState, HoldsKey
  <2>3. QED
    BY <2>2 DEF MemInv, MutexDiscipline, Images
<1>2. Spec => [][Snapshot]_vars
  BY MemInvariant, <1>1, PTL DEF Spec
<1>3. QED
  BY <1>2 DEF SaveIsSnapshot

-----------------------------------------------------------------------------
(* A call touches neither the vault nor the screen, and its worker waits   *)
(* at the first step of the call.                                          *)
LEMMA RequestFrame ==
  ASSUME MemInv, NEW w \in Workers, Request(w)
  PROVE  /\ UNCHANGED <<vaultVars, buf, screen, exists, dart, acked, lost>>
         /\ dart = "ui" /\ pc[w] = "idle" /\ met \subseteq met' /\ doomed \subseteq doomed'
         /\ \E first \in {"create_state", "load_read", "apply"} : pc' = [pc EXCEPT ![w] = first]
         /\ applied' = [applied EXCEPT ![w] = 0]
         /\ \A v \in Workers \ {w} : call'[v] = call[v]
         /\ mine' = mine \/ mine' = mine \cup {w}
         /\ \/ /\ CreateVault(w) /\ mine' = mine \cup {w} /\ UNCHANGED auto
               /\ Fresh /\ (RivalCreations => "rivals" \in met') /\ call'[w].op = "create_vault"
               /\ pc' = [pc EXCEPT ![w] = "create_state"]
            \/ /\ ~Fresh \/ auto # "none"
               /\ pc'[w] # "create_state"
<1> USE DEF Begin, MemInv, TypeOK, Fresh
<1>1. CASE CreateVault(w)
  BY <1>1 DEF CreateVault
<1>2. CASE UnlockVault(w)
  BY <1>2 DEF UnlockVault
<1>3. CASE AutoUnlock(w)
  BY <1>3 DEF AutoUnlock
<1>4. QED
  <2>1. ASSUME NEW op, NEW changes, NEW fresh, NEW doom, Edit(w, op, changes, fresh, doom)
        PROVE  /\ UNCHANGED <<vaultVars, buf, screen, exists, dart, acked, lost, met>>
               /\ dart = "ui" /\ pc[w] = "idle" /\ pc' = [pc EXCEPT ![w] = "apply"]
               /\ doomed \subseteq doomed' /\ applied' = [applied EXCEPT ![w] = 0]
               /\ \A v \in Workers \ {w} : call'[v] = call[v]
               /\ mine' = mine /\ ~Fresh /\ pc'[w] # "create_state"
    BY <2>1 DEF Edit
  <2>2. CASE AddConnection(w) \/ UpdateConnection(w) \/ DeleteConnection(w)
    BY <2>1, <2>2 DEF AddConnection, UpdateConnection, DeleteConnection
  <2>3. CASE AddFolder(w) \/ UpdateFolder(w) \/ DeleteFolder(w) \/ ImportXml(w)
    BY <2>1, <2>3 DEF AddFolder, UpdateFolder, DeleteFolder, ImportXml
  <2>4. QED
    BY <1>1, <1>2, <1>3, <2>2, <2>3 DEF Request

(* The file, once there, is never removed: FileExists is inductive. *)
LEMMA FileExistsStep ==
  ASSUME MemInv, FileExists, [Next]_vars
  PROVE  FileExists'
<1> USE DEF FileExists, MemInv, TypeOK
<1>1. ASSUME NEW w \in Workers, Request(w)
      PROVE  FileExists'
  BY <1>1, RequestFrame
<1>2. ASSUME NEW w \in Workers, WriteFile(w)
      PROVE  FileExists'
  <2>1. buf[w] # Absent
    BY <1>2 DEF WriteFile, Images, HoldsKey, HoldsState, MutexDiscipline, VaultStates, Files
  <2>2. QED
    BY <1>2, <2>1 DEF WriteFile, Goto
<1>3. ASSUME NEW w \in Workers, WorkerStep(w), ~WriteFile(w)
      PROVE  FileExists'
  BY <1>3 DEF WorkerStep, CreateState, CreateKey, ApplyChange, SaveState, SaveKey, OpenFile,
              LoadRead, LoadState, LoadKey, Goto, Readable
<1>4. ASSUME NEW w \in Workers, Deliver(w)
      PROVE  FileExists'
  BY <1>4 DEF Deliver, Goto, Replace
<1>5. CASE PressLock \/ LockKey \/ LockState \/ AutoUnlockEnds
  BY <1>5 DEF AutoUnlockEnds, PressLock, LockKey, LockState, Replace
<1>6. CASE Restart
  BY <1>6 DEF Restart
<1>7. CASE UNCHANGED vars
  BY <1>7 DEF vars
<1>8. QED
  BY <1>1, <1>2, <1>3, <1>4, <1>5, <1>6, <1>7 DEF Next
(* FirstVault is inductive.                                                *)
LEMMA FirstVaultStep ==
  ASSUME MemInv, FileExists, FirstVault, [Next]_vars
  PROVE  FirstVault'
<1> USE DEF FirstVault, MemInv, TypeOK
<1>1. ASSUME NEW w \in Workers, Request(w)
      PROVE  FirstVault'
  <2>1. CASE CreateVault(w)
    <3>1. UNCHANGED <<vaultVars, buf, screen, exists, dart, auto>> /\ mine' = mine \cup {w}
          /\ call'[w].op = "create_vault" /\ pc' = [pc EXCEPT ![w] = "create_state"] /\ Fresh
          /\ \A v \in Workers \ {w} : call'[v] = call[v]
      BY <2>1 DEF CreateVault, Begin, Fresh
    <3>2. QED
      BY <3>1 DEF Fresh, Readable
  <2>2. CASE ~CreateVault(w)
    <3>1. ~Fresh /\ UNCHANGED <<screen, exists, dart>>
      BY <1>1, <2>2, RequestFrame
    <3>2. QED
      BY <3>1 DEF Fresh
  <2>3. QED
    BY <2>1, <2>2
<1>2. ASSUME NEW w \in Workers, WorkerStep(w)
      PROVE  FirstVault'
  <2>1. UNCHANGED uiVars /\ UNCHANGED call /\ pc[w] # "idle"
        /\ \A v \in Workers \ {w} : pc'[v] = pc[v]
    BY <1>2 DEF WorkerStep, CreateState, CreateKey, ApplyChange, SaveState, SaveKey, OpenFile,
                WriteFile, LoadRead, LoadState, LoadKey, Goto
  <2>2. CASE Fresh
    <3>1. pc[w] \in {"create_state", "create_key", "save_state", "save_key", "open", "write"}
      BY <1>2, <2>2 DEF WorkerStep, CreateState, CreateKey, ApplyChange, SaveState, SaveKey,
              OpenFile, WriteFile, LoadRead, LoadState, LoadKey
    <3>2. pc'[w] \in {"create_key", "save_state", "save_key", "open", "write", "returned", "failed"}
      BY <1>2, <3>1 DEF WorkerStep, CreateState, CreateKey, ApplyChange, SaveState, SaveKey,
              OpenFile, WriteFile, LoadRead, LoadState, LoadKey, Goto
    <3>3. /\ state' # NoVault => state'.data = EmptyData
          /\ Readable' => disk'.data = EmptyData
      <4>1. CASE CreateState(w)
        BY <2>2, <4>1 DEF CreateState, Readable
      <4>2. CASE WriteFile(w)
        <5>1. state # NoVault /\ buf[w].data = state.data
          BY <4>2 DEF WriteFile, Images, HoldsKey, HoldsState, MutexDiscipline
        <5>2. UNCHANGED state /\ disk' \in {disk, buf[w]}
          BY <4>2 DEF WriteFile
        <5>3. QED
          BY <2>2, <5>1, <5>2 DEF Readable
      <4>3. CASE CreateKey(w) \/ SaveState(w) \/ SaveKey(w) \/ OpenFile(w)
        <5>1. UNCHANGED state /\ disk' \in {disk, Torn}
          BY <4>3 DEF CreateKey, SaveState, SaveKey, OpenFile
        <5>2. QED
          BY <2>2, <5>1 DEF Readable
      <4>4. QED
        BY <1>2, <3>1, <4>1, <4>2, <4>3 DEF WorkerStep, ApplyChange, LoadRead, LoadState, LoadKey
    <3>4. QED
      BY <2>1, <2>2, <3>2, <3>3 DEF Fresh
  <2>3. CASE ~Fresh
    BY <2>1, <2>3 DEF Fresh
  <2>4. QED
    BY <2>2, <2>3
<1>3. ASSUME NEW w \in Workers, Deliver(w)
      PROVE  FirstVault'
  <2>1. /\ UNCHANGED <<vaultVars, exists, dart>> /\ dart = "ui"
        /\ pc[w] \in Done /\ pc' = [pc EXCEPT ![w] = "idle"]
        /\ (\A v \in Workers \ {w} : call'[v] = call[v])
        /\ \/ screen' = "home"
           \/ UNCHANGED <<screen, auto>> /\ mine' = mine \ {w}
    BY <1>3 DEF Deliver, Goto, Replace
  <2>2. QED
    BY <2>1 DEF Fresh, Readable
<1>4. CASE PressLock \/ LockKey \/ AutoUnlockEnds
  BY <1>4 DEF AutoUnlockEnds, PressLock, LockKey, Fresh, Readable
<1>5. CASE LockState
  <2>1. ~Fresh' /\ dart' = "ui"
    BY <1>5 DEF LockState, Replace, Fresh, FileExists
  <2>2. QED
    BY <2>1
<1>6. CASE Restart
  <2>1. /\ UNCHANGED disk /\ state' = NoVault /\ dart' = "ui" /\ exists' = (disk # Absent)
        /\ auto' = "none" \/ exists'
        /\ \A v \in Workers : pc'[v] = "idle"
    BY <1>6 DEF Restart
  <2>2. QED
    BY <2>1 DEF Fresh, Readable
<1>7. CASE UNCHANGED vars
  BY <1>7 DEF vars, Fresh, Readable
<1>8. QED
  BY <1>1, <1>2, <1>3, <1>4, <1>5, <1>6, <1>7 DEF Next

(* A creation that begins beside another one is not forgotten.             *)
LEMMA RivalsMet ==
  ASSUME MemInv, [Next]_vars, "rivals" \in met
  PROVE  "rivals" \in met'
<1>1. ASSUME NEW w \in Workers, Request(w) PROVE "rivals" \in met'
  BY <1>1, RequestFrame
<1>2. ASSUME NEW w \in Workers, WorkerStep(w) PROVE "rivals" \in met'
  BY <1>2 DEF WorkerStep, CreateState, CreateKey, ApplyChange, SaveState, SaveKey, OpenFile,
              WriteFile, LoadRead, LoadState, LoadKey, MeetsLock
<1>3. CASE PressLock \/ LockKey \/ LockState \/ AutoUnlockEnds \/ UNCHANGED vars
  BY <1>3 DEF PressLock, LockKey, LockState, AutoUnlockEnds, vars
<1>4. CASE Restart \/ \E w \in Workers : Deliver(w)
  BY <1>4 DEF Restart, Deliver
<1>5. QED
  BY <1>1, <1>2, <1>3, <1>4 DEF Next

(* As long as no two creations overlap, OneCreation is inductive.          *)
LEMMA OneCreationStep ==
  ASSUME MemInv, FileExists, FirstVault, OneCreation, "rivals" \notin met', [Next]_vars
  PROVE  OneCreation'
<1> USE DEF FirstVault, OneCreation, Creating, MemInv, TypeOK
<1>1. ASSUME NEW w \in Workers, Request(w)
      PROVE  OneCreation'
  <2>1. CASE CreateVault(w)
    <3>1. Fresh /\ \A v \in Workers : pc[v] = "idle"
      <4>1. Fresh /\ ~RivalCreations
        BY <2>1 DEF CreateVault, Begin, FirstVault, Fresh
      <4>2. QED
        BY <4>1 DEF RivalCreations
    <3>2. UNCHANGED <<vaultVars, buf, screen, exists, dart, auto>>
          /\ pc' = [pc EXCEPT ![w] = "create_state"]
      BY <2>1 DEF CreateVault, Begin
    <3>3. QED
      BY <3>1, <3>2 DEF Fresh, Readable
  <2>2. CASE ~CreateVault(w)
    <3>1. ~Fresh /\ UNCHANGED <<vaultVars, buf, screen, exists, dart>> /\ pc'[w] # "create_state"
          /\ \A v \in Workers \ {w} : pc'[v] = pc[v]
      BY <1>1, <2>2, RequestFrame
    <3>2. pc'[w] # "create_key"
      BY <1>1, RequestFrame
    <3>3. QED
      BY <3>1, <3>2 DEF Fresh
  <2>3. QED
    BY <2>1, <2>2
<1>2. ASSUME NEW w \in Workers, WorkerStep(w)
      PROVE  OneCreation'
  <2>1. UNCHANGED uiVars /\ UNCHANGED call /\ pc[w] # "idle"
        /\ \A v \in Workers \ {w} : pc'[v] = pc[v] /\ buf'[v] = buf[v]
    BY <1>2 DEF WorkerStep, CreateState, CreateKey, ApplyChange, SaveState, SaveKey, OpenFile,
                WriteFile, LoadRead, LoadState, LoadKey, Goto
  <2>2. CASE Fresh
    <3>1. /\ pc[w] \in {"create_state", "create_key", "save_state", "save_key", "open", "write"}
          /\ \A v \in Workers \ {w} : pc[v] = "idle"
          /\ ~Readable
      BY <1>2, <2>1, <2>2 DEF WorkerStep, CreateState, CreateKey, ApplyChange, SaveState, SaveKey,
              OpenFile, WriteFile, LoadRead, LoadState, LoadKey
    <3>2. /\ pc'[w] \in {"create_key", "save_state", "save_key", "open", "write", "returned", "failed"}
          /\ Readable' => pc'[w] = "returned"
          /\ pc'[w] = "create_key" => state' # NoVault /\ state'.salt = buf'[w].salt
      <4>1. CASE CreateState(w)
        <5>1. PICK s \in Salts :
                 /\ state' = [salt |-> s, data |-> EmptyData]
                 /\ buf' = [buf EXCEPT ![w] = [salt |-> s, key |-> s, data |-> EmptyData]]
          BY <4>1 DEF CreateState
        <5>2. state' \in VaultStates
          BY <5>1, EmptyDataType DEF VaultStates
        <5>3. QED
          BY <3>1, <4>1, <5>1, <5>2 DEF CreateState, Goto, Readable
      <4>2. CASE ~CreateState(w)
        BY <1>2, <3>1, <4>2 DEF WorkerStep, CreateKey, ApplyChange, SaveState, SaveKey,
              OpenFile, WriteFile, LoadRead, LoadState, LoadKey, Goto, Readable
      <4>3. QED
        BY <4>1, <4>2
    <3>3. QED
      BY <2>1, <2>2, <3>1, <3>2, ZenonT(60) DEF Fresh
  <2>3. CASE ~Fresh
    <3>1. \A v \in Workers : pc[v] \notin {"create_state", "create_key"}
      BY <2>3
    <3>2. pc'[w] \notin {"create_state", "create_key"}
      BY <1>2, <3>1 DEF WorkerStep, CreateState, CreateKey, ApplyChange, SaveState, SaveKey,
              OpenFile, WriteFile, LoadRead, LoadState, LoadKey, Goto
    <3>3. QED
      BY <2>1, <2>3, <3>1, <3>2 DEF Fresh
  <2>4. QED
    BY <2>2, <2>3
<1>3. ASSUME NEW w \in Workers, Deliver(w)
      PROVE  OneCreation'
  <2>1. /\ UNCHANGED <<vaultVars, exists, dart>> /\ dart = "ui"
        /\ pc[w] \in Done /\ pc' = [pc EXCEPT ![w] = "idle"]
        /\ (\A v \in Workers \ {w} : call'[v] = call[v] /\ buf'[v] = buf[v])
        /\ \/ screen' = "home"
           \/ /\ UNCHANGED <<screen, auto>> /\ mine' = mine \ {w}
              /\ ~(pc[w] = "returned" /\ w \in mine)
    BY <1>3 DEF Deliver, Goto, Replace
  <2>2. CASE Fresh
    <3>1. /\ \A v \in Workers : pc'[v] = "idle"
          /\ pc[w] # "idle" /\ w \in mine
          /\ Readable => pc[w] = "returned"
      BY <2>1, <2>2 DEF Done
    <3>2. QED
      BY <2>1, <2>2, <3>1 DEF Fresh, Readable
  <2>3. CASE ~Fresh
    BY <2>1, <2>3 DEF Fresh, Done
  <2>4. QED
    BY <2>2, <2>3
<1>4. CASE PressLock \/ LockKey \/ AutoUnlockEnds
  BY <1>4 DEF AutoUnlockEnds, PressLock, LockKey, Fresh, Readable
<1>5. CASE LockState
  <2>1. ~Fresh /\ ~Fresh' /\ UNCHANGED <<pc, buf>> /\ dart' = "ui"
    BY <1>5 DEF LockState, Replace, Fresh, FileExists
  <2>2. QED
    BY <2>1
<1>6. CASE Restart
  BY <1>6 DEF Restart, Fresh, Readable
<1>7. CASE UNCHANGED vars
  BY <1>7 DEF vars, Fresh, Readable
<1>8. QED
  BY <1>1, <1>2, <1>3, <1>4, <1>5, <1>6, <1>7 DEF Next
(* One salt is in play outside a creation, and every file is readable with *)
(* the password it asks for.                                               *)
LEMMA OneSaltStep ==
  ASSUME MemInv, FileExists, FirstVault, Sole, [Next]_vars
  PROVE  OneSalt' /\ DiskDecryptable'
<1> USE DEF Sole, MemInv, TypeOK, Creating
<1> DEFINE Salt(s) == /\ state # NoVault => state.salt = s
                      /\ masterKey # NoKey => masterKey = s
                      /\ \A w \in Workers : pc[w] \in {"load_state", "load_key"} => buf[w].salt = s
                      /\ Readable => disk.salt = s
<1>1. ASSUME NEW w \in Workers, Creating(w)
      PROVE  /\ Fresh /\ ~Readable
             /\ \A v \in Workers \ {w} : pc[v] = "idle"
  BY <1>1 DEF FirstVault, OneCreation
<1>2. ASSUME \A w \in Workers : ~Creating(w)
      PROVE  \E s \in Salts \cup {NoKey} : Salt(s)
  BY <1>2 DEF OneSalt
<1>3. ASSUME NEW s \in Salts \cup {NoKey}, Salt(s)'
      PROVE  OneSalt'
  BY <1>3 DEF OneSalt
<1> HIDE DEF Salt
<1>4. ASSUME NEW w \in Workers, Request(w)
      PROVE  OneSalt' /\ DiskDecryptable'
  <2>1. UNCHANGED <<vaultVars, buf>> /\ (\A v \in Workers \ {w} : pc'[v] = pc[v])
        /\ pc'[w] \in {"create_state", "load_read", "apply"} /\ pc[w] = "idle"
    BY <1>4, RequestFrame
  <2>2. DiskDecryptable'
    BY <2>1 DEF DiskDecryptable, Readable
  <2>3. CASE \A v \in Workers : ~Creating(v)
    <3>1. PICK s \in Salts \cup {NoKey} : Salt(s)
      BY <1>2, <2>3
    <3>2. Salt(s)'
      BY <2>1, <3>1 DEF Salt, Readable
    <3>3. QED
      BY <1>3, <2>2, <3>2
  <2>4. CASE \E v \in Workers : Creating(v)
    <3>1. \E v \in Workers : Creating(v)'
      BY <2>1, <2>4
    <3>2. QED
      BY <2>2, <3>1 DEF OneSalt
  <2>5. QED
    BY <2>3, <2>4
<1>5. ASSUME NEW w \in Workers, CreateState(w)
      PROVE  OneSalt' /\ DiskDecryptable'
  <2>1. Creating(w)' /\ UNCHANGED disk
    BY <1>5 DEF CreateState, Goto
  <2>2. QED
    BY <2>1 DEF OneSalt, DiskDecryptable, Readable
<1>6. ASSUME NEW w \in Workers, CreateKey(w)
      PROVE  OneSalt' /\ DiskDecryptable'
  <2>1. Creating(w)
    BY <1>6 DEF CreateKey
  <2>2. state # NoVault /\ state.salt = buf[w].salt /\ buf[w] \in Files /\ buf[w].key = buf[w].salt
    BY <1>6 DEF CreateKey, OneCreation, Images
  <2>3. UNCHANGED <<state, disk, buf>> /\ masterKey' = buf[w].key
        /\ \A v \in Workers : pc'[v] \notin {"load_state", "load_key"}
    BY <1>1, <1>6, <2>1 DEF CreateKey, Goto
  <2>4. Salt(buf[w].salt)'
    BY <1>1, <2>1, <2>2, <2>3 DEF Salt, Readable
  <2>5. buf[w].salt' \in Salts
    BY <2>2, <2>3 DEF Files
  <2>6. OneSalt'
    BY <2>2, <2>3, <2>4, <2>5 DEF OneSalt, Salt
  <2>7. QED
    BY <2>3, <2>6 DEF DiskDecryptable, Readable
<1>7. ASSUME NEW w \in Workers, WorkerStep(w), ~CreateState(w), ~CreateKey(w)
      PROVE  OneSalt' /\ DiskDecryptable'
  <2>1. \A v \in Workers : ~Creating(v)
    <3>1. pc[w] # "idle" /\ ~Creating(w)
      BY <1>7 DEF WorkerStep, CreateState, CreateKey, ApplyChange, SaveState, SaveKey, OpenFile,
                  WriteFile, LoadRead, LoadState, LoadKey
    <3>2. QED
      BY <1>1, <3>1
  <2>2. PICK s \in Salts \cup {NoKey} : Salt(s)
    BY <1>2, <2>1
  <2>3. CASE ApplyChange(w)
    <3>1. UNCHANGED <<masterKey, disk, buf>> /\ (state # NoVault => state \in VaultStates)
      BY <2>3 DEF ApplyChange
    <3>2. state' # NoVault => state # NoVault /\ state'.salt = state.salt
      BY <2>3, <3>1 DEF ApplyChange, VaultStates
    <3>3. \A v \in Workers : pc'[v] \in {"load_state", "load_key"} => pc'[v] = pc[v]
      BY <2>3 DEF ApplyChange, Goto
    <3>4. Salt(s)' /\ DiskDecryptable'
      BY <2>2, <3>1, <3>2, <3>3 DEF Salt, Readable, DiskDecryptable
    <3>5. QED
      BY <1>3, <3>4
  <2>4. CASE WriteFile(w)
    <3>1. buf[w] = [salt |-> state.salt, key |-> masterKey, data |-> state.data]
          /\ state # NoVault /\ masterKey # NoKey
      BY <2>4 DEF WriteFile, Images, HoldsKey, HoldsState, MutexDiscipline
    <3>2. state.salt = s /\ masterKey = s
      BY <2>2, <3>1 DEF Salt
    <3>3. UNCHANGED <<state, masterKey, buf>> /\ disk' \in {disk, buf[w]}
          /\ \A v \in Workers : pc'[v] \in {"load_state", "load_key"} => pc'[v] = pc[v]
      BY <2>4 DEF WriteFile, Goto
    <3>4. Salt(s)' /\ DiskDecryptable'
      BY <2>2, <3>1, <3>2, <3>3 DEF Salt, Readable, DiskDecryptable
    <3>5. QED
      BY <1>3, <3>4
  <2>5. CASE LoadRead(w)
    <3>1. UNCHANGED <<state, masterKey, disk>>
          /\ (\A v \in Workers \ {w} : pc'[v] = pc[v] /\ buf'[v] = buf[v])
          /\ (pc'[w] = "failed" \/ (Readable /\ buf'[w] = disk))
      BY <1>1, <2>5 DEF LoadRead, Goto, vaultVars, TypeOK
    <3>2. Salt(s)' /\ DiskDecryptable'
      BY <2>2, <3>1 DEF Salt, Readable, DiskDecryptable
    <3>3. QED
      BY <1>3, <3>2
  <2>6. CASE LoadState(w) \/ LoadKey(w)
    <3>1. buf[w].salt = s /\ buf[w].key = s
      BY <2>2, <2>6 DEF Salt, Images, LoadState, LoadKey
    <3>2. UNCHANGED <<disk, buf>>
          /\ (\A v \in Workers : pc'[v] \in {"load_state", "load_key"} =>
                  pc[v] \in {"load_state", "load_key"})
          /\ \/ UNCHANGED masterKey /\ state' = [salt |-> buf[w].salt, data |-> buf[w].data]
             \/ UNCHANGED state /\ masterKey' = buf[w].key
      BY <2>6 DEF LoadState, LoadKey, Goto
    <3>3. Salt(s)' /\ DiskDecryptable'
      BY <2>2, <3>1, <3>2 DEF Salt, Readable, DiskDecryptable
    <3>4. QED
      BY <1>3, <3>3
  <2>7. CASE SaveState(w) \/ SaveKey(w) \/ OpenFile(w)
    <3>1. UNCHANGED <<state, masterKey>> /\ disk' \in {disk, Torn}
          /\ \A v \in Workers : pc'[v] \in {"load_state", "load_key"} =>
                 pc'[v] = pc[v] /\ buf'[v] = buf[v]
      BY <2>7 DEF SaveState, SaveKey, OpenFile, Goto
    <3>2. Salt(s)' /\ DiskDecryptable'
      BY <2>2, <3>1 DEF Salt, Readable, DiskDecryptable
    <3>3. QED
      BY <1>3, <3>2
  <2>8. QED
    BY <1>7, <2>3, <2>4, <2>5, <2>6, <2>7 DEF WorkerStep
<1>8. CASE Restart \/ (\E w \in Workers : Deliver(w)) \/ AutoUnlockEnds \/ PressLock \/ LockKey \/ LockState
                   \/ UNCHANGED vars
  <2>1. UNCHANGED disk
        /\ (UNCHANGED state \/ state' = NoVault) /\ (UNCHANGED masterKey \/ masterKey' = NoKey)
        /\ \A v \in Workers :
              pc'[v] \in {"load_state", "load_key", "create_state", "create_key"} =>
                  pc'[v] = pc[v] /\ buf'[v] = buf[v]
    BY <1>8 DEF AutoUnlockEnds, Restart, Deliver, Done, PressLock, LockKey, LockState, Goto, vars
  <2>2. DiskDecryptable'
    BY <2>1 DEF DiskDecryptable, Readable
  <2>3. CASE \A w \in Workers : ~Creating(w)
    <3>1. PICK s \in Salts \cup {NoKey} : Salt(s)
      BY <1>2, <2>3
    <3>2. Salt(s)'
      BY <2>1, <3>1 DEF Salt, Readable
    <3>3. QED
      BY <1>3, <2>2, <3>2
  <2>4. ASSUME NEW w \in Workers, Creating(w)
        PROVE  OneSalt'
    <3>1. CASE Restart
      <4>1. Salt(NoKey)'
        BY <1>1, <2>1, <2>4, <3>1 DEF Restart, Salt, Readable
      <4>2. QED
        BY <4>1 DEF OneSalt, Salt
    <3>2. CASE ~Restart
      <4>1. pc'[w] = pc[w]
        BY <1>1, <1>8, <2>4, <3>2 DEF AutoUnlockEnds, Deliver, Done, PressLock, LockKey, LockState, Goto, vars
      <4>2. QED
        BY <2>4, <4>1 DEF OneSalt
    <3>3. QED
      BY <3>1, <3>2
  <2>5. QED
    BY <2>2, <2>3, <2>4
<1>9. QED
  BY <1>4, <1>5, <1>6, <1>7, <1>8 DEF Next, WorkerStep

(* IInv holds throughout. *)
LEMMA IInvInvariant == Spec => []IInv
<1>1. Init => IInv
  <2>1. Init => FileExists /\ FirstVault
    BY DEF Init, FileExists, FirstVault, Fresh, Readable
  <2>2. Init => Sole
    BY DEF Init, Sole, OneCreation, Creating, Fresh, OneSalt, DiskDecryptable, Readable
  <2>3. QED
    BY <2>1, <2>2, InitMem DEF IInv
<1>2. MemInv' /\ IInv /\ [Next]_vars => IInv'
  <2> SUFFICES ASSUME MemInv', IInv, [Next]_vars PROVE IInv'
    OBVIOUS
  <2>1. FileExists' /\ FirstVault'
    BY FileExistsStep, FirstVaultStep DEF IInv
  <2>2. ASSUME "rivals" \notin met' PROVE Sole'
    <3>1. "rivals" \notin met
      BY <2>2, RivalsMet DEF IInv
    <3>2. Sole
      BY <3>1 DEF IInv
    <3>3. OneCreation'
      BY <2>2, <3>2, OneCreationStep DEF IInv, Sole
    <3>4. OneSalt' /\ DiskDecryptable'
      BY <3>2, OneSaltStep DEF IInv
    <3>5. QED
      BY <3>3, <3>4 DEF Sole
  <2>3. QED
    BY <2>1, <2>2 DEF IInv
<1>3. QED
  BY MemInvariant, <1>1, <1>2, PTL DEF Spec

(* A vault file is never written under a key that its own salt and hash do *)
(* not lead to, whatever submissions, saves, loads and locks overlap, fail *)
(* or are cut short: the file of a user who knows the password can always  *)
(* be opened, unless a creation ran beside another one.                    *)
THEOREM FilesDecryptable == Spec => []FileOpens
<1>1. IInv => FileOpens
  BY DEF IInv, Sole, FileOpens
<1>2. QED
  BY IInvInvariant, <1>1, PTL

-----------------------------------------------------------------------------
(* LOCK.  What Lock and the screens promise, whatever submissions, edits,  *)
(* saves, auto-unlocks and locks overlap.  Lock is pressed on HomeScreen,  *)
(* whose calls are edits; a call of a VaultScreen, while it is mounted,    *)
(* finds what it has put into memory still there.                          *)
Saving(w) == pc[w] \in {"save_state", "save_key", "open", "write"}

Mounted ==
    /\ screen = "home" => mine = {}
    /\ dart # "ui" => screen = "home"
    /\ auto = "pending" => screen = "vault"
    /\ sealed => screen = "vault" /\ mine = {}
    /\ \A w \in mine :
        /\ pc[w] \notin {"idle", "apply"}
        /\ pc[w] \in {"create_key", "load_key"} => state # NoVault
        /\ Saving(w) \/ pc[w] = "returned" => state # NoVault /\ masterKey # NoKey

(* The key comes after the contents and goes before them, unless an        *)
(* opening crosses a lock.                                                 *)
KeyLast ==
    "crossed" \notin met =>
        /\ masterKey # NoKey => state # NoVault /\ dart # "lock_state"
        /\ \A w \in Workers : pc[w] \in {"create_key", "load_key"} => state # NoVault

(* A lock that was not too late leaves nobody who would open the vault.    *)
NoOpening == auto # "orphan" /\ \A w \in Workers : pc[w] \notin OpeningSteps
Locking ==
    "late" \notin met =>
        /\ dart # "ui" => NoOpening /\ auto = "none"
        /\ dart = "lock_state" => masterKey = NoKey
        /\ sealed => NoOpening /\ state = NoVault /\ masterKey = NoKey

LockInv == Mounted /\ KeyLast /\ Locking

-----------------------------------------------------------------------------
(* A call is a submission or the auto-unlock of the screen shown, an edit  *)
(* from HomeScreen, or the auto-unlock of a screen that was replaced.      *)
LEMMA RequestKinds ==
  ASSUME MemInv, Mounted, NEW w \in Workers, Request(w)
  PROVE  /\ UNCHANGED <<vaultVars, screen, dart>> /\ dart = "ui" /\ pc[w] = "idle" /\ auto' \in {auto, "none"}
         /\ \A v \in Workers \ {w} : pc'[v] = pc[v]
         /\ met \subseteq met' /\ met' \subseteq met \cup {"rivals"}
         /\ \/ screen = "vault" /\ mine' = mine \cup {w} /\ sealed' = FALSE
               /\ pc'[w] \in {"create_state", "load_read"}
            \/ screen = "home" /\ UNCHANGED <<mine, sealed>> /\ pc'[w] = "apply"
            \/ auto = "orphan" /\ UNCHANGED <<mine, sealed>> /\ pc'[w] = "load_read"
<1> USE DEF MemInv, TypeOK
<1>1. CASE CreateVault(w)
  BY <1>1 DEF CreateVault, Begin
<1>2. CASE UnlockVault(w)
  BY <1>2 DEF UnlockVault, Begin
<1>3. CASE AutoUnlock(w)
  BY <1>3 DEF AutoUnlock, Begin, Mounted
<1>4. CASE Edits(w)
  <2>1. PICK op \in Editing, changes \in Seq(Changes), fresh \in SUBSET (ConnIds \cup FolderIds),
             doom \in SUBSET ConnIds : Edit(w, op, changes, fresh, doom)
    BY <1>4 DEF Edits
  <2>2. QED
    BY <2>1 DEF Edit, Begin
<1>5. QED
  BY <1>1, <1>2, <1>3, <1>4, RequestCases

(* A step of a worker touches neither the screens nor the other workers.   *)
LEMMA WorkerFrame ==
  ASSUME MemInv, NEW w \in Workers, WorkerStep(w)
  PROVE  /\ UNCHANGED <<screen, exists, auto, mine, dart, sealed, call, acked, doomed>>
         /\ pc[w] # "idle" /\ pc'[w] # "idle" /\ met \subseteq met'
         /\ \A v \in Workers \ {w} : pc'[v] = pc[v]
         /\ pc' = [pc EXCEPT ![w] = pc'[w]]
         /\ pc'[w] = "apply" => pc[w] = "apply"
         /\ pc'[w] \in OpeningSteps => pc[w] \in OpeningSteps
         /\ pc'[w] \notin {"create_state", "load_read"}
BY DEF WorkerStep, CreateState, CreateKey, ApplyChange, SaveState, SaveKey, OpenFile, WriteFile,
       LoadRead, LoadState, LoadKey, Goto, MemInv, TypeOK, OpeningSteps, MeetsLock

(* A change is made to a vault and leaves one.                             *)
LEMMA ChangeKeepsVault ==
  ASSUME MemInv, NEW w \in Workers, ApplyChange(w)
  PROVE  state' = NoVault <=> state = NoVault
<1> DEFINE ch == call[w].changes[applied[w] + 1]
<1>1. CASE state = NoVault
  BY <1>1 DEF ApplyChange
<1>2. CASE state # NoVault
  <2>1. ch \in Changes
    <3>1. /\ pc[w] = "apply" /\ call[w].changes \in Seq(Changes)
          /\ applied[w] \in Nat /\ applied[w] < Len(call[w].changes)
      BY DEF ApplyChange, MemInv, TypeOK, Calls, CallsWellFormed
    <3>2. QED
      BY <3>1
  <2>2. state \in VaultStates /\ state.data \in VaultDatas
    BY <1>2 DEF MemInv, TypeOK, VaultStates
  <2>3. Apply(state.data, ch) \in VaultDatas
    BY <2>1, <2>2, ApplyType
  <2>4. [state EXCEPT !.data = Apply(@, ch)] \in VaultStates
    BY <2>2, <2>3 DEF VaultStates
  <2>5. state' = state \/ state' = [state EXCEPT !.data = Apply(@, ch)]
    BY DEF ApplyChange
  <2>6. QED
    BY <1>2, <2>4, <2>5
<1>3. QED
  BY <1>1, <1>2

-----------------------------------------------------------------------------
(* What a step of a worker does to the contents and the key: an opening    *)
(* sets one after the other, nothing else sets or clears either.           *)
LEMMA WorkerSets ==
  ASSUME MemInv, NEW w \in Workers, WorkerStep(w)
  PROVE  \/ /\ pc[w] \in {"create_state", "load_state"} /\ pc'[w] \in {"create_key", "load_key"}
            /\ state' # NoVault /\ UNCHANGED <<masterKey, met>>
         \/ /\ pc[w] \in {"create_key", "load_key"} /\ pc'[w] \in {"save_state", "returned"}
            /\ UNCHANGED state /\ masterKey' # NoKey
            /\ dart = "lock_state" => "crossed" \in met'
         \/ /\ pc[w] = "apply" /\ pc'[w] \in {"apply", "save_state", "failed"}
            /\ UNCHANGED <<masterKey, met>> /\ (state' = NoVault <=> state = NoVault)
         \/ /\ pc[w] \in {"save_state", "save_key", "open", "write", "load_read"}
            /\ pc'[w] \in {"save_key", "open", "write", "returned", "load_state", "failed"}
            /\ pc'[w] = "load_state" => pc[w] = "load_read"
            /\ pc'[w] # "failed" => (pc[w] = "load_read" <=> pc'[w] = "load_state")
            /\ UNCHANGED <<state, masterKey, met>>
<1> USE DEF MemInv, TypeOK
<1>1. CASE CreateState(w)
  BY <1>1, EmptyDataType DEF CreateState, Goto, VaultStates
<1>2. CASE LoadState(w)
  BY <1>2 DEF LoadState, Goto, Images, Files, VaultStates
<1>3. CASE CreateKey(w) \/ LoadKey(w)
  BY <1>3 DEF CreateKey, LoadKey, Goto, Images, Files, MeetsLock, Crossing
<1>4. CASE ApplyChange(w)
  <2>1. state' = NoVault <=> state = NoVault
    BY <1>4, ChangeKeepsVault
  <2>2. QED
    BY <1>4, <2>1 DEF ApplyChange, Goto
<1>5. CASE SaveState(w) \/ SaveKey(w)
  BY <1>5 DEF SaveState, SaveKey, Goto
<1>6. CASE OpenFile(w) \/ WriteFile(w) \/ LoadRead(w)
  BY <1>6 DEF OpenFile, WriteFile, LoadRead, Goto
<1>7. QED
  BY <1>1, <1>2, <1>3, <1>4, <1>5, <1>6 DEF WorkerStep

-----------------------------------------------------------------------------
(* Mounted is inductive. *)
LEMMA MountedStep ==
  ASSUME MemInv, FileExists, Mounted, [Next]_vars
  PROVE  Mounted'
<1> USE DEF Mounted, MemInv, TypeOK, Saving
<1>1. ASSUME NEW w \in Workers, Request(w)
      PROVE  Mounted'
  <2>1. /\ UNCHANGED <<state, masterKey, screen, dart>> /\ dart = "ui" /\ pc[w] = "idle"
        /\ auto' \in {auto, "none"} /\ \A v \in Workers \ {w} : pc'[v] = pc[v]
    BY <1>1, RequestKinds
  <2>2. CASE /\ screen = "vault" /\ mine' = mine \cup {w} /\ sealed' = FALSE
             /\ pc'[w] \in {"create_state", "load_read"}
    BY <2>1, <2>2
  <2>3. CASE UNCHANGED <<mine, sealed>> /\ pc'[w] \in {"apply", "load_read"}
    <3>1. w \notin mine
      BY <2>1
    <3>2. QED
      BY <2>1, <2>3, <3>1
  <2>4. QED
    BY <1>1, <2>2, <2>3, RequestKinds
<1>2. ASSUME NEW w \in Workers, WorkerStep(w)
      PROVE  Mounted'
  <2>1. /\ UNCHANGED <<screen, auto, mine, dart, sealed>> /\ pc'[w] # "idle"
        /\ \A v \in Workers \ {w} : pc'[v] = pc[v]
        /\ pc'[w] = "apply" => pc[w] = "apply"
    BY <1>2, WorkerFrame
  <2>2. ASSUME NEW v \in mine
        PROVE  /\ pc'[v] \notin {"idle", "apply"}
               /\ pc'[v] \in {"create_key", "load_key"} => state' # NoVault
               /\ Saving(v)' \/ pc'[v] = "returned" => state' # NoVault /\ masterKey' # NoKey
    BY <1>2, <2>1, <2>2, WorkerSets
  <2>3. QED
    BY <2>1, <2>2
<1>3. ASSUME NEW w \in Workers, Deliver(w)
      PROVE  Mounted'
  <2>1. /\ pc' = [pc EXCEPT ![w] = "idle"] /\ UNCHANGED <<state, masterKey, dart, sealed>>
        /\ dart = "ui" /\ pc[w] \in Done
        /\ \/ screen' = "home" /\ mine' = {} /\ w \in mine /\ auto' # "pending"
           \/ UNCHANGED <<screen, auto>> /\ mine' = mine \ {w}
    BY <1>3 DEF Deliver, Goto, Replace
  <2>2. QED
    BY <2>1
<1>4. CASE PressLock \/ AutoUnlockEnds
  BY <1>4 DEF PressLock, AutoUnlockEnds
<1>5. CASE LockKey
  <2>1. screen = "home" /\ mine = {}
    BY <1>5 DEF LockKey
  <2>2. QED
    BY <1>5, <2>1 DEF LockKey
<1>6. CASE LockState
  BY <1>6 DEF LockState, Replace
<1>7. CASE Restart
  BY <1>7 DEF Restart
<1>8. CASE UNCHANGED vars
  BY <1>8 DEF vars
<1>9. QED
  BY <1>1, <1>2, <1>3, <1>4, <1>5, <1>6, <1>7, <1>8 DEF Next

(* KeyLast is inductive beside it. *)
LEMMA KeyLastStep ==
  ASSUME MemInv, Mounted, KeyLast, [Next]_vars
  PROVE  KeyLast'
<1> USE DEF KeyLast, MemInv, TypeOK
<1>1. ASSUME NEW w \in Workers, Request(w)
      PROVE  KeyLast'
  BY <1>1, RequestKinds
<1>2. ASSUME NEW w \in Workers, WorkerStep(w)
      PROVE  KeyLast'
  <2>1. UNCHANGED dart /\ met \subseteq met' /\ \A v \in Workers \ {w} : pc'[v] = pc[v]
    BY <1>2, WorkerFrame
  <2>2. QED
    BY <1>2, <2>1, WorkerSets
<1>3. CASE PressLock \/ AutoUnlockEnds \/ \E w \in Workers : Deliver(w)
  <2>1. /\ UNCHANGED <<state, masterKey>> /\ dart' # "lock_state"
        /\ "crossed" \in met => "crossed" \in met'
        /\ \A v \in Workers : pc'[v] \in {pc[v], "idle"}
    BY <1>3 DEF PressLock, AutoUnlockEnds, Deliver, Goto, Mounted
  <2>2. QED
    BY <2>1
<1>4. CASE LockKey
  BY <1>4 DEF LockKey
<1>5. CASE LockState
  <2>1. "crossed" \in met => "crossed" \in met'
    BY <1>5 DEF LockState
  <2>2. CASE "crossed" \in met
    BY <2>1, <2>2
  <2>3. CASE "crossed" \notin met
    <3>1. masterKey' = NoKey /\ UNCHANGED pc
      BY <1>5, <2>3 DEF LockState
    <3>2. (\E v \in Workers : pc[v] \in {"create_key", "load_key"}) => "crossed" \in met'
      BY <1>5 DEF LockState
    <3>3. QED
      BY <3>1, <3>2
  <2>4. QED
    BY <2>2, <2>3
<1>6. CASE Restart
  BY <1>6 DEF Restart
<1>7. CASE UNCHANGED vars
  BY <1>7 DEF vars
<1>8. QED
  BY <1>1, <1>2, <1>3, <1>4, <1>5, <1>6, <1>7 DEF Next

(* ... and so is Locking. *)
LEMMA LockingStep ==
  ASSUME MemInv, Mounted, Locking, [Next]_vars
  PROVE  Locking'
<1> USE DEF Locking, NoOpening, MemInv, TypeOK
<1>1. ASSUME NEW w \in Workers, Request(w)
      PROVE  Locking'
  <2>1. CASE "late" \in met
    BY <1>1, <2>1, RequestKinds
  <2>2. CASE "late" \notin met
    BY <1>1, <2>2, RequestKinds DEF OpeningSteps, Mounted
  <2>3. QED
    BY <2>1, <2>2
<1>2. ASSUME NEW w \in Workers, WorkerStep(w)
      PROVE  Locking'
  <2>1. /\ UNCHANGED <<auto, dart, sealed>> /\ met \subseteq met'
        /\ \A v \in Workers \ {w} : pc'[v] = pc[v]
        /\ pc'[w] \in OpeningSteps => pc[w] \in OpeningSteps
    BY <1>2, WorkerFrame
  <2>2. pc[w] \notin OpeningSteps => UNCHANGED masterKey /\ (state = NoVault => state' = NoVault)
    BY <1>2, WorkerSets DEF OpeningSteps
  <2>3. QED
    BY <2>1, <2>2
<1>3. ASSUME NEW w \in Workers, Deliver(w)
      PROVE  Locking'
  <2>1. /\ UNCHANGED <<state, masterKey, dart, sealed, met>> /\ dart = "ui"
        /\ \A v \in Workers : pc'[v] \in {pc[v], "idle"}
        /\ auto' = auto \/ w \in mine
    BY <1>3 DEF Deliver, Goto, Replace
  <2>2. sealed => auto' = auto
    BY <2>1 DEF Mounted
  <2>3. QED
    BY <2>1, <2>2 DEF OpeningSteps
<1>4. CASE PressLock
  <2>1. /\ ~sealed /\ UNCHANGED <<auto, pc, sealed>> /\ dart' = "lock_key"
        /\ LockedLate => "late" \in met'
    BY <1>4 DEF PressLock, Mounted
  <2>2. QED
    BY <2>1 DEF LockedLate
<1>5. CASE AutoUnlockEnds
  BY <1>5 DEF AutoUnlockEnds
<1>6. CASE LockKey
  BY <1>6 DEF LockKey, Mounted
<1>7. CASE LockState
  <2>1. /\ met \subseteq met' /\ UNCHANGED <<pc, masterKey>> /\ state' = NoVault /\ dart' = "ui"
        /\ auto = "none" => auto' = "none"
    BY <1>7 DEF LockState, Replace
  <2>2. dart = "lock_state"
    BY <1>7 DEF LockState
  <2>3. QED
    BY <2>1, <2>2
<1>8. CASE Restart
  <2>1. /\ dart' = "ui" /\ state' = NoVault /\ masterKey' = NoKey /\ auto' # "orphan"
        /\ \A v \in Workers : pc'[v] = "idle"
    BY <1>8 DEF Restart
  <2>2. QED
    BY <2>1 DEF OpeningSteps
<1>9. CASE UNCHANGED vars
  BY <1>9 DEF vars
<1>10. QED
  BY <1>1, <1>2, <1>3, <1>4, <1>5, <1>6, <1>7, <1>8, <1>9 DEF Next

(* LockInv holds throughout. *)
LEMMA LockInvariant == Spec => [](IInv /\ LockInv)
<1>1. Init => LockInv
  <2>1. Init => Mounted /\ KeyLast
    BY DEF Init, Mounted, KeyLast
  <2>2. Init => Locking
    BY DEF Init, Locking, NoOpening, OpeningSteps
  <2>3. QED
    BY <2>1, <2>2 DEF LockInv
<1>2. IInv /\ LockInv /\ [Next]_vars => LockInv'
  BY MountedStep, KeyLastStep, LockingStep DEF IInv, LockInv
<1>3. QED
  BY IInvInvariant, <1>1, <1>2, PTL DEF Spec

-----------------------------------------------------------------------------
(* is_unlocked, which looks at the key alone, never says yes of a vault    *)
(* without contents, although load_from_file and lock set both one after   *)
(* the other and may overlap: unless half an opening fell between the      *)
(* halves of a lock, or the lock between the halves of an opening.         *)
THEOREM KeyMeansContents == Spec => []UnlockedIsUsable
<1>1. LockInv => UnlockedIsUsable
  BY DEF LockInv, KeyLast, UnlockedIsUsable
<1>2. QED
  BY LockInvariant, <1>1, PTL

(* After Lock, neither key nor contents come back until somebody submits a *)
(* password, whatever edits, imports and saves were in flight when it was  *)
(* pressed: unless an opening or auto-unlock of a former screen was.       *)
THEOREM LockLasts == Spec => []LockClears
<1>1. LockInv => LockClears
  BY DEF LockInv, Locking, LockClears, LockedStaysLocked
<1>2. QED
  BY LockInvariant, <1>1, PTL

(* The HomeScreen that a creation or an unlock leads to finds the vault    *)
(* unlocked and its file there, whatever runs beside it.                   *)
THEOREM HomeOpensUnlocked == Spec => []HomeFindsVault
<1>1. IInv /\ LockInv => HomeFindsVault
  BY DEF IInv, MemInv, TypeOK, FileExists, LockInv, Mounted, HomeFindsVault
<1>2. QED
  BY LockInvariant, <1>1, PTL

-----------------------------------------------------------------------------
(* STORE.  A connection that was reported saved stays on disk, and the     *)
(* vault is a VaultStore, whatever opens, edits, saves and locks overlap,  *)
(* saves that fail, and processes that die between any two steps.          *)

(* What an edit has in hand is what the screens offer.                     *)
Offers == \A w \in Workers :
    /\ pc[w] = "apply" => \A i \in 1..Len(call[w].changes) :
           /\ call[w].changes[i] \in OfferedEdits
           /\ call[w].changes[i].op = "delete_connection" => call[w].changes[i].conn \in doomed
    /\ call[w].op = "add_connection" =>
           /\ Len(call[w].changes) = 1 /\ call[w].changes[1].op = "add_connection"
           /\ pc[w] \notin OpeningSteps

(* What was added is in memory, and in every readable file if it was, or   *)
(* is about to be, reported saved.                                         *)
Wanted(w) == call[w].changes[1].conn
Holds(d, cs) == \A c \in cs \ (doomed \cup lost) : HasConn(d, c)
Keeping ==
    /\ state # NoVault => Holds(state.data, Added)
    /\ Readable => Holds(disk.data, acked)
    /\ \A w \in Workers : call[w].op = "add_connection" =>
        /\ Saving(w) \/ pc[w] = "returned" => applied[w] = 1
        /\ pc[w] = "returned" /\ Readable => Holds(disk.data, {Wanted(w)})

StoreInv == Offers /\ Keeping

-----------------------------------------------------------------------------
(* A change leaves every connection that it does not delete.               *)
LEMMA ApplyKeeps ==
  ASSUME NEW d \in VaultDatas, NEW ch \in Changes, NEW c \in ConnIds,
         HasConn(d, c), ch.op = "delete_connection" => ch.conn # c
  PROVE  HasConn(Apply(d, ch), c)
<1>1. CASE ch \in [op: {"add_connection", "update_connection"}, conn: ConnIds, rec: ConnRecs]
  BY <1>1 DEF Apply, PutConn, HasConn, VaultDatas
<1>2. CASE ch \in [op: {"delete_connection"}, conn: ConnIds]
  BY <1>2 DEF Apply, RemoveConn, HasConn, VaultDatas
<1>3. CASE ch \in [op: {"add_folder", "update_folder"}, folder: FolderIds, parent: Folders]
  BY <1>3 DEF Apply, PutFolder, HasConn, VaultDatas
<1>4. CASE ch \in [op: {"delete_folder"}, folder: FolderIds]
  <2>1. Apply(d, ch) = RemoveFolder(d, ch.folder) /\ ch.folder \in FolderIds
    BY <1>4 DEF Apply
  <2>2. c \in Conns(RemoveFolder(d, ch.folder))
    BY <2>1, DeleteFolderKeepsConnections DEF Conns
  <2>3. QED
    BY <2>1, <2>2 DEF Conns
<1>5. CASE ch \in [op: {"import_connections"}, batch: Batches]
  <2> DEFINE e == ImportConns(d, ch.batch)
  <2> DEFINE Source == {i \in 1..Len(ch.batch) : ch.batch[i].id = c /\ Kept(d, ch.batch, i)}
  <2>1. Apply(d, ch) = e
    BY <1>5 DEF Apply
  <2>2. e.conns[c] = IF Source = {} THEN d.conns[c] ELSE ch.batch[CHOOSE i \in Source : TRUE].rec
    BY <1>5 DEF ImportConns, VaultDatas
  <2>3. ASSUME Source # {}
        PROVE  ch.batch[CHOOSE i \in Source : TRUE].rec \in ConnRecs
    <3>1. (CHOOSE i \in Source : TRUE) \in 1..Len(ch.batch)
      BY <2>3
    <3> DEFINE Elems == [id: ConnIds, rec: ConnRecs]
    <3>2. ch.batch \in Seq(Elems)
      BY <1>5 DEF Batches
    <3> HIDE DEF Elems
    <3>3. \A i \in 1..Len(ch.batch) : ch.batch[i] \in Elems
      BY <3>2
    <3>4. QED
      BY <3>1, <3>3 DEF Elems
  <2>4. QED
    BY <2>1, <2>2, <2>3 DEF HasConn
<1>6. QED
  BY <1>1, <1>2, <1>3, <1>4, <1>5 DEF Changes

(* An added connection is there afterwards.                                *)
LEMMA AddAdds ==
  ASSUME NEW d \in VaultDatas, NEW ch \in Changes, ch.op = "add_connection"
  PROVE  HasConn(Apply(d, ch), ch.conn)
BY DEF Changes, Apply, PutConn, HasConn, VaultDatas

-----------------------------------------------------------------------------
(* A call is an opening, or an edit that the screens offer.                *)
Issued(w, op, changes) ==
    call'[w] = [op |-> op, changes |-> changes] /\ Offered(op, changes, doomed')

LEMMA RequestOffers ==
  ASSUME MemInv, NEW w \in Workers, Request(w)
  PROVE  \/ call'[w].op \in Opening /\ pc'[w] # "apply"
         \/ pc'[w] = "apply" /\ \E op \in Editing, changes \in Seq(Changes) : Issued(w, op, changes)
<1> USE DEF MemInv, TypeOK
<1>1. CASE CreateVault(w)
  BY <1>1 DEF CreateVault, Begin, Opening
<1>2. CASE UnlockVault(w)
  BY <1>2 DEF UnlockVault, Begin, Opening
<1>3. CASE AutoUnlock(w)
  BY <1>3 DEF AutoUnlock, Begin, Opening
<1>4. CASE Edits(w)
  <2>1. PICK op \in Editing, changes \in Seq(Changes), fresh \in SUBSET (ConnIds \cup FolderIds),
             doom \in SUBSET ConnIds :
          Edit(w, op, changes, fresh, doom) /\ Offered(op, changes, doom)
    BY <1>4 DEF Edits
  <2>2. doomed' = doomed \cup doom /\ call'[w] = [op |-> op, changes |-> changes] /\ pc'[w] = "apply"
    BY <2>1 DEF Edit, Begin
  <2>3. Issued(w, op, changes)
    BY <2>1, <2>2 DEF Issued, Offered
  <2>4. QED
    BY <2>2, <2>3
<1>5. QED
  BY <1>1, <1>2, <1>3, <1>4, RequestCases

(* Offers is inductive: what was called for is settled when it is called.  *)
LEMMA OffersStep ==
  ASSUME MemInv, Offers, [Next]_vars
  PROVE  Offers'
<1> USE DEF MemInv, TypeOK, Offers
<1>1. ASSUME NEW w \in Workers, Request(w)
      PROVE  Offers'
  <2>1. /\ pc[w] = "idle" /\ doomed \subseteq doomed'
        /\ \A v \in Workers \ {w} : pc'[v] = pc[v] /\ call'[v] = call[v]
    <3>1. PICK first \in {"create_state", "load_read", "apply"} : pc' = [pc EXCEPT ![w] = first]
      BY <1>1, RequestFrame
    <3>2. pc[w] = "idle" /\ doomed \subseteq doomed' /\ \A v \in Workers \ {w} : call'[v] = call[v]
      BY <1>1, RequestFrame
    <3>3. QED
      BY <3>1, <3>2
  <2>2. ASSUME NEW v \in Workers \ {w}
        PROVE  /\ pc'[v] = "apply" => \A i \in 1..Len(call'[v].changes) :
                      /\ call'[v].changes[i] \in OfferedEdits
                      /\ call'[v].changes[i].op = "delete_connection" =>
                             call'[v].changes[i].conn \in doomed'
               /\ call'[v].op = "add_connection" =>
                      /\ Len(call'[v].changes) = 1 /\ call'[v].changes[1].op = "add_connection"
                      /\ pc'[v] \notin OpeningSteps
    BY <2>1, <2>2
  <2>3. CASE call'[w].op \in Opening /\ pc'[w] # "apply"
    <3>1. call'[w].op # "add_connection"
      BY <2>3 DEF Opening
    <3>2. QED
      BY <2>2, <2>3, <3>1
  <2>4. CASE pc'[w] = "apply" /\ \E op \in Editing, changes \in Seq(Changes) : Issued(w, op, changes)
    BY <2>2, <2>4 DEF Issued, Offered, OpeningSteps
  <2>5. QED
    BY <1>1, <2>3, <2>4, RequestOffers
<1>2. ASSUME NEW w \in Workers, WorkerStep(w)
      PROVE  Offers'
  BY <1>2, WorkerFrame
<1>3. ASSUME NEW w \in Workers, Deliver(w)
      PROVE  Offers'
  <2>1. /\ pc' = [pc EXCEPT ![w] = "idle"] /\ call' = [call EXCEPT ![w] = NoCall]
        /\ UNCHANGED doomed
    BY <1>3 DEF Deliver, Goto
  <2>2. QED
    BY <2>1 DEF NoCall, OpeningSteps
<1>4. CASE PressLock \/ LockKey \/ LockState \/ AutoUnlockEnds
  BY <1>4 DEF PressLock, LockKey, LockState, AutoUnlockEnds
<1>5. CASE Restart
  BY <1>5 DEF Restart, NoCall
<1>6. CASE UNCHANGED vars
  BY <1>6 DEF vars
<1>7. QED
  BY <1>1, <1>2, <1>3, <1>4, <1>5, <1>6 DEF Next

-----------------------------------------------------------------------------
(* What an edit under way changes next.                                    *)
NextChange(w) == call[w].changes[applied[w] + 1]

LEMMA EditMakes ==
  ASSUME MemInv, Offers, NEW w \in Workers, ApplyChange(w)
  PROVE  /\ NextChange(w) \in Changes /\ NextChange(w) \in OfferedEdits
         /\ NextChange(w).op = "delete_connection" => NextChange(w).conn \in doomed
         /\ call[w].op = "add_connection" =>
                NextChange(w) = call[w].changes[1] /\ NextChange(w).op = "add_connection"
         /\ \/ UNCHANGED state /\ pc' = [pc EXCEPT ![w] = "failed"]
            \/ /\ state # NoVault /\ Applicable(state.data, NextChange(w))
               /\ state' # NoVault /\ state'.data = Apply(state.data, NextChange(w))
               /\ pc' = [pc EXCEPT ![w] = "save_state"] \/ pc' = [pc EXCEPT ![w] = "apply"]
<1>1. /\ pc[w] = "apply" /\ call[w].changes \in Seq(Changes)
      /\ applied[w] \in Nat /\ applied[w] < Len(call[w].changes)
  BY DEF ApplyChange, MemInv, TypeOK, Calls, CallsWellFormed
<1>2. NextChange(w) \in Changes /\ applied[w] + 1 \in 1..Len(call[w].changes)
  BY <1>1 DEF NextChange
<1>3. /\ NextChange(w) \in OfferedEdits
      /\ NextChange(w).op = "delete_connection" => NextChange(w).conn \in doomed
      /\ call[w].op = "add_connection" =>
             NextChange(w) = call[w].changes[1] /\ NextChange(w).op = "add_connection"
  BY <1>1, <1>2 DEF Offers, NextChange
<1>4. CASE state = NoVault \/ ~Applicable(state.data, NextChange(w))
  BY <1>2, <1>3, <1>4 DEF ApplyChange, NextChange, Goto
<1>5. CASE state # NoVault /\ Applicable(state.data, NextChange(w))
  <2>1. state \in VaultStates /\ state.data \in VaultDatas
    BY <1>5 DEF MemInv, TypeOK, VaultStates
  <2>2. Apply(state.data, NextChange(w)) \in VaultDatas
    BY <1>2, <2>1, ApplyType
  <2>3. state' = [state EXCEPT !.data = Apply(@, NextChange(w))]
    BY <1>5 DEF ApplyChange, NextChange
  <2>4. state' # NoVault /\ state'.data = Apply(state.data, NextChange(w))
    BY <2>1, <2>2, <2>3 DEF VaultStates
  <2>5. pc' = [pc EXCEPT ![w] = "save_state"] \/ pc' = [pc EXCEPT ![w] = "apply"]
    BY <1>5 DEF ApplyChange, NextChange, Goto
  <2>6. QED
    BY <1>2, <1>3, <1>5, <2>4, <2>5
<1>6. QED
  BY <1>4, <1>5

(* A change loses none of the connections that are to stay.                *)
LEMMA EditKeeps ==
  ASSUME MemInv, Offers, NEW w \in Workers, ApplyChange(w), state # NoVault,
         NEW c \in ConnIds, c \notin doomed, HasConn(state.data, c)
  PROVE  HasConn(state'.data, c)
<1>1. state.data \in VaultDatas
  BY DEF MemInv, TypeOK, VaultStates
<1>2. CASE UNCHANGED state
  BY <1>2
<1>3. CASE state'.data = Apply(state.data, NextChange(w))
  <2>1. NextChange(w) \in Changes /\ (NextChange(w).op = "delete_connection" => NextChange(w).conn # c)
    BY EditMakes
  <2> HIDE DEF NextChange
  <2>2. QED
    BY <1>1, <1>3, <2>1, ApplyKeeps
<1>4. QED
  BY <1>2, <1>3, EditMakes

(* Where what was added comes from and where it goes: a request, a lock    *)
(* and the answer to a call add nothing to it.                             *)
LEMMA AddedGrows ==
  ASSUME MemInv, Keeping, [Next]_vars
  PROVE  /\ Added' \subseteq Added \/ \E w \in Workers :
                ApplyChange(w) /\ call[w].op = "add_connection" /\ Added' \subseteq Added \cup {Wanted(w)}
         /\ lost \subseteq lost' /\ doomed \subseteq doomed'
<1> USE DEF MemInv, TypeOK, Wanted
<1> DEFINE Of(c, a) == {c[v].changes[1].conn : v \in {u \in Workers : c[u].op = "add_connection" /\ a[u] = 1}}
<1>0. Added = acked \cup Of(call, applied) /\ Added' = acked' \cup Of(call', applied')
  BY DEF Added
<1> HIDE DEF Of
<1>1. ASSUME NEW w \in Workers, Request(w)
      PROVE  Added' \subseteq Added /\ lost \subseteq lost' /\ doomed \subseteq doomed'
  <2>1. /\ UNCHANGED <<acked, lost>> /\ doomed \subseteq doomed'
        /\ applied' = [applied EXCEPT ![w] = 0]
        /\ \A v \in Workers \ {w} : call'[v] = call[v]
    BY <1>1, RequestFrame
  <2>2. Of(call', applied') \subseteq Of(call, applied)
    BY <2>1 DEF Of
  <2>3. QED
    BY <1>0, <2>1, <2>2
<1>2. ASSUME NEW w \in Workers, ApplyChange(w)
      PROVE  /\ UNCHANGED <<lost, doomed>>
             /\ Added' \subseteq Added
                \/ (call[w].op = "add_connection" /\ Added' \subseteq Added \cup {Wanted(w)})
  <2>1. /\ UNCHANGED <<acked, lost, doomed, call>>
        /\ \A v \in Workers \ {w} : applied'[v] = applied[v]
    BY <1>2 DEF ApplyChange
  <2>2. CASE call[w].op = "add_connection"
    <3>1. Of(call', applied') \subseteq Of(call, applied) \cup {Wanted(w)}
      BY <2>1, <2>2 DEF Of
    <3>2. QED
      BY <1>0, <2>1, <2>2, <3>1
  <2>3. CASE call[w].op # "add_connection"
    <3>1. Of(call', applied') \subseteq Of(call, applied)
      BY <2>1, <2>3 DEF Of
    <3>2. QED
      BY <1>0, <2>1, <3>1
  <2>4. QED
    BY <2>2, <2>3
<1>3. ASSUME NEW w \in Workers, WorkerStep(w), ~ApplyChange(w)
      PROVE  Added' \subseteq Added /\ lost \subseteq lost' /\ doomed \subseteq doomed'
  <2>1. UNCHANGED <<acked, call, applied, doomed>> /\ lost \subseteq lost'
    BY <1>3 DEF WorkerStep, CreateState, CreateKey, SaveState, SaveKey, OpenFile, WriteFile,
                LoadRead, LoadState, LoadKey
  <2>2. QED
    BY <1>0, <2>1
<1>4. ASSUME NEW w \in Workers, Deliver(w)
      PROVE  Added' \subseteq Added /\ lost \subseteq lost' /\ doomed \subseteq doomed'
  <2>1. /\ UNCHANGED <<lost, doomed>>
        /\ call' = [call EXCEPT ![w] = NoCall] /\ applied' = [applied EXCEPT ![w] = 0]
        /\ \/ UNCHANGED acked
           \/ /\ pc[w] = "returned" /\ call[w].op = "add_connection"
              /\ acked' = acked \cup {Wanted(w)}
    BY <1>4 DEF Deliver
  <2>2. Of(call', applied') \subseteq Of(call, applied)
    BY <2>1 DEF Of
  <2>3. pc[w] = "returned" /\ call[w].op = "add_connection" => Wanted(w) \in Of(call, applied)
    BY DEF Of, Keeping
  <2>4. QED
    BY <1>0, <2>1, <2>2, <2>3
<1>5. CASE PressLock \/ LockKey \/ LockState \/ AutoUnlockEnds \/ UNCHANGED vars
  <2>1. UNCHANGED <<acked, call, applied, lost, doomed>>
    BY <1>5 DEF PressLock, LockKey, LockState, AutoUnlockEnds, vars
  <2>2. QED
    BY <1>0, <2>1
<1>6. CASE Restart
  <2>1. UNCHANGED <<acked, lost, doomed>> /\ Of(call', applied') = {}
    BY <1>6 DEF Restart, Of
  <2>2. QED
    BY <1>0, <2>1
<1>7. QED
  BY <1>1, <1>2, <1>3, <1>4, <1>5, <1>6 DEF Next

(* Of what is kept nothing more is asked as more is lost or doomed.        *)
LEMMA HoldsLess ==
  ASSUME NEW d, NEW cs, NEW ds, Holds(d, cs), ds \subseteq cs,
         lost \subseteq lost', doomed \subseteq doomed'
  PROVE  \A c \in ds \ (doomed' \cup lost') : HasConn(d, c)
BY DEF Holds

(* Keeping is inductive: no edit, save, lock or restart loses what was     *)
(* added, and what an opening does not bring is counted as lost.           *)
LEMMA KeepingStep ==
  ASSUME MemInv, Offers, Keeping, [Next]_vars
  PROVE  Keeping'
<1> USE DEF MemInv, TypeOK, Saving
<1>0. /\ state # NoVault => Holds(state.data, Added)
      /\ Readable => Holds(disk.data, acked)
      /\ \A w \in Workers : call[w].op = "add_connection" =>
            /\ Saving(w) \/ pc[w] = "returned" => applied[w] = 1
            /\ pc[w] = "returned" /\ Readable => Holds(disk.data, {Wanted(w)})
  BY DEF Keeping
<1>1. lost \subseteq lost' /\ doomed \subseteq doomed'
  BY AddedGrows
<1>2. ASSUME NEW w \in Workers, Request(w)
      PROVE  Keeping'
  <2>1. UNCHANGED <<vaultVars, acked>> /\ pc[w] = "idle" /\ applied' = [applied EXCEPT ![w] = 0]
        /\ \A v \in Workers \ {w} : call'[v] = call[v]
    BY <1>2, RequestFrame
  <2>2. (\A v \in Workers \ {w} : pc'[v] = pc[v]) /\ pc'[w] \in {"create_state", "load_read", "apply"}
    <3>1. PICK first \in {"create_state", "load_read", "apply"} : pc' = [pc EXCEPT ![w] = first]
      BY <1>2, RequestFrame
    <3>2. QED
      BY <3>1
  <2>3. Added' \subseteq Added
    <3>1. ~\E v \in Workers : ApplyChange(v)
      <4>1. calls' = calls + 1
        BY <1>2 DEF Request, CreateVault, UnlockVault, AutoUnlock, AddConnection, UpdateConnection,
                    DeleteConnection, AddFolder, UpdateFolder, DeleteFolder, ImportXml, Edit, Begin
      <4>2. \A v \in Workers : ApplyChange(v) => calls' = calls
        BY DEF ApplyChange
      <4>3. QED
        BY <4>1, <4>2
    <3>2. QED
      BY <3>1, AddedGrows
  <2>4. state' # NoVault => Holds(state.data, Added)'
    BY <1>0, <1>1, <2>1, <2>3, HoldsLess DEF Holds
  <2>5. Readable' => Holds(disk.data, acked)'
    BY <1>0, <1>1, <2>1, HoldsLess DEF Holds, Readable
  <2>6. ASSUME NEW v \in Workers, call'[v].op = "add_connection"
        PROVE  /\ Saving(v)' \/ pc'[v] = "returned" => applied'[v] = 1
               /\ pc'[v] = "returned" /\ Readable' => Holds(disk.data, {Wanted(v)})'
    <3>1. CASE v = w
      BY <2>2, <3>1
    <3>2. CASE v # w
      <4>1. call'[v] = call[v] /\ pc'[v] = pc[v] /\ applied'[v] = applied[v] /\ disk' = disk
        BY <2>1, <2>2, <3>2
      <4>2. QED
        BY <1>0, <1>1, <2>6, <4>1 DEF Holds, Readable, Wanted
    <3>3. QED
      BY <3>1, <3>2
  <2>7. QED
    BY <2>4, <2>5, <2>6 DEF Keeping
<1>3. ASSUME NEW w \in Workers, WorkerStep(w)
      PROVE  Keeping'
  <2>1. UNCHANGED <<call, acked, doomed>> /\ \A v \in Workers \ {w} : pc'[v] = pc[v]
    BY <1>3, WorkerFrame
  <2>2. \A v \in Workers : Wanted(v)' = Wanted(v)
    BY <2>1 DEF Wanted
  <2>3. CASE ApplyChange(w)
    <3>1. UNCHANGED <<disk, lost>> /\ (\A v \in Workers \ {w} : applied'[v] = applied[v])
      BY <2>3 DEF ApplyChange
    <3>2. ASSUME NEW c \in Added \ (doomed \cup lost), state # NoVault
          PROVE  HasConn(state'.data, c)
      BY <1>0, <2>3, <3>2, AddedType, EditKeeps DEF Holds
    <3>3. ASSUME call[w].op = "add_connection", pc'[w] # "failed"
          PROVE  applied'[w] = 1 /\ HasConn(state'.data, Wanted(w))
      <4>1. state # NoVault /\ state'.data = Apply(state.data, NextChange(w))
        BY <2>3, <3>3, EditMakes
      <4>2. NextChange(w) \in Changes /\ NextChange(w).op = "add_connection" /\ NextChange(w).conn = Wanted(w)
        BY <2>3, <3>3, EditMakes DEF Wanted
      <4>3. state.data \in VaultDatas
        BY <4>1 DEF VaultStates
      <4>4. applied[w] = 0 /\ Len(call[w].changes) = 1
        BY <2>3, <3>3 DEF ApplyChange, CallsWellFormed, Offers
      <4>5. applied'[w] = 1
        BY <2>3, <3>3, <4>4 DEF ApplyChange, Goto
      <4> HIDE DEF NextChange, Wanted
      <4>6. QED
        BY <4>1, <4>2, <4>3, <4>5, AddAdds
    <3>4. state' # NoVault => Holds(state.data, Added)'
      <4>1. SUFFICES ASSUME state' # NoVault, NEW c \in Added' \ (doomed \cup lost)
                     PROVE  HasConn(state'.data, c)
        BY <2>1, <3>1 DEF Holds
      <4>2. state # NoVault
        BY <2>3, <4>1, ChangeKeepsVault
      <4>3. CASE c \in Added
        BY <3>2, <4>2, <4>3
      <4>4. CASE c \notin Added
        <5>1. PICK v \in Workers : /\ ApplyChange(v) /\ call[v].op = "add_connection"
                                  /\ Added' \subseteq Added \cup {Wanted(v)}
          BY <4>4, AddedGrows
        <5>2. CASE v = w
          <6>1. pc'[w] # "failed"
            <7>1. pc'[w] = "failed" => UNCHANGED <<acked, call, applied>>
              BY <2>1, <2>3 DEF ApplyChange, Goto
            <7>2. UNCHANGED <<acked, call, applied>> => Added' = Added
              BY DEF Added
            <7>3. QED
              BY <4>4, <7>1, <7>2
          <6>2. QED
            BY <3>3, <4>4, <5>1, <5>2, <6>1
        <5>3. CASE v # w
          <6>1. pc'[v] = pc[v] /\ pc[v] = "apply"
            BY <2>1, <5>1, <5>3 DEF ApplyChange
          <6>2. applied' = applied
            <7>1. pc' = [pc EXCEPT ![v] = pc'[v]]
              BY <5>1, WorkerFrame DEF WorkerStep
            <7>2. pc'[w] = "apply"
              BY <2>3, <5>3, <7>1 DEF ApplyChange
            <7>3. applied'[w] = applied[w]
              BY <5>1, <5>3 DEF ApplyChange
            <7>4. pc'[w] # "failed" => applied'[w] = applied[w] + 1
              BY <2>3 DEF ApplyChange, Goto
            <7>5. applied[w] \in Nat
              OBVIOUS
            <7>6. QED
              BY <7>2, <7>3, <7>4, <7>5
          <6>3. Added' = Added
            BY <2>1, <6>2 DEF Added
          <6>4. QED
            BY <4>4, <6>3
        <5>4. QED
          BY <5>2, <5>3
      <4>5. QED
        BY <4>3, <4>4
    <3>5. pc'[w] # "returned"
      BY <2>3 DEF ApplyChange, Goto
    <3>6. ASSUME NEW v \in Workers, call'[v].op = "add_connection"
          PROVE  /\ Saving(v)' \/ pc'[v] = "returned" => applied'[v] = 1
                 /\ pc'[v] = "returned" /\ Readable' => Holds(disk.data, {Wanted(v)})'
      <4>1. CASE v = w
        BY <2>1, <3>3, <3>5, <3>6, <4>1
      <4>2. CASE v # w
        BY <1>0, <2>1, <2>2, <3>1, <3>6, <4>2 DEF Holds, Readable
      <4>3. QED
        BY <4>1, <4>2
    <3>7. QED
      BY <1>0, <2>1, <3>1, <3>4, <3>6 DEF Keeping, Holds, Readable
  <2>4. ASSUME ~ApplyChange(w)
        PROVE  UNCHANGED applied /\ Added' = Added
    <3>1. UNCHANGED applied
      BY <1>3, <2>4 DEF WorkerStep, CreateState, CreateKey, SaveState, SaveKey, OpenFile, WriteFile,
                        LoadRead, LoadState, LoadKey
    <3>2. QED
      BY <2>1, <3>1 DEF Added
  <2>5. CASE CreateState(w) \/ LoadState(w)
    <3>1. Added' = Added /\ UNCHANGED <<applied, disk>> /\ pc'[w] \in {"create_key", "load_key"}
      BY <2>4, <2>5 DEF CreateState, LoadState, ApplyChange, Goto
    <3>2. PICK d : state'.data = d /\ lost' = lost \cup Overtaken(d)
      <4>1. CASE CreateState(w)
        BY <4>1 DEF CreateState
      <4>2. CASE LoadState(w)
        BY <4>2 DEF LoadState
      <4>3. QED
        BY <2>5, <4>1, <4>2
    <3>3. Holds(state.data, Added)'
      BY <2>1, <3>1, <3>2 DEF Holds, Overtaken
    <3>4. ASSUME NEW v \in Workers, call'[v].op = "add_connection"
          PROVE  /\ Saving(v)' \/ pc'[v] = "returned" => applied'[v] = 1
                 /\ pc'[v] = "returned" /\ Readable' => Holds(disk.data, {Wanted(v)})'
      <4>1. CASE v = w
        BY <3>1, <4>1
      <4>2. CASE v # w
        BY <1>0, <1>1, <2>1, <2>2, <3>1, <3>4, <4>2 DEF Holds, Readable
      <4>3. QED
        BY <4>1, <4>2
    <3>5. Readable' => Holds(disk.data, acked)'
      BY <1>0, <1>1, <2>1, <3>1 DEF Holds, Readable
    <3>6. QED
      BY <3>3, <3>4, <3>5 DEF Keeping
  <2>6. CASE WriteFile(w)
    <3>1. /\ UNCHANGED <<state, lost, applied>> /\ Saving(w) /\ pc'[w] \in {"returned", "failed"}
          /\ state # NoVault /\ buf[w].data = state.data /\ Added' = Added
      BY <2>4, <2>6 DEF WriteFile, Goto, Images, MutexDiscipline, HoldsKey, HoldsState, ApplyChange
    <3>2. \/ UNCHANGED disk /\ pc'[w] = "failed"
          \/ disk'.data = state.data
      BY <2>6, <3>1 DEF WriteFile, Goto
    <3>3. Holds(state.data, Added)
      BY <1>0, <3>1
    <3>4. \A v \in Workers : call[v].op = "add_connection" /\ applied[v] = 1 => Wanted(v) \in Added
      BY DEF Added, Wanted
    <3>5. acked \subseteq Added
      BY DEF Added
    <3>6. Readable' => Holds(disk.data, acked)'
      BY <1>0, <2>1, <3>1, <3>2, <3>3, <3>5 DEF Holds, Readable
    <3>7. ASSUME NEW v \in Workers, call'[v].op = "add_connection"
          PROVE  /\ Saving(v)' \/ pc'[v] = "returned" => applied'[v] = 1
                 /\ pc'[v] = "returned" /\ Readable' => Holds(disk.data, {Wanted(v)})'
      <4>1. Saving(v)' \/ pc'[v] = "returned" => applied'[v] = 1
        BY <1>0, <2>1, <3>1, <3>7
      <4>2. ASSUME pc'[v] = "returned", Readable'
            PROVE  Holds(disk.data, {Wanted(v)})'
        <5>1. Wanted(v) \in Added
          BY <2>1, <3>1, <3>4, <3>7, <4>1, <4>2
        <5>2. CASE disk'.data = state.data
          BY <2>1, <2>2, <3>1, <3>3, <5>1, <5>2 DEF Holds
        <5>3. CASE UNCHANGED disk /\ pc'[w] = "failed"
          BY <1>0, <2>1, <2>2, <3>1, <3>7, <4>2, <5>3 DEF Holds, Readable
        <5>4. QED
          BY <3>2, <5>2, <5>3
      <4>3. QED
        BY <4>1, <4>2
    <3>8. Holds(state.data, Added)'
      BY <2>1, <3>1, <3>3 DEF Holds
    <3>9. QED
      BY <3>6, <3>7, <3>8 DEF Keeping
  <2>7. CASE CreateKey(w) \/ SaveState(w) \/ SaveKey(w) \/ OpenFile(w) \/ LoadRead(w) \/ LoadKey(w)
    <3>1. UNCHANGED <<state, lost, applied>> /\ disk' \in {disk, Torn} /\ Added' = Added
      BY <2>4, <2>7 DEF CreateKey, SaveState, SaveKey, OpenFile, LoadRead, LoadKey, ApplyChange
    <3>2. call[w].op = "add_connection" =>
            (Saving(w)' \/ pc'[w] = "returned" => Saving(w))
      <4>1. CASE SaveState(w) \/ SaveKey(w) \/ OpenFile(w)
        BY <4>1 DEF SaveState, SaveKey, OpenFile
      <4>2. CASE CreateKey(w) \/ LoadRead(w) \/ LoadKey(w)
        <5>1. pc[w] \in {"create_key", "load_read", "load_key"}
          BY <4>2 DEF CreateKey, LoadRead, LoadKey
        <5>2. QED
          BY <5>1 DEF Offers, OpeningSteps
      <4>3. QED
        BY <2>7, <4>1, <4>2
    <3>3. ASSUME NEW v \in Workers, call'[v].op = "add_connection"
          PROVE  /\ Saving(v)' \/ pc'[v] = "returned" => applied'[v] = 1
                 /\ pc'[v] = "returned" /\ Readable' => Holds(disk.data, {Wanted(v)})'
      <4>1. CASE v = w
        <5>1. pc'[w] # "returned"
          <6>1. pc[w] # "load_key"
            BY <2>1, <3>3, <4>1 DEF Offers, OpeningSteps
          <6>2. QED
            BY <2>7, <6>1 DEF CreateKey, SaveState, SaveKey, OpenFile, LoadRead, LoadKey, Goto
        <5>2. QED
          BY <1>0, <2>1, <3>1, <3>2, <3>3, <4>1, <5>1
      <4>2. CASE v # w
        BY <1>0, <2>1, <2>2, <3>1, <3>3, <4>2 DEF Holds, Readable
      <4>3. QED
        BY <4>1, <4>2
    <3>4. (state' # NoVault => Holds(state.data, Added)') /\ (Readable' => Holds(disk.data, acked)')
      BY <1>0, <2>1, <3>1 DEF Holds, Readable
    <3>5. QED
      BY <3>3, <3>4 DEF Keeping
  <2>8. QED
    BY <1>3, <2>3, <2>5, <2>6, <2>7 DEF WorkerStep
<1>4. ASSUME NEW w \in Workers, Deliver(w)
      PROVE  Keeping'
  <2>1. /\ UNCHANGED <<state, disk, doomed, lost>> /\ pc' = [pc EXCEPT ![w] = "idle"]
        /\ call' = [call EXCEPT ![w] = NoCall] /\ applied' = [applied EXCEPT ![w] = 0]
        /\ \/ UNCHANGED acked
           \/ /\ pc[w] = "returned" /\ call[w].op = "add_connection"
              /\ acked' = acked \cup {Wanted(w)}
    BY <1>4 DEF Deliver, Goto, Wanted
  <2>2. Added' \subseteq Added
    <3>1. ~\E v \in Workers : ApplyChange(v)
      <4>1. buf'[w] = Absent /\ pc[w] \in Done /\ pc'[w] = "idle"
        BY <1>4, <2>1 DEF Deliver
      <4>2. \A v \in Workers : ApplyChange(v) => pc'[w] # "idle"
        BY <4>1, WorkerFrame DEF WorkerStep, Done
      <4>3. QED
        BY <4>1, <4>2
    <3>2. QED
      BY <3>1, AddedGrows
  <2>3. state' # NoVault => Holds(state.data, Added)'
    BY <1>0, <2>1, <2>2 DEF Holds
  <2>4. Readable' => Holds(disk.data, acked)'
    BY <1>0, <2>1 DEF Holds, Readable
  <2>5. ASSUME NEW v \in Workers, call'[v].op = "add_connection"
        PROVE  /\ Saving(v)' \/ pc'[v] = "returned" => applied'[v] = 1
               /\ pc'[v] = "returned" /\ Readable' => Holds(disk.data, {Wanted(v)})'
    <3>1. v # w
      BY <2>1, <2>5 DEF NoCall
    <3>2. call'[v] = call[v] /\ pc'[v] = pc[v] /\ applied'[v] = applied[v] /\ Wanted(v)' = Wanted(v)
      BY <2>1, <3>1 DEF Wanted
    <3>3. QED
      BY <1>0, <2>1, <2>5, <3>2 DEF Holds, Readable
  <2>6. QED
    BY <2>3, <2>4, <2>5 DEF Keeping
<1>5. CASE PressLock \/ LockKey \/ LockState \/ AutoUnlockEnds \/ UNCHANGED vars
  <2>1. /\ UNCHANGED <<disk, pc, call, applied, acked, doomed, lost>>
        /\ state' \in {state, NoVault}
    BY <1>5 DEF PressLock, LockKey, LockState, AutoUnlockEnds, vars
  <2>2. Added' = Added /\ \A v \in Workers : Wanted(v)' = Wanted(v)
    BY <2>1 DEF Added, Wanted
  <2>3. QED
    BY <1>0, <2>1, <2>2 DEF Keeping, Holds, Readable
<1>6. CASE Restart
  <2>1. /\ UNCHANGED <<disk, acked, doomed, lost>> /\ state' = NoVault
        /\ \A v \in Workers : call'[v] = NoCall
    BY <1>6 DEF Restart
  <2>2. QED
    BY <1>0, <2>1 DEF Keeping, Holds, Readable, NoCall
<1>7. QED
  BY <1>2, <1>3, <1>4, <1>5, <1>6 DEF Next

(* StoreInv holds throughout, beside IInv.                                 *)
LEMMA StoreInvariant == Spec => [](IInv /\ StoreInv)
<1>1. Init => StoreInv
  <2>1. Init => Offers
    BY DEF Init, Offers, NoCall
  <2>2. Init => Keeping
    BY DEF Init, Keeping, NoCall, Readable
  <2>3. QED
    BY <2>1, <2>2 DEF StoreInv
<1>2. IInv /\ StoreInv /\ [Next]_vars => StoreInv'
  BY OffersStep, KeepingStep DEF IInv, StoreInv
<1>3. QED
  BY IInvInvariant, <1>1, <1>2, PTL DEF Spec

(* A connection that was reported saved is in every readable file from     *)
(* then on, until its deletion is requested: no failed save, restart, lock *)
(* or edit of another connection loses it, nor an opening that brings it   *)
(* along.                                                                  *)
THEOREM AddedStaysSaved == Spec => []AddedIsPersisted
<1>1. StoreInv => AddedIsPersisted
  BY DEF StoreInv, Keeping, Holds, AddedIsPersisted
<1>2. QED
  BY StoreInvariant, <1>1, PTL

-----------------------------------------------------------------------------
(* Each step is one of VaultStore or none.                                 *)
StoreMem == IF state = NoVault THEN NoVault ELSE state.data
StoreFile == IF Readable THEN disk.data ELSE Torn
StoreImage == [w \in Workers |-> CASE pc[w] = "create_state" -> EmptyData
                                   [] pc[w] = "load_state" -> buf[w].data
                                   [] OTHER -> NoVault]

LEMMA StoreStep ==
  ASSUME IInv, StoreInv, [Next]_vars
  PROVE  [Store!Next]_Store!vars
<1> DEFINE mem == StoreMem
<1> DEFINE file == StoreFile
<1> DEFINE image == StoreImage
<1> USE DEF IInv, MemInv, TypeOK, StoreInv
<1>1. ASSUME UNCHANGED <<mem, file, image>> PROVE UNCHANGED Store!vars
  BY <1>1 DEF Store!vars, StoreMem, StoreFile, StoreImage
<1>2. Store!EmptyData = EmptyData /\ EmptyData # NoVault /\ EmptyData # Torn
  BY EmptyDataType DEF Store!EmptyData, EmptyData
<1>3. state # NoVault => state.data \in VaultDatas /\ state.data # NoVault
  BY DEF VaultStates
<1>4. /\ UNCHANGED disk => UNCHANGED file
      /\ UNCHANGED state => UNCHANGED mem
  BY DEF Readable, StoreMem, StoreFile
<1>5. ASSUME NEW w \in Workers, NEW d, \A v \in Workers \ {w} : pc'[v] = pc[v] /\ buf'[v] = buf[v],
             d = CASE pc'[w] = "create_state" -> EmptyData
                   [] pc'[w] = "load_state" -> buf'[w].data
                   [] OTHER -> NoVault
      PROVE  image' = [image EXCEPT ![w] = d]
  BY <1>5 DEF StoreImage
<1>6. ASSUME \A v \in Workers : /\ pc[v] \in {"create_state", "load_state"} \/ pc'[v] \in {"create_state", "load_state"} =>
                                      pc'[v] = pc[v] /\ buf'[v] = buf[v]
      PROVE  UNCHANGED image
  <2>1. ASSUME NEW v \in Workers PROVE image'[v] = image[v]
    BY <1>6, <2>1 DEF StoreImage
  <2>2. QED
    BY <2>1 DEF StoreImage
<1> HIDE DEF mem, file, image
<1>7. ASSUME NEW w \in Workers, Request(w)
      PROVE  [Store!Next]_Store!vars
  <2>1. UNCHANGED <<state, disk, buf, screen, exists>> /\ pc[w] = "idle"
    BY <1>7, RequestFrame
  <2>2. PICK first \in {"create_state", "load_read", "apply"} : pc' = [pc EXCEPT ![w] = first]
    BY <1>7, RequestFrame
  <2>3. CASE first = "create_state"
    <3>1. Fresh
      BY <1>7, <2>2, <2>3, RequestFrame
    <3>2. StoreFile \in {Torn, EmptyData}
      BY <3>1 DEF FirstVault, StoreFile
    <3>3. image' = [image EXCEPT ![w] = EmptyData]
      BY <1>5, <2>1, <2>2, <2>3
    <3>4. Store!Create(w)
      BY <1>2, <1>4, <2>1, <3>2, <3>3 DEF Store!Create, mem, file, image, StoreMem, StoreFile, StoreImage
    <3>5. QED
      BY <3>4 DEF Store!Next
  <2>4. CASE first # "create_state"
    BY <1>1, <1>4, <1>6, <2>1, <2>2, <2>4
  <2>5. QED
    BY <2>3, <2>4
<1>8. ASSUME NEW w \in Workers, WorkerStep(w)
      PROVE  [Store!Next]_Store!vars
  <2>1. /\ pc' = [pc EXCEPT ![w] = pc'[w]] /\ pc[w] # "idle"
        /\ \A v \in Workers \ {w} : pc'[v] = pc[v] /\ buf'[v] = buf[v]
    <3>1. pc' = [pc EXCEPT ![w] = pc'[w]] /\ pc[w] # "idle" /\ \A v \in Workers \ {w} : pc'[v] = pc[v]
      BY <1>8, WorkerFrame
    <3>2. \A v \in Workers \ {w} : buf'[v] = buf[v]
      BY <1>8 DEF WorkerStep, CreateState, CreateKey, ApplyChange, SaveState, SaveKey, OpenFile,
                  WriteFile, LoadRead, LoadState, LoadKey
    <3>3. QED
      BY <3>1, <3>2
  <2>2. CASE CreateState(w) \/ LoadState(w)
    <3>1. UNCHANGED disk /\ pc'[w] \in {"create_key", "load_key"}
      BY <2>2 DEF CreateState, LoadState, Goto
    <3>2. image' = [image EXCEPT ![w] = NoVault]
      BY <1>5, <2>1, <3>1
    <3>3. image[w] # NoVault /\ mem' = image[w]
      <4>1. CASE CreateState(w)
        <5>1. state' # NoVault /\ state'.data = EmptyData
          BY <4>1, EmptyDataType DEF CreateState, VaultStates
        <5>2. image[w] = EmptyData
          BY <4>1 DEF CreateState, image, StoreImage
        <5>3. QED
          BY <1>2, <5>1, <5>2 DEF mem, StoreMem
      <4>2. CASE LoadState(w)
        <5>1. state' # NoVault /\ state'.data = buf[w].data /\ buf[w].data \in VaultDatas
          BY <4>2 DEF LoadState, Images, Files, VaultStates
        <5>2. image[w] = buf[w].data
          BY <4>2 DEF LoadState, image, StoreImage
        <5>3. QED
          BY <5>1, <5>2 DEF mem, StoreMem
      <4>3. QED
        BY <2>2, <4>1, <4>2
    <3>4. Store!Open(w)
      BY <1>4, <3>1, <3>2, <3>3 DEF Store!Open, mem, file, image, StoreMem, StoreFile, StoreImage
    <3>5. QED
      BY <3>4 DEF Store!Next
  <2>3. CASE ApplyChange(w)
    <3>1. UNCHANGED disk /\ NextChange(w) \in OfferedEdits
      BY <2>3, EditMakes DEF ApplyChange
    <3>2. UNCHANGED image
      <4>1. pc[w] = "apply" /\ pc'[w] \in {"apply", "failed", "save_state"}
        BY <2>3 DEF ApplyChange, Goto
      <4>2. QED
        BY <1>6, <2>1, <4>1
    <3>3. CASE UNCHANGED state
      BY <1>1, <1>4, <3>1, <3>2, <3>3
    <3>4. CASE ~UNCHANGED state
      <4>1. /\ state # NoVault /\ state' # NoVault /\ Applicable(state.data, NextChange(w))
            /\ state'.data = Apply(state.data, NextChange(w))
        BY <2>3, <3>4, EditMakes
      <4>2. /\ mem # NoVault /\ Applicable(mem, NextChange(w))
            /\ mem' = Apply(mem, NextChange(w))
        BY <1>3, <4>1, SMTT(30) DEF mem, StoreMem
      <4>3. UNCHANGED file
        BY <1>4, <3>1
      <4> HIDE DEF NextChange
      <4>4. \E ch \in OfferedEdits : Store!Applicable(mem, ch) /\ mem' = Store!Apply(mem, ch)
        BY <3>1, <4>2 DEF Store!Applicable, Store!Apply, Applicable, Apply,
              Store!PutConn, Store!RemoveConn, Store!PutFolder, Store!RemoveFolder, Store!ImportConns,
              PutConn, RemoveConn, PutFolder, RemoveFolder, ImportConns,
              Store!HasConn, Store!HasFolder, Store!Kept, Store!Conns, HasConn, HasFolder, Kept, Conns
      <4>5. Store!Edit
        BY <3>2, <4>2, <4>3, <4>4 DEF Store!Edit, mem, file, image, StoreMem, StoreFile, StoreImage
      <4>6. QED
        BY <4>5 DEF Store!Next
    <3>5. QED
      BY <3>3, <3>4
  <2>4. CASE SaveState(w) \/ SaveKey(w) \/ CreateKey(w) \/ LoadKey(w)
    <3>1. UNCHANGED <<state, disk>> /\ pc[w] \in {"save_state", "save_key", "create_key", "load_key"}
          /\ pc'[w] \in {"failed", "save_key", "open", "save_state", "returned"}
      BY <2>4 DEF SaveState, SaveKey, CreateKey, LoadKey, Goto
    <3>2. UNCHANGED image
      BY <1>6, <2>1, <3>1
    <3>3. QED
      BY <1>1, <1>4, <3>1, <3>2
  <2>5. CASE LoadRead(w)
    <3>1. UNCHANGED <<state, disk>> /\ pc[w] = "load_read"
          /\ \/ pc'[w] = "failed"
             \/ Readable /\ pc'[w] = "load_state" /\ buf'[w] = disk
      BY <2>5 DEF LoadRead, Goto
    <3>2. CASE pc'[w] = "failed"
      <4>1. UNCHANGED image
        BY <1>6, <2>1, <3>1, <3>2
      <4>2. QED
        BY <1>1, <1>4, <3>1, <4>1
    <3>3. CASE Readable /\ pc'[w] = "load_state" /\ buf'[w] = disk
      <4>1. file = disk.data /\ file # Torn
        BY <3>3 DEF Readable, Files, file, StoreFile
      <4>2. image' = [image EXCEPT ![w] = file]
        BY <1>5, <2>1, <3>3, <4>1
      <4>3. Store!Fetch(w)
        BY <1>4, <3>1, <4>1, <4>2 DEF Store!Fetch, mem, file, image, StoreMem, StoreFile, StoreImage
      <4>4. QED
        BY <4>3 DEF Store!Next
    <3>4. QED
      BY <3>1, <3>2, <3>3
  <2>6. CASE OpenFile(w) \/ WriteFile(w)
    <3>1. /\ UNCHANGED state /\ state # NoVault
          /\ disk' \in {disk, Torn, buf[w]} /\ buf[w].data = state.data
          /\ buf[w] \in Files
      <4>1. HoldsState(w) /\ HoldsKey(w) /\ UNCHANGED <<state, masterKey>>
            /\ disk' \in {disk, Torn, buf[w]}
        BY <2>6 DEF OpenFile, WriteFile, HoldsState, HoldsKey
      <4>2. /\ state # NoVault /\ masterKey # NoKey
            /\ buf[w] = [salt |-> state.salt, key |-> masterKey, data |-> state.data]
        BY <4>1 DEF MutexDiscipline, Images
      <4>3. buf[w] \in Files
        BY <4>2 DEF Files, VaultStates
      <4>4. QED
        BY <4>1, <4>2, <4>3
    <3>2. mem = state.data /\ mem # NoVault /\ mem' = mem
      BY <1>3, <1>4, <3>1 DEF mem, StoreMem
    <3>3. UNCHANGED image
      <4>1. pc[w] \in {"open", "write"} /\ pc'[w] \in {"write", "returned", "failed"}
        BY <2>6 DEF OpenFile, WriteFile, Goto
      <4>2. QED
        BY <1>6, <2>1, <4>1
    <3>4. CASE disk' = disk
      BY <1>1, <1>4, <3>2, <3>3, <3>4
    <3>5. CASE disk' = Torn
      <4>1. file' = Torn
        BY <3>5 DEF file, StoreFile, Readable
      <4>2. Store!Tear
        BY <3>2, <3>3, <4>1 DEF Store!Tear, mem, file, image, StoreMem, StoreFile, StoreImage
      <4>3. QED
        BY <4>2 DEF Store!Next
    <3>6. CASE disk' = buf[w]
      <4>1. file' = mem
        BY <3>1, <3>2, <3>6 DEF file, StoreFile, Readable
      <4>2. Store!Persist
        BY <3>2, <3>3, <4>1 DEF Store!Persist, mem, file, image, StoreMem, StoreFile, StoreImage
      <4>3. QED
        BY <4>2 DEF Store!Next
    <3>7. QED
      BY <3>1, <3>4, <3>5, <3>6
  <2>7. QED
    BY <1>8, <2>2, <2>3, <2>4, <2>5, <2>6 DEF WorkerStep
<1>9. CASE LockState
  <2>1. state' = NoVault /\ UNCHANGED <<disk, pc, buf>>
    BY <1>9 DEF LockState
  <2>2. mem' = NoVault /\ UNCHANGED <<file, image>>
    BY <1>4, <1>6, <2>1 DEF mem, StoreMem
  <2>3. Store!Lock
    BY <2>2 DEF Store!Lock, mem, file, image, StoreMem, StoreFile, StoreImage
  <2>4. QED
    BY <2>3 DEF Store!Next
<1>10. CASE Restart
  <2>1. state' = NoVault /\ UNCHANGED disk /\ \A v \in Workers : pc'[v] = "idle"
    BY <1>10 DEF Restart
  <2>2. mem' = NoVault /\ UNCHANGED file /\ image' = [v \in Workers |-> NoVault]
    BY <1>4, <2>1 DEF mem, StoreMem, image, StoreImage
  <2>3. Store!Exit
    BY <2>2 DEF Store!Exit, mem, file, image, StoreMem, StoreFile, StoreImage
  <2>4. QED
    BY <2>3 DEF Store!Next
<1>11. CASE PressLock \/ LockKey \/ AutoUnlockEnds \/ (\E w \in Workers : Deliver(w)) \/ UNCHANGED vars
  <2>1. /\ UNCHANGED <<state, disk>>
        /\ \A v \in Workers : \/ pc'[v] = pc[v] /\ buf'[v] = buf[v]
                              \/ pc[v] \in Done /\ pc'[v] = "idle"
    <3>1. CASE PressLock \/ LockKey \/ AutoUnlockEnds \/ UNCHANGED vars
      <4>1. UNCHANGED <<state, disk, pc, buf>>
        BY <3>1 DEF PressLock, LockKey, AutoUnlockEnds, vars
      <4>2. QED
        BY <4>1
    <3>2. ASSUME NEW w \in Workers, Deliver(w)
          PROVE  /\ UNCHANGED <<state, disk>>
                 /\ \A v \in Workers : \/ pc'[v] = pc[v] /\ buf'[v] = buf[v]
                                       \/ pc[v] \in Done /\ pc'[v] = "idle"
      <4>1. /\ UNCHANGED <<state, disk>> /\ pc[w] \in Done
            /\ pc' = [pc EXCEPT ![w] = "idle"] /\ buf' = [buf EXCEPT ![w] = Absent]
        BY <3>2 DEF Deliver, Goto
      <4>2. pc'[w] = "idle" /\ \A v \in Workers \ {w} : pc'[v] = pc[v] /\ buf'[v] = buf[v]
        BY <4>1
      <4>3. QED
        BY <4>1, <4>2
    <3>3. QED
      BY <1>11, <3>1, <3>2
  <2>2. UNCHANGED image
    BY <1>6, <2>1 DEF Done
  <2>3. QED
    BY <1>1, <1>4, <2>1, <2>2
<1>12. QED
  BY <1>7, <1>8, <1>9, <1>10, <1>11 DEF Next

(* Edits made under one mutex, saves that take two and may fail half-way,  *)
(* openings and closings in two halves, in any overlap, and restarts       *)
(* between any two steps amount to a store that is opened, edited, saved   *)
(* and closed in single steps.                                             *)
THEOREM VaultImplementsStore == Spec => ImplementsStore
<1>1. Init => Store!Init
  BY DEF Init, Store!Init, Readable
<1>2. QED
  BY StoreInvariant, StoreStep, <1>1, PTL DEF Spec, ImplementsStore, Store!Spec

-----------------------------------------------------------------------------
(* Every step of the screen and the keyring is one of the vault, or leaves *)
(* it alone.                                                               *)
LEMMA ScreenStep == [ScreenNext]_screenVars => [Next]_vars
<1> SUFFICES ASSUME [ScreenNext]_screenVars PROVE [Next]_vars
  OBVIOUS
<1>1. CASE UNCHANGED screenVars
  BY <1>1 DEF screenVars
<1>2. CASE Tick \/ Untick \/ \E of \in DOMAIN deletes : DeletePassword(of)
  BY <1>2 DEF Tick, Untick, DeletePassword
<1>3. ASSUME NEW w \in Workers, Asked(w) PROVE [Next]_vars
  BY <1>3 DEF Asked, Next
<1>4. ASSUME NEW w \in Workers, BeginSave(w) \/ SavePassword(w) PROVE [Next]_vars
  BY <1>4 DEF BeginSave, SavePassword
<1>5. ASSUME NEW w \in Workers, Continue(w) PROVE [Next]_vars
  BY <1>5 DEF Continue, Next
<1>6. CASE NotFound \/ Pressed
  BY <1>6 DEF NotFound, Pressed, Next
<1>7. CASE Underway
  BY <1>7 DEF Underway, Next
<1>8. CASE Locked \/ Started
  BY <1>8 DEF Locked, Started, Next
<1> QED
  BY <1>1, <1>2, <1>3, <1>4, <1>5, <1>6, <1>7, <1>8 DEF ScreenNext

(* The screen and the keyring implement the vault: the checkbox, the       *)
(* credential and the second await of _submit add no behaviour to it.      *)
THEOREM ScreenImplementsVault == ScreenSpec => Spec
<1>1. ScreenInit => Init
  BY DEF ScreenInit
<1> QED
  BY <1>1, ScreenStep, PTL DEF ScreenSpec, Spec

-----------------------------------------------------------------------------
(* A password fits the vault: outside its creation, whatever could become  *)
(* the file, or is it, has the salt k, and a screen that has not seen the  *)
(* file yet waits for the creation that wrote it.                          *)
Fits(k) ==
    /\ disk # Absent
    /\ \A w \in Workers : ~Creating(w)
    /\ Fresh => \E w \in Workers : pc[w] = "returned"
    /\ Readable => disk.salt = k
    /\ state # NoVault => state.salt = k
    /\ \A w \in Workers : pc[w] \in {"load_state", "load_key"} => buf[w].salt = k

(* Every call that returned holds an image of the vault there is.          *)
ReturnedFits ==
    \A w \in Workers : pc[w] = "returned" => buf[w] \in Files /\ Fits(buf[w].salt)

(* What fits goes on to fit: no second vault is created over the first.    *)
LEMMA FitsStep ==
  ASSUME IInv, [Next]_vars, "rivals" \notin met', NEW k \in Salts, Fits(k)
  PROVE  Fits(k)'
<1>0. Sole
  BY RivalsMet DEF IInv
<1> USE DEF IInv, MemInv, TypeOK, FirstVault, Fits, Creating, Sole
<1>1. ASSUME NEW w \in Workers, Request(w)
      PROVE  Fits(k)'
  <2>1. /\ UNCHANGED <<vaultVars, buf, screen, exists>> /\ pc[w] = "idle"
        /\ \E first \in {"create_state", "load_read", "apply"} : pc' = [pc EXCEPT ![w] = first]
    BY <1>1, RequestFrame
  <2>2. pc'[w] # "create_state"
    <3>1. Fresh => RivalCreations
      BY DEF RivalCreations
    <3>2. QED
      BY <1>1, <3>1, RequestFrame
  <2>3. QED
    BY <2>1, <2>2 DEF Fresh, Readable
<1>2. ASSUME NEW w \in Workers, WorkerStep(w)
      PROVE  Fits(k)'
  <2>1. /\ UNCHANGED uiVars /\ pc[w] \notin {"idle", "returned", "failed"}
        /\ \A v \in Workers \ {w} : pc'[v] = pc[v] /\ buf'[v] = buf[v]
        /\ ~Creating(w)'
    BY <1>2 DEF WorkerStep, CreateState, CreateKey, ApplyChange, SaveState, SaveKey, OpenFile,
                WriteFile, LoadRead, LoadState, LoadKey, Goto
  <2>2. /\ state' # NoVault => state'.salt = k
        /\ disk' # Absent /\ (Readable' => disk'.salt = k)
        /\ pc'[w] \in {"load_state", "load_key"} => buf'[w].salt = k
    <3>1. CASE ApplyChange(w)
      <4>1. state' = state \/ (state # NoVault /\ state'.salt = state.salt)
        BY <3>1 DEF ApplyChange, VaultStates
      <4>2. UNCHANGED <<disk, buf>> /\ pc'[w] \notin {"load_state", "load_key"}
        BY <3>1 DEF ApplyChange, Goto
      <4>3. QED
        BY <4>1, <4>2 DEF Readable
    <3>2. CASE WriteFile(w)
      <4>1. state # NoVault /\ buf[w].salt = state.salt /\ buf[w] # Absent
        BY <3>2 DEF WriteFile, MutexDiscipline, Images, HoldsKey, HoldsState, VaultStates, Files
      <4>2. QED
        BY <3>2, <4>1 DEF WriteFile, Readable, Goto
    <3>3. CASE SaveState(w) \/ SaveKey(w) \/ OpenFile(w)
      BY <3>3 DEF SaveState, SaveKey, OpenFile, Readable, Goto
    <3>4. CASE LoadRead(w) \/ LoadState(w) \/ LoadKey(w)
      BY <3>4 DEF LoadRead, LoadState, LoadKey, Readable, Goto
    <3>5. QED
      BY <1>2, <2>1, <3>1, <3>2, <3>3, <3>4 DEF WorkerStep, CreateState, CreateKey
  <2>3. QED
    BY <2>1, <2>2 DEF Fresh
<1>3. ASSUME NEW w \in Workers, Deliver(w)
      PROVE  Fits(k)'
  <2>1. /\ UNCHANGED <<vaultVars, exists>> /\ pc[w] \in Done /\ pc' = [pc EXCEPT ![w] = "idle"]
        /\ \A v \in Workers \ {w} : buf'[v] = buf[v]
        /\ screen' = "home" \/ (screen' = screen /\ ~(pc[w] = "returned" /\ w \in mine))
    BY <1>3 DEF Deliver, Goto, Replace
  <2>2. ~Fresh'
    <3>1. ASSUME Fresh PROVE pc[w] = "returned" /\ w \in mine
      <4>1. PICK v \in Workers : pc[v] = "returned"
        BY <3>1
      <4>2. pc[w] # "idle"
        BY <2>1 DEF Done
      <4>3. v = w
        BY <1>0, <3>1, <4>1, <4>2 DEF OneCreation
      <4>4. QED
        BY <3>1, <4>1, <4>2, <4>3
    <3>2. QED
      BY <2>1, <3>1 DEF Fresh
  <2>3. QED
    BY <2>1, <2>2 DEF Readable
<1>4. CASE PressLock \/ LockKey \/ LockState \/ AutoUnlockEnds
  BY <1>4 DEF PressLock, LockKey, LockState, AutoUnlockEnds, Replace, Fresh, Readable
<1>5. CASE Restart
  BY <1>5 DEF Restart, Fresh, Readable
<1>6. CASE UNCHANGED vars
  BY <1>6 DEF vars, Fresh, Readable
<1> QED
  BY <1>1, <1>2, <1>3, <1>4, <1>5, <1>6 DEF Next

(* A call returns only with the image of the vault there is. *)
LEMMA ReturnedFitsStep ==
  ASSUME IInv, [Next]_vars, "rivals" \notin met', ReturnedFits
  PROVE  ReturnedFits'
<1>0. Sole
  BY RivalsMet DEF IInv
<1> USE DEF IInv, MemInv, TypeOK, FirstVault, Creating, Sole
<1> SUFFICES ASSUME NEW w \in Workers, pc'[w] = "returned"
             PROVE  (buf[w] \in Files /\ Fits(buf[w].salt))'
  BY DEF ReturnedFits
<1>1. CASE pc[w] = "returned"
  <2>1. buf'[w] = buf[w]
    <3>1. ASSUME NEW v \in Workers, Request(v) PROVE buf' = buf
      BY <3>1, RequestFrame
    <3>2. ASSUME NEW v \in Workers, WorkerStep(v) PROVE buf'[w] = buf[w]
      BY <1>1, <3>2 DEF WorkerStep, CreateState, CreateKey, ApplyChange, SaveState, SaveKey,
              OpenFile, WriteFile, LoadRead, LoadState, LoadKey
    <3>3. ASSUME NEW v \in Workers, Deliver(v) PROVE buf'[w] = buf[w]
      BY <3>3 DEF Deliver, Goto
    <3>4. CASE PressLock \/ LockKey \/ LockState \/ AutoUnlockEnds \/ UNCHANGED vars
      BY <3>4 DEF PressLock, LockKey, LockState, AutoUnlockEnds, vars
    <3>5. QED
      BY <3>1, <3>2, <3>3, <3>4 DEF Next, Restart
  <2>2. buf[w] \in Files /\ Fits(buf[w].salt)
    BY <1>1 DEF ReturnedFits
  <2>3. PICK k \in Salts : k = buf[w].salt
    BY <2>2 DEF Files
  <2>4. Fits(k)'
    BY <2>2, <2>3, FitsStep
  <2>5. QED
    BY <2>1, <2>2, <2>3, <2>4 DEF Fits
<1>2. CASE pc[w] # "returned"
  <2>1. WriteFile(w) \/ LoadKey(w)
    <3>1. ASSUME NEW v \in Workers, Request(v) PROVE FALSE
      BY <1>2, <3>1, RequestFrame
    <3>2. ASSUME NEW v \in Workers, WorkerStep(v) PROVE WriteFile(w) \/ LoadKey(w)
      BY <1>2, <3>2 DEF WorkerStep, CreateState, CreateKey, ApplyChange, SaveState, SaveKey,
              OpenFile, LoadRead, LoadState, WriteFile, LoadKey, Goto
    <3>3. ASSUME NEW v \in Workers, Deliver(v) PROVE FALSE
      BY <1>2, <3>3 DEF Deliver, Goto
    <3>4. ~(PressLock \/ LockKey \/ LockState \/ AutoUnlockEnds \/ Restart \/ UNCHANGED vars)
      BY <1>2 DEF PressLock, LockKey, LockState, AutoUnlockEnds, Restart, vars
    <3>5. QED
      BY <3>1, <3>2, <3>3, <3>4 DEF Next
  <2>2. buf[w] \in Files /\ buf' = buf /\ pc' = [pc EXCEPT ![w] = "returned"] /\ UNCHANGED state
    BY <1>2, <2>1 DEF WriteFile, LoadKey, Goto, Images, HoldsKey, HoldsState, MutexDiscipline,
                      VaultStates, Files
  <2>3. \A v \in Workers : ~Creating(v)
    BY <1>0, <2>1 DEF WriteFile, LoadKey, OneCreation, Fresh
  <2>4. /\ state # NoVault => state.salt = buf[w].salt
        /\ \A v \in Workers : pc[v] \in {"load_state", "load_key"} => buf[v].salt = buf[w].salt
        /\ disk' # Absent /\ (Readable' => disk'.salt = buf[w].salt)
    <3>1. CASE WriteFile(w)
      <4>1. state # NoVault /\ state.salt = buf[w].salt
        BY <3>1 DEF WriteFile, Images, HoldsKey, HoldsState, MutexDiscipline
      <4>2. disk' = buf[w] /\ disk' # Absent
        BY <1>2, <3>1, <2>2 DEF WriteFile, Goto
      <4>3. QED
        BY <1>0, <2>3, <4>1, <4>2 DEF OneSalt
    <3>2. CASE LoadKey(w)
      <4>1. pc[w] = "load_key" /\ disk' = disk
        BY <3>2 DEF LoadKey
      <4>2. disk # Absent
        BY <4>1 DEF FileExists
      <4>3. QED
        BY <1>0, <2>3, <4>1, <4>2 DEF OneSalt, Readable
    <3>3. QED
      BY <2>1, <3>1, <3>2
  <2>5. QED
    BY <2>2, <2>3, <2>4 DEF Fits
<1>3. QED
  BY <1>1, <1>2

-----------------------------------------------------------------------------
(* The fields of the screen and the keyring hold values of their kind.     *)
KeyringTypeOK ==
    /\ keyring \in Salts \cup {NoKey}
    /\ remember \in BOOLEAN /\ hasStored \in BOOLEAN /\ misled \in BOOLEAN
    /\ saving \in [Workers -> {"no", "saving", "answered"}]
    /\ insisting \subseteq Workers
    /\ deletes \in [{"shown", "left"} -> Nat]

(* A password is saved while its call waits to be delivered.               *)
SavedReturned == \A w \in Workers : saving[w] = "saving" => pc[w] = "returned"

KeyringFits == keyring # NoKey => Fits(keyring)

KInv == /\ KeyringTypeOK /\ SavedReturned
        /\ "rivals" \notin met => ReturnedFits /\ KeyringFits

(* The initial state satisfies it. *)
LEMMA InitKeyring == ScreenInit => KInv
<1> SUFFICES ASSUME ScreenInit PROVE KInv
  OBVIOUS
<1>1. KeyringTypeOK
  BY DEF ScreenInit, KeyringTypeOK, NoDeletes
<1>2. SavedReturned /\ ReturnedFits /\ KeyringFits
  BY DEF ScreenInit, Init, SavedReturned, ReturnedFits, KeyringFits
<1>3. QED
  BY <1>1, <1>2 DEF KInv

(* The steps of the screen and the keyring keep the kinds of their own     *)
(* variables, and what they save is the password of a call that returned.  *)
Saves == UNCHANGED vars /\ \E w \in Workers : pc[w] = "returned" /\ keyring' = buf[w].salt

LEMMA KeyringStep ==
  ASSUME IInv, KInv, [ScreenNext]_screenVars
  PROVE  KeyringTypeOK' /\ SavedReturned' /\ (keyring' \in {keyring, NoKey} \/ Saves)
<1> USE DEF IInv, MemInv, TypeOK, KInv, KeyringTypeOK, SavedReturned
<1>1. CASE Tick \/ Untick
  <2>1. UNCHANGED <<vars, keyring, hasStored, saving, insisting, misled>> /\ remember' \in BOOLEAN
    BY <1>1 DEF Tick, Untick
  <2>2. deletes' \in [{"shown", "left"} -> Nat]
    BY <1>1 DEF Tick, Untick
  <2>3. QED
    BY <2>1, <2>2 DEF vars
<1>2. ASSUME NEW of \in DOMAIN deletes, DeletePassword(of)
      PROVE  KeyringTypeOK' /\ SavedReturned' /\ keyring' \in {keyring, NoKey}
  <2>1. deletes' \in [{"shown", "left"} -> Nat]
    BY <1>2 DEF DeletePassword
  <2>2. hasStored' \in BOOLEAN /\ misled' \in BOOLEAN
    BY Zenon, <1>2 DEF DeletePassword, Misleads
  <2>3. UNCHANGED <<vars, remember, saving, insisting>> /\ keyring' \in {keyring, NoKey}
    BY <1>2 DEF DeletePassword
  <2>4. QED
    BY <2>1, <2>2, <2>3 DEF vars
<1>3. ASSUME NEW w \in Workers, BeginSave(w)
      PROVE  KeyringTypeOK' /\ SavedReturned' /\ keyring' \in {keyring, NoKey}
  BY <1>3 DEF BeginSave, vars
<1>4. ASSUME NEW w \in Workers, SavePassword(w)
      PROVE  KeyringTypeOK' /\ SavedReturned' /\ (keyring' = keyring \/ Saves)
  <2>1. pc[w] = "returned" /\ buf[w].salt \in Salts
    BY <1>4 DEF SavePassword, Images, Files
  <2>2. misled' \in BOOLEAN
    BY Zenon, <1>4 DEF SavePassword, Misleads
  <2>3. /\ UNCHANGED <<vars, remember, hasStored, insisting, deletes>>
        /\ keyring' \in {keyring, buf[w].salt}
        /\ saving' = [saving EXCEPT ![w] = "answered"]
    BY <1>4 DEF SavePassword
  <2>4. QED
    BY <2>1, <2>2, <2>3 DEF Saves, vars
<1>5. ASSUME NEW w \in Workers, Continue(w)
      PROVE  KeyringTypeOK' /\ SavedReturned' /\ keyring' \in {keyring, NoKey}
  <2>1. deletes' \in [{"shown", "left"} -> Nat]
    BY <1>5 DEF Continue, NoDeletes
  <2>2. hasStored' \in BOOLEAN /\ misled' \in BOOLEAN /\ remember' \in BOOLEAN
    BY Zenon, <1>5 DEF Continue
  <2>3. pc' = [pc EXCEPT ![w] = "idle"] /\ saving' = [saving EXCEPT ![w] = "no"]
        /\ insisting' \subseteq Workers /\ keyring' = keyring
    BY <1>5 DEF Continue, Deliver, Goto
  <2>4. QED
    BY <2>1, <2>2, <2>3
<1>6. ASSUME NEW w \in Workers, Asked(w)
      PROVE  KeyringTypeOK' /\ SavedReturned' /\ keyring' \in {keyring, NoKey}
  <2>1. pc[w] = "idle" /\ UNCHANGED keyringVars
    BY <1>6, RequestFrame DEF Asked
  <2>2. PICK first : pc' = [pc EXCEPT ![w] = first]
    BY <1>6, RequestFrame DEF Asked
  <2>3. \A v \in Workers \ {w} : pc'[v] = pc[v]
    BY <2>2
  <2>4. QED
    BY <2>1, <2>3 DEF keyringVars
<1>7. CASE NotFound
  <2>1. hasStored' \in BOOLEAN /\ misled' \in BOOLEAN
    BY Zenon, <1>7 DEF NotFound
  <2>2. QED
    BY <1>7, <2>1 DEF NotFound, AutoUnlockEnds
<1>8. CASE Pressed \/ Underway
  <2>1. UNCHANGED keyringVars /\ \A w \in Workers : pc[w] = "returned" => pc'[w] = "returned"
    BY <1>8 DEF Pressed, Underway, PressLock, LockKey, WorkerStep, CreateState, CreateKey, ApplyChange,
                SaveState, SaveKey, OpenFile, WriteFile, LoadRead, LoadState, LoadKey, Goto
  <2>2. QED
    BY <2>1 DEF keyringVars
<1>9. CASE Locked \/ Started
  <2>1. hasStored' \in BOOLEAN /\ misled' \in BOOLEAN
    BY Zenon, <1>9 DEF Locked, Started, AskKeyring
  <2>2. /\ keyring' = keyring /\ remember' = FALSE
        /\ \/ UNCHANGED <<pc, saving, insisting, deletes>>
           \/ saving' = [w \in Workers |-> "no"] /\ insisting' = {} /\ deletes' = NoDeletes
    BY Zenon, <1>9 DEF Locked, Started, AskKeyring, LockState
  <2>3. saving' \in [Workers -> {"no", "saving", "answered"}] /\ insisting' \subseteq Workers
    BY <2>2
  <2>4. deletes' \in [{"shown", "left"} -> Nat]
    BY <2>2 DEF NoDeletes
  <2>5. SavedReturned'
    BY <2>2
  <2>6. QED
    BY <2>1, <2>2, <2>3, <2>4, <2>5
<1>10. CASE UNCHANGED screenVars
  BY <1>10 DEF screenVars, keyringVars, vars
<1>11. QED
  BY <1>1, <1>2, <1>3, <1>4, <1>5, <1>6, <1>7, <1>8, <1>9, <1>10 DEF ScreenNext

(* Both invariants hold of the vault with its screen.                      *)
LEMMA KeyringInvariant == ScreenSpec => [](IInv /\ KInv)
<1>1. ScreenSpec => []IInv
  BY ScreenImplementsVault, IInvInvariant, PTL
<1>2. IInv /\ KInv /\ [ScreenNext]_screenVars => KInv'
  <2> SUFFICES ASSUME IInv, KInv, [ScreenNext]_screenVars
               PROVE  KInv'
    OBVIOUS
  <2>1. SUFFICES ASSUME "rivals" \notin met'
                 PROVE  ReturnedFits' /\ KeyringFits'
    BY KeyringStep DEF KInv
  <2>2. ReturnedFits /\ KeyringFits
    BY <2>1, ScreenStep, RivalsMet DEF KInv, IInv
  <2>3. ReturnedFits'
    BY <2>1, <2>2, ScreenStep, ReturnedFitsStep
  <2>4. KeyringFits'
    <3>1. SUFFICES ASSUME keyring' # NoKey
                   PROVE  Fits(keyring)'
      BY DEF KeyringFits
    <3>2. PICK k \in Salts : k = keyring' /\ Fits(k)
      <4>1. CASE keyring' = keyring
        BY <2>2, <3>1, <4>1 DEF KInv, KeyringTypeOK, KeyringFits
      <4>2. CASE Saves
        BY <2>2, <4>2 DEF Saves, ReturnedFits, Files
      <4>3. QED
        BY <3>1, <4>1, <4>2, KeyringStep
    <3>3. Fits(k)'
      BY <2>1, <3>2, ScreenStep, FitsStep
    <3>4. QED
      BY <3>2, <3>3 DEF Fits
  <2>5. QED
    BY <2>3, <2>4
<1>3. QED
  BY <1>1, <1>2, InitKeyring, PTL DEF ScreenSpec

(* Every variable of the vault, its screen and the keyring keeps its kind. *)
THEOREM ScreenTypeCorrect == ScreenSpec => []ScreenTypeOK
<1>1. IInv /\ KInv => ScreenTypeOK
  BY DEF IInv, MemInv, KInv, KeyringTypeOK, ScreenTypeOK
<1>2. QED
  BY KeyringInvariant, <1>1, PTL

(* A remembered password opens the vault that is there, however many       *)
(* creations failed or were cut short before it was saved, whatever is     *)
(* saved, locked and restarted afterwards, and however often the form is   *)
(* submitted, unless a creation ran beside another one.                    *)
THEOREM RememberedPasswordOpens == ScreenSpec => []RememberedOpens
<1>1. KInv => RememberedOpens
  BY DEF KInv, KeyringFits, Fits, RememberedOpens
<1>2. QED
  BY KeyringInvariant, <1>1, PTL

-----------------------------------------------------------------------------
(* What the box shows.  What a submission of the screen shown saves is not *)
(* asked about any more: its screen makes way for HomeScreen.              *)
BoxFits ==
    screen = "vault" /\ ~misled =>
        (hasStored <=> keyring # NoKey) \/ \E w \in mine : saving[w] = "answered"
SavingReturned == \A w \in Workers : saving[w] # "no" => pc[w] = "returned"

BoxInv == BoxFits /\ SavingReturned

(* BoxInv is inductive. *)
LEMMA BoxStep ==
  ASSUME MemInv, KeyringTypeOK, BoxInv, [ScreenNext]_screenVars
  PROVE  BoxInv'
<1> USE DEF MemInv, TypeOK, KeyringTypeOK, BoxInv, BoxFits, SavingReturned
<1>1. CASE Tick \/ Untick
  BY <1>1 DEF Tick, Untick, vars
<1>2. ASSUME NEW of \in DOMAIN deletes, DeletePassword(of)
      PROVE  BoxInv'
  <2>1. UNCHANGED <<vars, saving>> /\ of \in {"shown", "left"}
    BY <1>2 DEF DeletePassword
  <2>2. CASE of = "shown"
    <3>1. UNCHANGED misled /\ ((~hasStored' /\ keyring' = NoKey) \/ UNCHANGED <<keyring, hasStored>>)
      BY <1>2, <2>2 DEF DeletePassword
    <3>2. QED
      BY <2>1, <3>1 DEF vars
  <2>3. CASE of = "left"
    <3>1. misled' <=> (misled \/ keyring' # keyring)
      BY Zenon, <1>2, <2>3 DEF DeletePassword, Misleads
    <3>2. hasStored' = hasStored
      BY <1>2, <2>3 DEF DeletePassword
    <3>3. QED
      BY <2>1, <3>1, <3>2 DEF vars
  <2>4. QED
    BY <2>1, <2>2, <2>3
<1>3. ASSUME NEW w \in Workers, BeginSave(w)
      PROVE  BoxInv'
  BY <1>3 DEF BeginSave, vars
<1>4. ASSUME NEW w \in Workers, SavePassword(w)
      PROVE  BoxInv'
  <2>1. /\ UNCHANGED <<vars, hasStored>> /\ saving[w] = "saving"
        /\ saving' = [saving EXCEPT ![w] = "answered"] /\ pc[w] = "returned"
    BY <1>4 DEF SavePassword
  <2>2. w \in mine \/ (misled' <=> (misled \/ keyring' # keyring))
    BY Zenon, <1>4 DEF SavePassword, Misleads
  <2>3. QED
    BY <2>1, <2>2 DEF vars
<1>5. ASSUME NEW w \in Workers, Continue(w)
      PROVE  BoxInv'
  <2>1. /\ UNCHANGED keyring /\ pc[w] \in Done
        /\ pc' = [pc EXCEPT ![w] = "idle"] /\ saving' = [saving EXCEPT ![w] = "no"]
    BY <1>5 DEF Continue, Deliver, Goto
  <2>2. SavingReturned'
    BY <2>1
  <2>3. CASE screen' = "home"
    BY <2>1, <2>2, <2>3
  <2>4. CASE screen' # "home"
    <3>1. screen' = screen /\ mine' = mine \ {w} /\ ~(pc[w] = "returned" /\ w \in mine)
      BY <1>5, <2>4 DEF Continue, Deliver, Replace
    <3>2. saving[w] = "no" \/ w \notin mine
      BY <3>1
    <3>3. misled' \/ UNCHANGED <<hasStored, misled>>
      <4>1. CASE w \in mine /\ call[w].op = "auto_unlock"
        BY <1>5, <3>1, <4>1 DEF Continue
      <4>2. CASE ~(w \in mine /\ call[w].op = "auto_unlock")
        BY Zenon, <1>5, <3>1, <4>2 DEF Continue
      <4>3. QED
        BY <4>1, <4>2
    <3>4. QED
      BY <2>1, <2>2, <3>1, <3>2, <3>3
  <2>5. QED
    BY <2>3, <2>4
<1>6. ASSUME NEW w \in Workers, Asked(w)
      PROVE  BoxInv'
  <2>1. /\ pc[w] = "idle" /\ UNCHANGED <<screen, keyringVars>> /\ mine \subseteq mine'
    BY <1>6, RequestFrame DEF Asked
  <2>2. \A v \in Workers \ {w} : pc'[v] = pc[v]
    <3>1. PICK first \in {"create_state", "load_read", "apply"} : pc' = [pc EXCEPT ![w] = first]
      BY <1>6, RequestFrame DEF Asked
    <3>2. QED
      BY <3>1
  <2>3. QED
    BY <2>1, <2>2 DEF keyringVars
<1>7. CASE NotFound
  <2>1. UNCHANGED <<screen, mine, pc, saving, keyring>>
    BY <1>7 DEF NotFound, AutoUnlockEnds
  <2>2. misled' \/ UNCHANGED <<hasStored, misled>>
    <3>1. auto \in {"pending", "orphan"}
      BY <1>7 DEF NotFound, AutoUnlockEnds
    <3>2. QED
      BY Zenon, <1>7, <3>1 DEF NotFound
  <2>3. QED
    BY <2>1, <2>2
<1>8. CASE Pressed
  BY <1>8 DEF Pressed, PressLock, keyringVars
<1>9. CASE Underway
  <2>1. /\ UNCHANGED <<screen, mine, keyringVars>>
        /\ \A w \in Workers : pc[w] = "returned" => pc'[w] = "returned"
    BY <1>9 DEF Underway, LockKey, WorkerStep, CreateState, CreateKey, ApplyChange,
                SaveState, SaveKey, OpenFile, WriteFile, LoadRead, LoadState, LoadKey, Goto
  <2>2. QED
    BY <2>1 DEF keyringVars
<1>10. CASE Locked \/ Started
  <2>1. UNCHANGED keyring /\ (misled' \/ (hasStored' <=> keyring # NoKey))
    BY Zenon, <1>10 DEF Locked, Started, AskKeyring
  <2>2. UNCHANGED <<pc, saving>> \/ saving' = [w \in Workers |-> "no"]
    BY <1>10 DEF Locked, Started, LockState
  <2>3. QED
    BY <2>1, <2>2
<1>11. CASE UNCHANGED screenVars
  BY <1>11 DEF screenVars, keyringVars, vars
<1>12. QED
  BY <1>1, <1>2, <1>3, <1>4, <1>5, <1>6, <1>7, <1>8, <1>9, <1>10, <1>11 DEF ScreenNext

(* The box knows of a stored credential, so unticking it deletes one       *)
(* (vault_screen.dart 82-87), however ticks, submissions and locks         *)
(* overlap: unless the keyring could not be read, the auto-unlock failed,  *)
(* or a former screen's saving or deletion came after this one had asked.  *)
THEOREM BoxKnowsKeyring == ScreenSpec => []BoxTellsKeyring
<1>1. ScreenInit => BoxInv
  BY DEF ScreenInit, Init, BoxInv, BoxFits, SavingReturned
<1>2. IInv /\ KInv /\ BoxInv /\ [ScreenNext]_screenVars => BoxInv'
  BY BoxStep DEF IInv, KInv
<1>3. IInv /\ BoxInv => BoxTellsKeyring
  BY DEF IInv, MemInv, TypeOK, BoxInv, BoxFits, SavingReturned, BoxTellsKeyring, Quiet
<1>4. QED
  BY <1>1, <1>2, <1>3, KeyringInvariant, PTL DEF ScreenSpec
=============================================================================
