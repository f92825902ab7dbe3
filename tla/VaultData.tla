------------------------------ MODULE VaultData ------------------------------
(***************************************************************************)
(* The decrypted contents of a KRemote vault (`VaultData` in models.rs)    *)
(* and what each operation of vault.rs does to them.                       *)
(*                                                                         *)
(* The two vectors are modelled as functions from the ids to the record    *)
(* stored under that id: ids are random UUIDs, so no two records share     *)
(* one, and no operation depends on the order of the vectors.  Of a        *)
(* connection we keep its endpoint (name, host and port together, what     *)
(* import compares), its folder and its jump host; of a folder its parent. *)
(***************************************************************************)
EXTENDS Naturals, Sequences

CONSTANTS
    ConnIds,    \* the UUIDs a connection may get
    FolderIds,  \* the UUIDs a folder may get
    Endpoints,  \* the (name, host, port) triples
    Root,       \* folder_id / parent_id = None
    NoJump,     \* jump_host_id = None
    NoConn,     \* "no connection has this id"
    NoFolder    \* "no folder has this id"

Folders == FolderIds \cup {Root}
ConnRecs == [endpoint: Endpoints, folder: Folders, jump: ConnIds \cup {NoJump}]

ASSUME DataAssumption ==
    /\ Root \notin FolderIds
    /\ NoJump \notin ConnIds
    /\ NoConn \notin ConnRecs
    /\ NoFolder \notin Folders

VaultDatas == [conns: [ConnIds -> ConnRecs \cup {NoConn}],
               folders: [FolderIds -> Folders \cup {NoFolder}]]

(* VaultData::default(): the contents of a vault just created. *)
EmptyData == [conns |-> [c \in ConnIds |-> NoConn],
              folders |-> [f \in FolderIds |-> NoFolder]]

HasConn(d, c) == d.conns[c] # NoConn
HasFolder(d, f) == d.folders[f] # NoFolder
Conns(d) == {c \in ConnIds : HasConn(d, c)}

(* `connections.push` of add_connection, the overwrite of update_connection. *)
PutConn(d, c, r) == [d EXCEPT !.conns[c] = r]
RemoveConn(d, c) == [d EXCEPT !.conns[c] = NoConn]

(* `folders.push` of add_folder, the overwrite of update_folder. *)
PutFolder(d, f, p) == [d EXCEPT !.folders[f] = p]

(* delete_folder: the connections directly in f go to the root; a folder   *)
(* whose parent is f keeps that parent.                                    *)
RemoveFolder(d, f) ==
    [conns |-> [c \in ConnIds |->
                    IF HasConn(d, c) /\ d.conns[c].folder = f
                    THEN [d.conns[c] EXCEPT !.folder = Root]
                    ELSE d.conns[c]],
     folders |-> [d.folders EXCEPT ![f] = NoFolder]]

(* import_connections takes the connections of `batch` in order and skips  *)
(* one whose endpoint the vault already holds, from before or from earlier *)
(* in the batch.  An element is the fresh id and the record to store.      *)
Kept(d, batch, i) ==
    /\ \A c \in Conns(d) : d.conns[c].endpoint # batch[i].rec.endpoint
    /\ \A j \in 1..(i - 1) : batch[j].rec.endpoint # batch[i].rec.endpoint

ImportConns(d, batch) ==
    LET Source(c) == {i \in 1..Len(batch) : batch[i].id = c /\ Kept(d, batch, i)}
    IN  [d EXCEPT !.conns =
            [c \in ConnIds |-> IF Source(c) = {} THEN d.conns[c]
                               ELSE batch[CHOOSE i \in Source(c) : TRUE].rec]]

-----------------------------------------------------------------------------
(* A change is one critical section of vault.rs: the method and its        *)
(* arguments.  Every method first finds the record it replaces or removes. *)
Batches == Seq([id: ConnIds, rec: ConnRecs])

Changes ==
         [op: {"add_connection", "update_connection"}, conn: ConnIds, rec: ConnRecs]
    \cup [op: {"delete_connection"}, conn: ConnIds]
    \cup [op: {"add_folder", "update_folder"}, folder: FolderIds, parent: Folders]
    \cup [op: {"delete_folder"}, folder: FolderIds]
    \cup [op: {"import_connections"}, batch: Batches]

(* Mutant: an update of a connection that is gone adds it again. *)
ApplicableUpsert(d, ch) ==
    CASE ch.op = "delete_connection" -> HasConn(d, ch.conn)
      [] ch.op \in {"update_folder", "delete_folder"} -> HasFolder(d, ch.folder)
      [] OTHER -> TRUE

(* The method finds what it needs; otherwise it returns "... not found".   *)
Applicable(d, ch) ==
    CASE ch.op \in {"update_connection", "delete_connection"} -> HasConn(d, ch.conn)
      [] ch.op \in {"update_folder", "delete_folder"} -> HasFolder(d, ch.folder)
      [] OTHER -> TRUE

Apply(d, ch) ==
    CASE ch.op \in {"add_connection", "update_connection"} -> PutConn(d, ch.conn, ch.rec)
      [] ch.op = "delete_connection" -> RemoveConn(d, ch.conn)
      [] ch.op \in {"add_folder", "update_folder"} -> PutFolder(d, ch.folder, ch.parent)
      [] ch.op = "delete_folder" -> RemoveFolder(d, ch.folder)
      [] ch.op = "import_connections" -> ImportConns(d, ch.batch)
=============================================================================
