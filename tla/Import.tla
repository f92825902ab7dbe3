-------------------------------- MODULE Import --------------------------------
(***************************************************************************)
(* The import of a mRemoteNG document: parse_mremoteng_xml (import.rs),    *)
(* import_mremoteng_xml (app.rs) with every call it makes on the vault,    *)
(* and the reload by which HomeScreen gets the result through the bridge.  *)
(* Here the vault is what it is in vault.rs, two vectors of whole records. *)
(*                                                                         *)
(* A document is its nodes in the order in which they begin, each with the *)
(* number of the node it is in, 0 at the top, and the attributes the       *)
(* parser reads, Null where one is missing; a port that is no numeral is   *)
(* Garbage, and a protocol is given in upper case, which is how it is      *)
(* compared.  UUIDs are numbers drawn in sequence.                         *)
(***************************************************************************)
EXTENDS Integers, SequencesExt, Codec

CONSTANTS
    Documents,  \* what the user may paste
    Forms,      \* the connections the user may add by hand: the form asks for
                \* no notes, and a passphrase is never kept
    None,       \* no import under way, no report, a locked vault
    MaxIds,     \* bound: UUIDs drawn
    MaxActs     \* bound: edits by hand, locks and restarts

(* A node comes after the one it is in, and what is between is in it too.  *)
InOrder(nodes) == \A i \in DOMAIN nodes :
    /\ nodes[i].parent \in 0..(i - 1)
    /\ \A j \in (nodes[i].parent + 1)..(i - 1) : nodes[j].parent >= nodes[i].parent

IsDocument(d) ==
    /\ d.wellFormed \in BOOLEAN
    /\ Len(d.nodes) \in Nat /\ DOMAIN d.nodes = 1..Len(d.nodes) /\ InOrder(d.nodes)
    /\ \A i \in DOMAIN d.nodes : LET n == d.nodes[i] IN
           {n.name, n.host, n.username, n.password, n.description} \subseteq Option(Texts)

Contents == [connections: Seq(Connection), folders: Seq(Folder)]

Jobs == [doc: Documents, folders: Seq(Folder), added: Nat,
         connections: Seq(Connection) \cup {None}, found: Nat]

Reports == [ok: {FALSE}, doc: Documents, shown: {FALSE}]
    \cup [ok: {TRUE}, doc: Documents, shown: BOOLEAN, connections: Nat, folders: Nat]

ASSUME ImportAssumption ==
    /\ MaxIds \in Nat /\ MaxActs \in Nat /\ 0..MaxIds \subseteq Uuids
    /\ {"", "Unnamed"} \subseteq Texts /\ Forms \subseteq Connection
    /\ \A f \in Forms : f.notes = Null /\ f.private_key_passphrase = Null
    /\ \A d \in Documents : IsDocument(d)
    /\ None \notin Nat /\ None \notin Contents /\ None \notin Jobs /\ None \notin Reports
    /\ None \notin Seq(Connection) /\ None \notin Option(Uuids)

VARIABLES
    vault,      \* [connections, folders], or None when locked
    disk,       \* the vault as last saved
    job,        \* the import under way
    report,     \* what import_mremoteng_xml returned
    screen,     \* the lists of HomeScreen
    ids,        \* the last UUID drawn
    acts,       \* how often the user did something else
    since       \* what the user did since the last document was parsed: "left"
                \* the HomeScreen it was pasted in, "reloaded" the vault while
                \* the import went on, "edited" what it had added by hand

vars == <<vault, disk, job, report, screen, ids, acts, since>>

EmptyVault == [connections |-> <<>>, folders |-> <<>>]

Init == /\ vault = EmptyVault /\ disk = EmptyVault /\ screen = EmptyVault
        /\ job = None /\ report = None /\ ids = 0 /\ acts = 0 /\ since = {}

-----------------------------------------------------------------------------
(* parse_mremoteng_xml                                                     *)
UnwrapOr(v, default) == IF v = Null THEN default ELSE v
NonEmpty(v) == IF v = "" THEN Null ELSE v

ParseProtocol(p) == CASE UnwrapOr(p, "SSH") = "RDP" -> "Rdp"
                      [] p = "VNC" -> "Vnc"
                      [] p = "HTTP" -> "Http"
                      [] p = "HTTPS" -> "Https"
                      [] OTHER -> "Ssh"

(* Mutant: the port is not checked against its width. *)
ParsePortAny(p) == IF p \in {Null, Garbage} THEN 22 ELSE p

ParsePort(p) == IF p \in 0..65535 THEN p ELSE 22

IsContainer(n) == n.type = "Container"
Name(n) == UnwrapOr(n.name, "Unnamed")

ToConnection(n, id, folder) ==
    [id |-> id, name |-> Name(n), protocol |-> ParseProtocol(n.protocol),
     host |-> UnwrapOr(n.host, ""), port |-> ParsePort(n.port),
     username |-> NonEmpty(n.username), password |-> NonEmpty(n.password),
     private_key_path |-> Null, private_key_passphrase |-> Null, folder_id |-> folder,
     tags |-> <<>>, notes |-> NonEmpty(n.description), jump_host_id |-> Null,
     timeout_seconds |-> 30, domain |-> Null]

(* One turn of the loop of parse_nodes, with what was found so far: the    *)
(* folders and connections, the UUIDs drawn, and of each container whose   *)
(* children are visited its folder.  Every other node is a connection, and *)
(* what is in that is not visited.                                         *)

(* Mutant: the children of a folder go where the folder itself goes. *)
VisitFlat(d, r, i) ==
    LET n == d.nodes[i]
        id == r.ids + 1
        parent == r.folder[n.parent]
    IN  IF parent = None THEN r
        ELSE IF IsContainer(n)
        THEN [r EXCEPT !.ids = id, !.folder[i] = parent, !.folders =
                 Append(@, [id |-> id, name |-> Name(n), parent_id |-> parent])]
        ELSE [r EXCEPT !.ids = id, !.connections = Append(@, ToConnection(n, id, parent))]

Visit(d, r, i) ==
    LET n == d.nodes[i]
        id == r.ids + 1
        parent == r.folder[n.parent]
    IN  IF parent = None THEN r
        ELSE IF IsContainer(n)
        THEN [r EXCEPT !.ids = id, !.folder[i] = id, !.folders =
                 Append(@, [id |-> id, name |-> Name(n), parent_id |-> parent])]
        ELSE [r EXCEPT !.ids = id, !.connections = Append(@, ToConnection(n, id, parent))]

NothingFound(d) ==
    [connections |-> <<>>, folders |-> <<>>, ids |-> ids,
     folder |-> [i \in 0..Len(d.nodes) |-> IF i = 0 THEN Null ELSE None]]

ParseDocument(d) ==
    Loop(LAMBDA r, i : Visit(d, r, i), NothingFound(d), Len(d.nodes))

-----------------------------------------------------------------------------
(* import_mremoteng_xml.  Each call on the vault is a critical section of  *)
(* its own, and finds the vault locked or not.                             *)
Fail(d) == /\ job' = None
           /\ report' = [ok |-> FALSE, doc |-> d, shown |-> FALSE]

Parse(d) ==
    /\ job = None /\ vault # None
    /\ LET parsed == ParseDocument(d) IN
       IF d.wellFormed
       THEN /\ parsed.ids + Len(parsed.connections) <= MaxIds
            /\ ids' = parsed.ids
            /\ job' = [doc |-> d, folders |-> parsed.folders, added |-> 0,
                       connections |-> parsed.connections, found |-> Len(parsed.folders)]
            /\ report' = None
       ELSE Fail(d) /\ UNCHANGED ids
    /\ since' = {}
    /\ UNCHANGED <<vault, disk, screen, acts>>

AddFolder ==
    /\ job # None /\ job.folders # <<>> /\ vault # None
    /\ vault' = [vault EXCEPT !.folders = Append(@, Head(job.folders))]
    /\ job' = [job EXCEPT !.folders = Tail(@)]
    /\ UNCHANGED <<disk, report, screen, ids, acts, since>>

SameEndpoint(c, d) == c.name = d.name /\ c.host = d.host /\ c.port = d.port

(* Mutant: duplicates are looked for in the vault as it was before. *)
KeepFirstOfVault(kept, c) ==
    IF \E e \in Range(vault.connections) : SameEndpoint(c, e)
    THEN kept
    ELSE [connections |-> Append(kept.connections, [c EXCEPT !.id = kept.ids + 1]),
          ids |-> kept.ids + 1]

KeepFirst(kept, c) ==
    IF \E e \in Range(kept.connections) : SameEndpoint(c, e)
    THEN kept
    ELSE [connections |-> Append(kept.connections, [c EXCEPT !.id = kept.ids + 1]),
          ids |-> kept.ids + 1]

KeepFirsts(batch) ==
    Loop(LAMBDA kept, i : KeepFirst(kept, batch[i]),
         [connections |-> vault.connections, ids |-> ids], Len(batch))

ImportConnections ==
    /\ job # None /\ job.folders = <<>> /\ job.connections # None /\ vault # None
    /\ LET kept == KeepFirsts(job.connections)
       IN  /\ vault' = [vault EXCEPT !.connections = kept.connections]
           /\ ids' = kept.ids
           /\ job' = [job EXCEPT !.connections = None, !.added = kept.ids - ids]
    /\ UNCHANGED <<disk, report, screen, acts, since>>

(* A save that fails may have torn the file.  Nothing can be loaded from a *)
(* torn file, and what there is left to do then is Vault's matter.         *)

(* Mutant: the error of a save is swallowed. *)
SaveUnasked ==
    /\ job # None /\ job.folders = <<>> /\ job.connections = None /\ vault # None
    /\ \/ disk' = vault
       \/ UNCHANGED disk
    /\ job' = None
    /\ report' = [ok |-> TRUE, doc |-> job.doc, shown |-> FALSE,
                  connections |-> job.added, folders |-> job.found]
    /\ UNCHANGED <<vault, screen, ids, acts, since>>

Save ==
    /\ job # None /\ job.folders = <<>> /\ job.connections = None /\ vault # None
    /\ \/ /\ disk' = vault
          /\ job' = None
          /\ report' = [ok |-> TRUE, doc |-> job.doc, shown |-> FALSE,
                        connections |-> job.added, folders |-> job.found]
       \/ UNCHANGED disk /\ Fail(job.doc)
    /\ UNCHANGED <<vault, screen, ids, acts, since>>

FindLocked ==
    /\ job # None /\ vault = None
    /\ Fail(job.doc)
    /\ UNCHANGED <<vault, disk, screen, ids, acts, since>>

-----------------------------------------------------------------------------
(* The rest of the app.  _loadConnections: two calls, and their answers on *)
(* their way through the bridge, for a HomeScreen that is there still.     *)
Lists(v) == [connections |-> DecodeConnections(EncodeConnections(v.connections)).val,
             folders |-> DecodeFolders(EncodeFolders(v.folders)).val]

OnImported ==
    /\ report # None /\ report.ok /\ ~report.shown /\ vault # None
    /\ "left" \notin since
    /\ screen' = Lists(vault)
    /\ report' = [report EXCEPT !.shown = TRUE]
    /\ UNCHANGED <<vault, disk, job, ids, acts, since>>

Act == acts < MaxActs /\ acts' = acts + 1

(* An edit by hand, saved and shown.  The dialog can be dismissed while it *)
(* imports: then the edit saves what the import has done so far.           *)
Edit(v) == /\ Act
           /\ vault' = v /\ disk' = v /\ screen' = Lists(v)
           /\ since' = IF job # None /\ job.connections = None
                       THEN since \cup {"edited"} ELSE since
           /\ report' = None /\ UNCHANGED job

Reserved == IF job # None /\ job.connections # None THEN Len(job.connections) ELSE 0

AddConnection == /\ vault # None /\ ids + Reserved < MaxIds /\ ids' = ids + 1
                 /\ \E f \in Forms : Edit([vault EXCEPT !.connections =
                                               Append(@, [f EXCEPT !.id = ids'])])

DeleteConnection == vault # None /\ \E i \in DOMAIN vault.connections :
    Edit([vault EXCEPT !.connections = RemoveAt(@, i)]) /\ UNCHANGED ids

(* Lock and Unlock may come at any time: between two calls of an import on *)
(* the vault, Unlock reads the file as it was before.  A restart reads it  *)
(* too.                                                                    *)
Lock == /\ Act /\ vault # None /\ vault' = None /\ screen' = EmptyVault
        /\ since' = since \cup {"left"}
        /\ UNCHANGED <<disk, job, report, ids>>

Unlock == /\ vault = None
          /\ vault' = disk /\ screen' = Lists(disk)
          /\ since' = IF job # None THEN since \cup {"reloaded"} ELSE since
          /\ UNCHANGED <<disk, job, report, ids, acts>>

Restart == /\ Act /\ vault' = None /\ screen' = EmptyVault /\ job' = None /\ report' = None
           /\ since' = {} /\ UNCHANGED <<disk, ids>>

-----------------------------------------------------------------------------
Next == \/ \E d \in Documents : Parse(d)
        \/ AddFolder \/ ImportConnections \/ Save \/ FindLocked
        \/ OnImported \/ AddConnection \/ DeleteConnection
        \/ Lock \/ Unlock \/ Restart

Spec == Init /\ [][Next]_vars

-----------------------------------------------------------------------------
(* What a document says, read without the parser: its folders, and the     *)
(* connections that are in folders alone.                                  *)
Below(d, m, n) == m < n /\ \A j \in (m + 1)..n : d.nodes[j].parent >= m
Reached(d) == {n \in DOMAIN d.nodes :
                  \A m \in DOMAIN d.nodes : Below(d, m, n) => IsContainer(d.nodes[m])}
Containers(d) == {n \in Reached(d) : IsContainer(d.nodes[n])}
Leaves(d) == Reached(d) \ Containers(d)

(* The connection or folder for a node, when the folders have these UUIDs. *)
Home(d, uuid, n) == IF d.nodes[n].parent = 0 THEN Null ELSE uuid[d.nodes[n].parent]
FolderFor(d, uuid, n) ==
    [id |-> uuid[n], name |-> Name(d.nodes[n]), parent_id |-> Home(d, uuid, n)]
IsFor(c, d, uuid, n) == c = ToConnection(d.nodes[n], c.id, Home(d, uuid, n))

Injective(f) == \A m, n \in DOMAIN f : f[m] = f[n] => m = n
UniqueIds(folders) == \A i, j \in DOMAIN folders : folders[i].id = folders[j].id => i = j

(* Every variable holds a value of its kind. *)
TypeOK ==
    /\ vault \in Contents \cup {None} /\ disk \in Contents /\ screen \in Contents
    /\ job \in Jobs \cup {None} /\ report \in Reports \cup {None}
    /\ ids \in 0..MaxIds /\ acts \in 0..MaxActs
    /\ since \subseteq {"left", "reloaded", "edited"}

(* When HomeScreen has reloaded after an import that was reported, it has  *)
(* a folder for each of the document, inside the one for the folder that   *)
(* is in, and each connection added is that of the document, attribute for *)
(* attribute, in the folder for its own; no two folders on the screen are  *)
(* confused, and each connection that the document has is shown somewhere. *)
(* What the user did beside the import has taken no folder away; only what *)
(* was added or deleted by hand between the import of the connections and  *)
(* the save is not what the document says.                                 *)
Imported(v) == {v.connections[i] : i \in
    (Len(v.connections) - report.connections + 1)..Len(v.connections)}
Endpoints(v, d) == \A n \in Leaves(d) : \E i \in DOMAIN v.connections :
    SameEndpoint(v.connections[i], ToConnection(d.nodes[n], 0, Null))
TreeKept == report # None /\ report.ok /\ report.shown /\ screen # EmptyVault =>
    /\ \E uuid \in [Containers(report.doc) -> {f.id : f \in Range(screen.folders)}] :
        /\ Injective(uuid)
        /\ \A n \in Containers(report.doc) :
               FolderFor(report.doc, uuid, n) \in Range(screen.folders)
        /\ "edited" \notin since =>
               \A c \in Imported(screen) : \E n \in Leaves(report.doc) :
                   IsFor(c, report.doc, uuid, n)
    /\ "edited" \notin since => Endpoints(screen, report.doc)
    /\ UniqueIds(screen.folders)

(* "Duplicates (same name+host+port) are skipped" (app.rs): no step adds a *)
(* connection whose like the vault holds, be it from the same document, an *)
(* import that failed half-way or the user's hand; edits by hand excepted. *)
NoneTwice == [][job # None /\ acts' = acts /\ vault # None /\ vault' # None =>
    \A i \in (Len(vault.connections) + 1)..Len(vault'.connections),
       j \in DOMAIN vault'.connections :
           SameEndpoint(vault'.connections[i], vault'.connections[j]) => i = j]_vars

(* What an import reports is on the disk: as many folders as it says, and, *)
(* when none was deleted by hand before the save, as many connections and  *)
(* all that the document names, whatever failed before and was edited or   *)
(* locked beside it.  The one way out: when the vault is locked and opened *)
(* again between two calls of the import, what it had added is gone from   *)
(* memory, and it reports it all the same.                                 *)
ReportedIsStored == report # None /\ report.ok /\ "reloaded" \notin since =>
    /\ report.folders <= Len(disk.folders)
    /\ "edited" \notin since => /\ report.connections <= Len(disk.connections)
                                /\ Endpoints(disk, report.doc)
=============================================================================
