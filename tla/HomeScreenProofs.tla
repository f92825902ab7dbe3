-------------------------- MODULE HomeScreenProofs ---------------------------
(***************************************************************************)
(* Theorems about HomeScreen for any number of connections, folders, calls *)
(* in flight, reloads and documents, whatever the user does.               *)
(***************************************************************************)
EXTENDS HomeScreen, FiniteSetTheorems, TLAPS

(* Each change of the vault's contents keeps them well formed, and when a  *)
(* folder is deleted its connections stay.                                 *)
LEMMA ApplyType ==
  ASSUME NEW d \in VaultDatas, NEW ch \in Changes
  PROVE  Apply(d, ch) \in VaultDatas
<1>1. CASE ch \in [op: {"add_connection", "update_connection"}, conn: ConnIds, rec: ConnRecs]
  BY <1>1 DEF Apply, PutConn, VaultDatas
<1>2. CASE ch \in [op: {"delete_connection"}, conn: ConnIds]
  BY <1>2 DEF Apply, RemoveConn, VaultDatas
<1>3. CASE ch \in [op: {"add_folder", "update_folder"}, folder: FolderIds, parent: Folders]
  BY <1>3 DEF Apply, PutFolder, VaultDatas
<1>4. CASE ch \in [op: {"delete_folder"}, folder: FolderIds]
  <2>1. ASSUME NEW c \in ConnIds, HasConn(d, c)
        PROVE  [d.conns[c] EXCEPT !.folder = Root] \in ConnRecs
    BY <2>1 DEF HasConn, VaultDatas, ConnRecs, Folders
  <2>2. QED
    BY <1>4, <2>1 DEF Apply, RemoveFolder, VaultDatas
<1>5. CASE ch \in [op: {"import_connections"}, batch: Batches]
  <2> DEFINE Source(c) == {i \in 1..Len(ch.batch) : ch.batch[i].id = c /\ Kept(d, ch.batch, i)}
             new == [c \in ConnIds |-> IF Source(c) = {} THEN d.conns[c]
                                       ELSE ch.batch[CHOOSE i \in Source(c) : TRUE].rec]
             Elements == [id: ConnIds, rec: ConnRecs]
  <2>1. \A i \in 1..Len(ch.batch) : ch.batch[i] \in Elements
    <3> HIDE DEF Elements
    <3>1. ch.batch \in Seq(Elements)
      BY <1>5 DEF Batches, Elements
    <3>2. QED
      BY <3>1
  <2>2. ASSUME NEW c \in ConnIds, Source(c) # {}
        PROVE  ch.batch[CHOOSE i \in Source(c) : TRUE].rec \in ConnRecs
    <3>1. (CHOOSE i \in Source(c) : TRUE) \in 1..Len(ch.batch)
      BY <2>2
    <3>2. QED
      BY <2>1, <3>1
  <2>3. new \in [ConnIds -> ConnRecs \cup {NoConn}]
    BY <2>2 DEF VaultDatas
  <2>4. Apply(d, ch) = [d EXCEPT !.conns = new]
    BY <1>5 DEF Apply, ImportConns
  <2> HIDE DEF new
  <2>5. QED
    BY <2>3, <2>4 DEF VaultDatas
<1>6. QED
  BY <1>1, <1>2, <1>3, <1>4, <1>5 DEF Changes

LEMMA FolderDeleted ==
  ASSUME NEW d \in VaultDatas, NEW f \in FolderIds
  PROVE  Conns(RemoveFolder(d, f)) = Conns(d)
<1> DEFINE e == RemoveFolder(d, f)
<1>1. ASSUME NEW c \in ConnIds
      PROVE  e.conns[c] = IF HasConn(d, c) /\ d.conns[c].folder = f
                          THEN [d.conns[c] EXCEPT !.folder = Root] ELSE d.conns[c]
  BY DEF RemoveFolder
<1> HIDE DEF e
<1>2. ASSUME NEW c \in ConnIds, HasConn(d, c)
      PROVE  /\ d.conns[c] \in ConnRecs
             /\ [d.conns[c] EXCEPT !.folder = Root] \in ConnRecs
  BY <1>2 DEF HasConn, VaultDatas, ConnRecs, Folders
<1>3. ASSUME NEW c \in ConnIds
      PROVE  HasConn(e, c) <=> HasConn(d, c)
  BY <1>1, <1>2, <1>3, DataAssumption DEF HasConn
<1>4. QED
  BY <1>3 DEF Conns, e

(* What an edit in flight, a run of _loadConnections and the screen above  *)
(* HomeScreen are made of.                                                 *)
Tops == [at: {"home", "detail", "folders", "import"}, conn: ConnIds \cup {Nothing},
         folder: Folders, offered: SUBSET FolderIds, ready: BOOLEAN, busy: BOOLEAN]
Calls == [from: {"home", "detail", "folders", "import"},
          step: {"idle", "apply", "save", "returned", "failed"},
          changes: Seq(Changes), applied: Nat, mounted: BOOLEAN]
ConnLists == [ConnIds -> ConnRecs \cup {NoConn}]
FolderLists == [FolderIds -> Folders \cup {NoFolder}]
Reloads == [step: {"unused", "conns", "folders", "answer"},
            conns: ConnLists, folders: FolderLists]

Types ==
    /\ data \in VaultDatas
    /\ conns \in ConnLists /\ folders \in FolderLists
    /\ loading \in BOOLEAN /\ missed \in BOOLEAN
    /\ top \in Tops /\ calls \in [Slots -> Calls] /\ loads \in [Loads -> Reloads]
    /\ started \in Nat /\ shownBy \in 0..started /\ acts \in 0..MaxActs
    /\ used \subseteq ConnIds \cup FolderIds

(* An edit makes its changes in order and saves after the last.            *)
InOrder ==
    \A s \in Slots : /\ calls[s].applied <= Len(calls[s].changes)
                     /\ calls[s].step = "apply" => calls[s].applied < Len(calls[s].changes)
                     /\ calls[s].step = "idle" <=> calls[s] = NoCall

(* Each reload that was begun, and each that an edit in flight may still   *)
(* begin, was asked for by an act of the user.                             *)
InFlight == {s \in Slots : calls[s] # NoCall}
Budget == /\ started + Cardinality(InFlight) <= acts
          /\ \A n \in Loads : loads[n].step # "unused" => n <= started

(* A form is busy only while the call it made is in flight.                *)
Waits == top.busy => /\ top.at \in {"detail", "import"}
                     /\ \E s \in Slots : calls[s].from = top.at /\ calls[s].mounted

(* The changes that the edits in flight have still to make.                *)
Pending(s) == {k \in 1..Len(calls[s].changes) :
                   calls[s].step = "apply" /\ calls[s].applied < k}

(* A connection still to be added is under a UUID of its own, which is     *)
(* that of no connection stored or deleted.                                *)
Fresh ==
    /\ deleted \cup Conns(data) \subseteq used
    /\ deleted \cap Conns(data) = {}
    /\ \A s \in Slots : \A k \in Pending(s) :
          /\ Added(calls[s].changes[k]) \subseteq used \ (deleted \cup Conns(data))
          /\ \A t \in Slots : \A l \in Pending(t) : <<s, k>> # <<t, l>> =>
                Added(calls[s].changes[k]) \cap Added(calls[t].changes[l]) = {}

(* While every edit that changed the vault was followed by a reload, the   *)
(* latest one has read what the vault holds now.                           *)
Unchanged == ~missed /\ \A s \in Slots : calls[s].applied = 0
Current ==
    Unchanged =>
        /\ loads[started].step \in {"folders", "answer"} => loads[started].conns = data.conns
        /\ loads[started].step = "answer" => loads[started].folders = data.folders
        /\ loads[started].step = "unused" /\ shownBy = started =>
               conns = data.conns /\ folders = data.folders

IInv == Types /\ InOrder /\ Budget /\ Waits /\ Fresh /\ Current

-----------------------------------------------------------------------------
(* What the edits of the user have in common: a call with UUIDs of its own,*)
(* and, from a form, the spinner.                                          *)
Edit(s) == \/ DeleteConnection(s) \/ CloneConnection(s) \/ Save(s)
           \/ AddFolder(s) \/ DeleteFolder(s) \/ ImportXml(s)

Asked(s, changes, fresh) ==
    /\ changes \in Seq(Changes) /\ Len(changes) > 0
    /\ fresh \subseteq ConnIds \cup FolderIds /\ DrawnFor(changes, fresh)
    /\ Issue(s, changes, fresh) /\ UNCHANGED loadVars
    /\ \/ top' = top
       \/ top' = [top EXCEPT !.busy = TRUE] /\ top.at \in {"detail", "import"}

(* ... and what their continuations have in common.                        *)
Ended(s) ==
    /\ calls[s].step \in {"returned", "failed"}
    /\ calls' = [calls EXCEPT ![s] = NoCall]
    /\ UNCHANGED <<data, conns, folders, loading, used, acts, deleted>>
    /\ BeginLoad \/ NoReload(s)
    /\ top' \in {top, HomeOnly, Idle(top)}
    /\ top'.busy => top' = top /\ ~(calls[s].from = top.at /\ calls[s].mounted)

USE HomeAssumption, DataAssumption DEF screenVars, loadVars

(* An edit of one change, with the UUID it adds if it adds one.            *)
LEMMA AskOne ==
  ASSUME NEW s \in Slots, NEW x \in Changes,
         NEW ids \in SUBSET (ConnIds \cup FolderIds), Added(x) \subseteq ids,
         Issue(s, <<x>>, ids), UNCHANGED loadVars,
         \/ top' = top
         \/ top' = [top EXCEPT !.busy = TRUE] /\ top.at \in {"detail", "import"}
  PROVE  \E changes, fresh : Asked(s, changes, fresh)
<1> DEFINE one == <<x>>
<1>1. Len(one) = 1 /\ one[1] = x /\ one \in Seq(Changes) /\ Issue(s, one, ids)
  OBVIOUS
<1> HIDE DEF one
<1>2. \A k \in 1..Len(one) : k = 1
  BY <1>1
<1>3. Asked(s, one, ids)
  BY <1>1, <1>2 DEF DrawnFor, Asked
<1>4. QED
  BY <1>3

(* A card is that of a connection in the list shown.                       *)
LEMMA CardsAreListed ==
  ASSUME Types, NEW c \in Cards
  PROVE  c \in ConnIds /\ conns[c] \in ConnRecs
  BY DEF Types, Cards, Drawn, Conns, HasConn, ConnLists

(* Every edit asks for well formed changes, in UUIDs drawn for it.         *)
LEMMA EditAsks ==
  ASSUME Types, NEW s \in Slots, Edit(s)
  PROVE  \E changes, fresh : Asked(s, changes, fresh)
<1>1. CASE DeleteConnection(s)
  <2>1. PICK c \in Cards : Issue(s, <<[op |-> "delete_connection", conn |-> c]>>, {})
                           /\ UNCHANGED <<top, loadVars>>
    BY <1>1 DEF DeleteConnection
  <2> DEFINE x == [op |-> "delete_connection", conn |-> c]
  <2>2. x \in Changes /\ Added(x) = {}
    BY CardsAreListed DEF Changes, Added
  <2> QED
    BY <2>1, <2>2, AskOne
<1>2. CASE CloneConnection(s)
  <2>1. PICK c \in Cards, d \in ConnIds, e \in Endpoints :
            /\ Issue(s, <<[op |-> "add_connection", conn |-> d,
                           rec |-> [conns[c] EXCEPT !.endpoint = e]]>>, {d})
            /\ UNCHANGED <<top, loadVars>>
    BY <1>2 DEF CloneConnection
  <2> DEFINE r == [conns[c] EXCEPT !.endpoint = e]
  <2> DEFINE x == [op |-> "add_connection", conn |-> d, rec |-> r]
  <2>2. r \in ConnRecs
    BY CardsAreListed DEF ConnRecs
  <2>3. x \in Changes /\ Added(x) = {d}
    BY <2>2 DEF Changes, Added
  <2> QED
    BY <2>1, <2>3, AskOne
<1>3. CASE Save(s)
  <2>1. PICK f \in top.offered \cup {Root, top.folder}, e \in Typed :
            /\ top.at = "detail"
            /\ LET r == [endpoint |-> e, folder |-> f, jump |-> NoJump] IN
               IF top.conn = Nothing
               THEN \E c \in ConnIds :
                        Issue(s, <<[op |-> "add_connection", conn |-> c, rec |-> r]>>, {c})
               ELSE Issue(s, <<[op |-> "update_connection", conn |-> top.conn, rec |-> r]>>, {})
            /\ top' = [top EXCEPT !.busy = TRUE] /\ UNCHANGED loadVars
    BY <1>3 DEF Save
  <2> DEFINE r == [endpoint |-> e, folder |-> f, jump |-> NoJump]
  <2>2. r \in ConnRecs
    BY DEF ConnRecs, Types, Tops, Folders
  <2>3. CASE top.conn = Nothing
    <3>1. PICK c \in ConnIds :
              Issue(s, <<[op |-> "add_connection", conn |-> c, rec |-> r]>>, {c})
      BY <2>1, <2>3
    <3> DEFINE x == [op |-> "add_connection", conn |-> c, rec |-> r]
    <3>2. x \in Changes /\ Added(x) = {c}
      BY <2>2 DEF Changes, Added
    <3> QED
      BY <2>1, <3>1, <3>2, AskOne
  <2>4. CASE top.conn # Nothing
    <3> DEFINE x == [op |-> "update_connection", conn |-> top.conn, rec |-> r]
    <3>1. x \in Changes /\ Added(x) = {}
      BY <2>2, <2>4 DEF Changes, Added, Types, Tops
    <3> QED
      BY <2>1, <2>4, <3>1, AskOne
  <2> QED
    BY <2>3, <2>4
<1>4. CASE AddFolder(s)
  <2>1. PICK f \in FolderIds, p \in top.offered \cup {Root} :
            /\ Issue(s, <<[op |-> "add_folder", folder |-> f, parent |-> p]>>, {f})
            /\ UNCHANGED <<top, loadVars>>
    BY <1>4 DEF AddFolder
  <2> DEFINE x == [op |-> "add_folder", folder |-> f, parent |-> p]
  <2>2. x \in Changes /\ Added(x) = {}
    BY DEF Changes, Added, Types, Tops, Folders
  <2> QED
    BY <2>1, <2>2, AskOne
<1>5. CASE DeleteFolder(s)
  <2>1. PICK f \in top.offered : Issue(s, <<[op |-> "delete_folder", folder |-> f]>>, {})
                                 /\ UNCHANGED <<top, loadVars>>
    BY <1>5 DEF DeleteFolder
  <2> DEFINE x == [op |-> "delete_folder", folder |-> f]
  <2>2. x \in Changes /\ Added(x) = {}
    BY DEF Changes, Added, Types, Tops
  <2> QED
    BY <2>1, <2>2, AskOne
<1>6. CASE ImportXml(s)
  BY <1>6 DEF ImportXml, Asked
<1>7. QED
  BY <1>1, <1>2, <1>3, <1>4, <1>5, <1>6 DEF Edit

(* Every continuation ends its call, and the spinner of the form shown if  *)
(* that form waited for it.                                                *)
LEMMA ContinueEnds ==
  ASSUME Types, Waits, NEW s \in Slots, Continue(s)
  PROVE  Ended(s)
<1> USE DEF Await, Types, Tops, Waits, Idle, HomeOnly, Ended
<1>1. CASE ConnectionDone(s)
  BY <1>1 DEF ConnectionDone
<1>2. CASE SaveDone(s)
  BY <1>2 DEF SaveDone
<1>3. CASE FolderDone(s)
  BY <1>3 DEF FolderDone
<1>4. CASE ImportDone(s)
  BY <1>4 DEF ImportDone
<1>5. QED
  BY <1>1, <1>2, <1>3, <1>4 DEF Continue

-----------------------------------------------------------------------------
LEMMA NoCallType == NoCall \in Calls /\ NoCall.applied = 0 /\ Len(NoCall.changes) = 0
  BY DEF NoCall, Calls

LEMMA TopTypes ==
  /\ HomeOnly \in Tops
  /\ \A t \in Tops : Idle(t) \in Tops
  /\ \A at \in {"detail", "folders", "import"}, c \in ConnIds \cup {Nothing},
        f \in Folders, ids \in SUBSET FolderIds : Open(at, c, f, ids) \in Tops
<1>1. HomeOnly \in Tops
  BY DEF HomeOnly, Tops, Folders
<1>2. QED
  BY <1>1 DEF Tops, Idle, Open

(* A screen or dialog that opens, and HomeScreen itself, wait for nothing. *)
LEMMA OpenedIdle ==
  /\ ~HomeOnly.busy
  /\ \A at, c, f, ids : ~Open(at, c, f, ids).busy
  BY DEF HomeOnly, Open

LEMMA NoLoadType == NoLoad \in Reloads
  BY DEF NoLoad, Reloads, EmptyData, ConnLists, FolderLists

(* The initial state satisfies the invariant.                              *)
LEMMA InitInv == Init => IInv
<1> SUFFICES ASSUME Init PROVE IInv
  OBVIOUS
<1> USE DEF Init
<1>1. Types
  <2>1. data \in VaultDatas
    BY DEF EmptyData, VaultDatas
  <2>2. conns \in ConnLists /\ folders \in FolderLists
    BY DEF EmptyData, ConnLists, FolderLists
  <2>3. top \in Tops
    BY DEF HomeOnly, Tops, Folders
  <2>4. calls \in [Slots -> Calls] /\ loads \in [Loads -> Reloads]
    BY NoCallType, NoLoadType DEF Reloads
  <2>5. loading \in BOOLEAN /\ missed \in BOOLEAN
    BY Zenon
  <2>6. started \in Nat /\ shownBy \in 0..started /\ acts \in 0..MaxActs /\ used = {}
    OBVIOUS
  <2>7. QED
    BY <2>1, <2>2, <2>3, <2>4, <2>5, <2>6, Zenon DEF Types
<1>2. InOrder
  BY NoCallType DEF InOrder, NoCall
<1>3. Budget
  <2>1. InFlight = {}
    BY DEF InFlight
  <2>2. Cardinality(InFlight) = 0
    BY <2>1, FS_EmptySet
  <2>3. QED
    BY <2>2 DEF Budget, NoLoad, Loads
<1>4. Waits
  BY DEF Waits, HomeOnly
<1>5. Fresh
  <2>1. Conns(data) = {}
    BY DEF Conns, HasConn, EmptyData
  <2>2. \A s \in Slots : Pending(s) = {}
    BY NoCallType DEF Pending
  <2>3. QED
    BY <2>1, <2>2 DEF Fresh
<1>6. Current
  BY DEF Current, Loads, NoLoad
<1>7. QED
  BY <1>1, <1>2, <1>3, <1>4, <1>5, <1>6 DEF IInv

(* The steps that are not edits, nor continuations of edits.               *)
Looks == OpenDetail \/ OfferFolders \/ OpenDialog
Reads(n) == ReadConns(n) \/ ReadFolders(n)

(* Beginning a reload for which there is a number left.                    *)
LEMMA BeginLoadType ==
  ASSUME Types, BeginLoad, started + 1 \in Loads
  PROVE  /\ loads' \in [Loads -> Reloads] /\ started' \in Nat
         /\ missed' = FALSE /\ shownBy' \in 0..started'
         /\ loads' = [loads EXCEPT ![started + 1] = [loads[started + 1] EXCEPT !.step = "conns"]]
<1>1. loads' = [loads EXCEPT ![started + 1] = [loads[started + 1] EXCEPT !.step = "conns"]]
  BY DEF BeginLoad
<1>2. [loads[started + 1] EXCEPT !.step = "conns"] \in Reloads
  BY DEF Types, Reloads
<1>3. QED
  BY <1>1, <1>2 DEF BeginLoad, Types

(* A reload that was asked for has a number left.                          *)
LEMMA InFlightCounts ==
  ASSUME Types, Budget
  PROVE  /\ IsFiniteSet(InFlight) /\ Cardinality(InFlight) \in Nat
         /\ InFlight # {} => started + 1 \in Loads
         /\ acts < MaxActs => started + 1 \in Loads
         /\ started \in Loads
<1>1. IsFiniteSet(InFlight)
  BY FS_Subset DEF InFlight
<1>2. Cardinality(InFlight) \in Nat
  BY <1>1, FS_CardinalityType
<1>3. InFlight # {} => Cardinality(InFlight) # 0
  BY <1>1, FS_EmptySet
<1>4. QED
  BY <1>1, <1>2, <1>3 DEF Types, Budget, Loads

(* Making a change moves the call that makes it, and no other.             *)
LEMMA ApplyMoves ==
  ASSUME Types, NEW s \in Slots, ApplyChange(s)
  PROVE  \E new \in Calls :
            /\ calls' = [calls EXCEPT ![s] = new]
            /\ new.from = calls[s].from /\ new.changes = calls[s].changes
            /\ new.mounted = calls[s].mounted
            /\ \/ /\ Applicable(data, calls[s].changes[calls[s].applied + 1])
                  /\ new.applied = calls[s].applied + 1
                  /\ new.step = IF new.applied = Len(new.changes) THEN "save" ELSE "apply"
               \/ /\ ~Applicable(data, calls[s].changes[calls[s].applied + 1])
                  /\ data' = data
                  /\ new.applied = calls[s].applied /\ new.step = "failed"
<1> DEFINE Going(step) == [calls[s] EXCEPT !.applied = @ + 1, !.step = step]
<1> DEFINE stuck == [calls[s] EXCEPT !.step = "failed"]
<1>1. calls[s] \in Calls
  BY DEF Types
<1>2. CASE Applicable(data, calls[s].changes[calls[s].applied + 1])
  <2>1. PICK step \in {"save", "apply"} :
            /\ step = IF calls[s].applied + 1 = Len(calls[s].changes) THEN "save" ELSE "apply"
            /\ calls' = [calls EXCEPT ![s] = Going(step)]
    <3>1. CASE calls[s].applied + 1 = Len(calls[s].changes)
      BY <1>2, <3>1 DEF ApplyChange, Types
    <3>2. CASE calls[s].applied + 1 # Len(calls[s].changes)
      BY <1>2, <3>2 DEF ApplyChange, Types
    <3>3. QED
      BY <3>1, <3>2
  <2>2. Going(step) \in Calls
    <3>1. [calls[s] EXCEPT !.applied = @ + 1] \in Calls
      BY <1>1 DEF Calls
    <3>2. \A c \in Calls : [c EXCEPT !.step = step] \in Calls
      BY DEF Calls
    <3>3. Going(step) = [[calls[s] EXCEPT !.applied = @ + 1] EXCEPT !.step = step]
      BY <1>1 DEF Calls
    <3> QED
      BY <3>1, <3>2, <3>3
  <2>3. /\ Going(step).applied = calls[s].applied + 1 /\ Going(step).step = step
        /\ Going(step).from = calls[s].from /\ Going(step).changes = calls[s].changes
        /\ Going(step).mounted = calls[s].mounted
    BY <1>1 DEF Calls
  <2> HIDE DEF Going
  <2>4. QED
    BY <1>2, <2>1, <2>2, <2>3
<1>3. CASE ~Applicable(data, calls[s].changes[calls[s].applied + 1])
  <2>1. calls' = [calls EXCEPT ![s] = stuck] /\ data' = data
    BY <1>3 DEF ApplyChange, Types
  <2>2. stuck \in Calls
    BY <1>1 DEF Calls
  <2>3. QED
    BY <1>1, <1>3, <2>1, <2>2 DEF Calls
<1>4. QED
  BY <1>2, <1>3

(* Every step keeps every variable well formed.                            *)
LEMMA TypesKept ==
  ASSUME Types, InOrder, Budget, Waits, [Next]_vars
  PROVE  Types'
<1>1. CASE Looks
  <2>1. top' \in Tops
    <3>1. \A c \in Cards : conns[c].folder \in Folders /\ c \in ConnIds
      BY CardsAreListed DEF ConnRecs
    <3>2. Root \in Folders /\ \A l : Listing(l) \in SUBSET FolderIds
      BY DEF Folders, Listing
    <3>3. CASE OpenDetail
      BY <3>1, <3>2, <3>3, TopTypes DEF OpenDetail
    <3>4. CASE OfferFolders
      BY <3>2, <3>4 DEF OfferFolders, Types, Tops
    <3>5. CASE OpenDialog
      BY <3>2, <3>5, TopTypes DEF OpenDialog
    <3>6. QED
      BY <1>1, <3>3, <3>4, <3>5 DEF Looks
  <2>2. QED
    BY <1>1, <2>1 DEF Looks, OpenDetail, OfferFolders, OpenDialog, Types
<1>2. CASE CloseTop
  <2>1. top' \in Tops
    BY <1>2, TopTypes DEF CloseTop
  <2>2. \A s \in Slots : [calls[s] EXCEPT !.mounted = FALSE] \in Calls
    BY DEF Types, Calls
  <2>3. calls' \in [Slots -> Calls]
    BY <1>2, <2>2 DEF CloseTop, Types
  <2>4. QED
    BY <1>2, <2>1, <2>3 DEF CloseTop, Types
<1>3. CASE Refresh
  <2>1. BeginLoad /\ started + 1 \in Loads
    BY <1>3, InFlightCounts DEF Refresh
  <2>2. missed' \in BOOLEAN
    BY <2>1, BeginLoadType
  <2>3. acts' \in 0..MaxActs
    BY <1>3 DEF Refresh, Types
  <2>4. loads' \in [Loads -> Reloads] /\ started' \in Nat /\ shownBy' \in 0..started'
    BY <2>1, BeginLoadType
  <2>5. QED
    BY <1>3, <2>2, <2>3, <2>4, Zenon DEF Refresh, Types
<1>4. ASSUME NEW s \in Slots, NEW changes, NEW fresh, Asked(s, changes, fresh)
      PROVE  Types'
  <2> DEFINE new == [NoCall EXCEPT !.from = top.at, !.step = "apply", !.changes = changes]
  <2>1. new \in Calls
    BY <1>4, NoCallType DEF Asked, Types, Tops, Calls
  <2>2. calls' = [calls EXCEPT ![s] = new]
    BY <1>4 DEF Asked, Issue
  <2> HIDE DEF new
  <2>3. calls' \in [Slots -> Calls]
    BY <2>1, <2>2 DEF Types
  <2>4. top' \in Tops
    BY <1>4 DEF Asked, Types, Tops
  <2>5. QED
    BY <1>4, <2>3, <2>4 DEF Asked, Issue, Types
<1>5. ASSUME NEW s \in Slots, ApplyChange(s)
      PROVE  Types'
  <2> DEFINE ch == calls[s].changes[calls[s].applied + 1]
  <2>1. ch \in Changes
    BY <1>5 DEF ApplyChange, Types, Calls, InOrder
  <2>2. data' \in VaultDatas
    BY <1>5, <2>1, ApplyType DEF ApplyChange, Types
  <2>3. calls' \in [Slots -> Calls]
    BY <1>5, ApplyMoves DEF Types
  <2>4. QED
    BY <1>5, <2>2, <2>3 DEF ApplyChange, Types
<1>6. ASSUME NEW s \in Slots, SaveToFile(s)
      PROVE  Types'
  <2>1. PICK step \in {"returned", "failed"} : calls' = [calls EXCEPT ![s].step = step]
    BY <1>6 DEF SaveToFile
  <2>2. [calls[s] EXCEPT !.step = step] \in Calls
    BY DEF Types, Calls
  <2>3. calls' \in [Slots -> Calls]
    BY <2>1, <2>2 DEF Types
  <2>4. QED
    BY <1>6, <2>3 DEF SaveToFile, Types
<1>7. ASSUME NEW s \in Slots, Ended(s)
      PROVE  Types'
  <2>1. calls' \in [Slots -> Calls]
    BY <1>7, NoCallType DEF Ended, Types
  <2>2. top' \in Tops
    BY <1>7, TopTypes DEF Ended, Types
  <2>3. InFlight # {}
    BY <1>7 DEF Ended, InFlight, NoCall
  <2>4. CASE BeginLoad
    BY <1>7, <2>1, <2>2, <2>3, <2>4, InFlightCounts, BeginLoadType DEF Ended, Types
  <2>5. CASE NoReload(s)
    BY <1>7, <2>1, <2>2, <2>5 DEF Ended, NoReload, Types
  <2>6. QED
    BY <1>7, <2>4, <2>5 DEF Ended
<1>8. ASSUME NEW n \in Loads, Reads(n)
      PROVE  Types'
  <2>1. data.conns \in ConnLists /\ data.folders \in FolderLists
    BY DEF Types, VaultDatas, ConnLists, FolderLists
  <2>2. loads' \in [Loads -> Reloads]
    BY <1>8, <2>1 DEF Reads, ReadConns, ReadFolders, Types, Reloads
  <2>3. QED
    BY <1>8, <2>2 DEF Reads, ReadConns, ReadFolders, Types
<1>9. ASSUME NEW n \in Loads, Show(n)
      PROVE  Types'
  <2>1. loads[n] \in Reloads /\ n \in 0..started
    BY <1>9 DEF Show, Types, Budget, Loads
  <2>2. loads' \in [Loads -> Reloads]
    BY <1>9, NoLoadType DEF Show, Types
  <2>3. QED
    BY <1>9, <2>1, <2>2 DEF Show, Types, Reloads
<1>10. CASE UNCHANGED vars
  BY <1>10 DEF vars, Types
<1>11. QED
  BY <1>1, <1>2, <1>3, <1>4, <1>5, <1>6, <1>7, <1>8, <1>9, <1>10, EditAsks, ContinueEnds
     DEF Next, Pool, Reload, Reads, Looks, Edit

(* Saving ends in an answer, which the call holds until it is awaited.     *)
LEMMA SaveMoves ==
  ASSUME Types, NEW s \in Slots, SaveToFile(s)
  PROVE  \E new \in Calls :
            /\ calls' = [calls EXCEPT ![s] = new]
            /\ new.from = calls[s].from /\ new.changes = calls[s].changes
            /\ new.mounted = calls[s].mounted /\ new.applied = calls[s].applied
            /\ new.step \in {"returned", "failed"}
<1>1. PICK step \in {"returned", "failed"} : calls' = [calls EXCEPT ![s].step = step]
  BY DEF SaveToFile
<1> DEFINE new == [calls[s] EXCEPT !.step = step]
<1>2. /\ new \in Calls /\ new.from = calls[s].from /\ new.changes = calls[s].changes
      /\ new.mounted = calls[s].mounted /\ new.applied = calls[s].applied
      /\ new.step = step
  BY DEF Types, Calls
<1> HIDE DEF new
<1>3. calls' = [calls EXCEPT ![s] = new]
  BY <1>1 DEF new
<1>4. QED
  BY <1>2, <1>3

(* Asking puts a new call in an idle slot.                                 *)
LEMMA AskMoves ==
  ASSUME Types, NEW s \in Slots, NEW changes, NEW fresh, Asked(s, changes, fresh)
  PROVE  \E new \in Calls :
            /\ calls[s] = NoCall /\ calls' = [calls EXCEPT ![s] = new]
            /\ new.from = top.at /\ new.changes = changes /\ new.mounted
            /\ new.applied = 0 /\ new.step = "apply"
<1> DEFINE new == [NoCall EXCEPT !.from = top.at, !.step = "apply", !.changes = changes]
<1>1. /\ new.from = top.at /\ new.changes = changes /\ new.mounted
      /\ new.applied = 0 /\ new.step = "apply"
  BY DEF NoCall
<1>2. new \in Calls
  BY NoCallType DEF Asked, Types, Tops, Calls
<1>3. calls[s] = NoCall /\ calls' = [calls EXCEPT ![s] = new]
  BY DEF Asked, Issue
<1> HIDE DEF new
<1>4. QED
  BY <1>1, <1>2, <1>3

(* Leaving a screen changes nothing in the calls it made but that they     *)
(* will not find it when they end.                                         *)
LEMMA CloseMoves ==
  ASSUME Types, CloseTop
  PROVE  /\ calls' \in [Slots -> Calls]
         /\ \A t \in Slots :
               /\ calls'[t].from = calls[t].from /\ calls'[t].changes = calls[t].changes
               /\ calls'[t].applied = calls[t].applied /\ calls'[t].step = calls[t].step
               /\ calls[t] = NoCall => calls'[t] = NoCall
<1>1. \A t \in Slots : [calls[t] EXCEPT !.mounted = FALSE] \in Calls
  BY DEF Types, Calls
<1>2. calls' = [t \in Slots |-> IF calls[t].from = top.at
                               THEN [calls[t] EXCEPT !.mounted = FALSE] ELSE calls[t]]
  BY DEF CloseTop
<1>3. calls' \in [Slots -> Calls]
  BY <1>1, <1>2 DEF Types
<1>4. ASSUME NEW t \in Slots
      PROVE  /\ calls'[t].from = calls[t].from /\ calls'[t].changes = calls[t].changes
             /\ calls'[t].applied = calls[t].applied /\ calls'[t].step = calls[t].step
             /\ calls[t] = NoCall => calls'[t] = NoCall
  <2>1. CASE calls[t].from = top.at
    <3>1. calls[t] # NoCall
      BY <2>1 DEF CloseTop, NoCall
    <3>2. calls'[t] = [calls[t] EXCEPT !.mounted = FALSE] /\ calls[t] \in Calls
      BY <1>2, <2>1 DEF Types
    <3>3. QED
      BY <3>1, <3>2 DEF Calls
  <2>2. CASE calls[t].from # top.at
    BY <1>2, <2>2
  <2>3. QED
    BY <2>1, <2>2
<1>5. QED
  BY <1>3, <1>4

(* Every step keeps the edits in order.                                    *)
LEMMA InOrderKept ==
  ASSUME Types, InOrder, Budget, Waits, [Next]_vars
  PROVE  InOrder'
<1>1. CASE UNCHANGED calls
  BY <1>1 DEF InOrder
<1>2. CASE CloseTop
  BY <1>2, CloseMoves DEF InOrder, NoCall
<1>3. ASSUME NEW s \in Slots, NEW changes, NEW fresh, Asked(s, changes, fresh)
      PROVE  InOrder'
  <2>1. Len(changes) \in Nat /\ Len(changes) > 0
    BY <1>3 DEF Asked
  <2>2. PICK new \in Calls :
            /\ calls' = [calls EXCEPT ![s] = new]
            /\ new.changes = changes /\ new.applied = 0 /\ new.step = "apply"
    BY <1>3, AskMoves
  <2>3. new # NoCall
    BY <2>2 DEF NoCall
  <2>4. QED
    BY <2>1, <2>2, <2>3 DEF InOrder, Types
<1>4. ASSUME NEW s \in Slots, ApplyChange(s)
      PROVE  InOrder'
  <2>1. PICK new \in Calls :
            /\ calls' = [calls EXCEPT ![s] = new] /\ new.changes = calls[s].changes
            /\ \/ /\ new.applied = calls[s].applied + 1
                  /\ new.step = IF new.applied = Len(new.changes) THEN "save" ELSE "apply"
               \/ new.applied = calls[s].applied /\ new.step = "failed"
    BY <1>4, ApplyMoves
  <2>2. calls[s].applied \in Nat /\ Len(calls[s].changes) \in Nat
        /\ calls[s].applied < Len(calls[s].changes)
    BY <1>4 DEF ApplyChange, InOrder, Types, Calls
  <2>3. new.applied <= Len(new.changes) /\ (new.step = "apply" => new.applied < Len(new.changes))
        /\ new.step # "idle" /\ new # NoCall
    BY <2>1, <2>2 DEF NoCall
  <2>4. QED
    BY <2>1, <2>3 DEF InOrder, Types
<1>5. ASSUME NEW s \in Slots, SaveToFile(s)
      PROVE  InOrder'
  <2>1. PICK new \in Calls :
            /\ calls' = [calls EXCEPT ![s] = new]
            /\ new.changes = calls[s].changes /\ new.applied = calls[s].applied
            /\ new.step \in {"returned", "failed"}
    BY <1>5, SaveMoves
  <2>2. new # NoCall
    BY <2>1 DEF NoCall
  <2>3. QED
    BY <2>1, <2>2 DEF InOrder, Types
<1>6. ASSUME NEW s \in Slots, Ended(s)
      PROVE  InOrder'
  BY <1>6, NoCallType DEF Ended, InOrder, Types, NoCall
<1>7. QED
  BY <1>1, <1>2, <1>3, <1>4, <1>5, <1>6, EditAsks, ContinueEnds
     DEF Next, Pool, Reload, Edit, OpenDetail, OfferFolders, OpenDialog, Refresh,
         ReadConns, ReadFolders, Show, vars

(* Which calls are in flight shows in their steps.                         *)
LEMMA SameFlight ==
  ASSUME InOrder, InOrder',
         \A t \in Slots : calls'[t].step = "idle" <=> calls[t].step = "idle"
  PROVE  InFlight' = InFlight
  BY DEF InOrder, InFlight

LEMMA BudgetKept ==
  ASSUME Types, InOrder, InOrder', Budget, Waits, [Next]_vars
  PROVE  Budget'
<1> USE DEF Loads
<1>1. CASE UNCHANGED <<calls, started, acts>> /\ \A n \in Loads :
               loads'[n].step # "unused" => loads[n].step # "unused"
  BY <1>1 DEF Budget, InFlight
<1>2. CASE CloseTop
  BY <1>2, CloseMoves, SameFlight DEF Budget, CloseTop
<1>3. CASE Refresh
  <2>1. started + 1 \in Loads /\ Cardinality(InFlight) \in Nat
    BY <1>3, InFlightCounts DEF Refresh
  <2>2. InFlight' = InFlight
    BY <1>3 DEF Refresh, InFlight
  <2>3. started' = started + 1 /\ acts' = acts + 1
        /\ loads' = [loads EXCEPT ![started + 1] = [loads[started + 1] EXCEPT !.step = "conns"]]
    BY <1>3, <2>1, BeginLoadType DEF Refresh, BeginLoad
  <2>4. QED
    BY <2>1, <2>2, <2>3 DEF Budget, Types
<1>4. ASSUME NEW s \in Slots, NEW changes, NEW fresh, Asked(s, changes, fresh)
      PROVE  Budget'
  <2>1. InFlight' = InFlight \cup {s} /\ s \notin InFlight
    BY <1>4, AskMoves DEF InFlight, Types, NoCall
  <2>2. IsFiniteSet(InFlight) /\ Cardinality(InFlight) \in Nat
    BY InFlightCounts
  <2>3. Cardinality(InFlight') = Cardinality(InFlight) + 1
    BY <2>1, <2>2, FS_AddElement
  <2>4. started' = started /\ loads' = loads /\ acts' = acts + 1
    BY <1>4 DEF Asked, Issue
  <2>5. QED
    BY <2>2, <2>3, <2>4 DEF Budget, Types
<1>5. ASSUME NEW s \in Slots, ApplyChange(s)
      PROVE  Budget'
  BY <1>5, ApplyMoves, SameFlight DEF ApplyChange, Budget, Types
<1>6. ASSUME NEW s \in Slots, SaveToFile(s)
      PROVE  Budget'
  BY <1>6, SaveMoves, SameFlight DEF SaveToFile, Budget, Types
<1>7. ASSUME NEW s \in Slots, Ended(s)
      PROVE  Budget'
  <2>1. InFlight' = InFlight \ {s} /\ s \in InFlight
    BY <1>7 DEF Ended, InFlight, Types, NoCall
  <2>2. IsFiniteSet(InFlight) /\ Cardinality(InFlight) \in Nat /\ started + 1 \in Loads
    BY <2>1, InFlightCounts
  <2>3. Cardinality(InFlight') = Cardinality(InFlight) - 1
    BY <2>1, <2>2, FS_RemoveElement
  <2>4. CASE BeginLoad
    <3>1. started' = started + 1 /\ acts' = acts
          /\ loads' = [loads EXCEPT ![started + 1] = [loads[started + 1] EXCEPT !.step = "conns"]]
      BY <1>7, <2>2, <2>4, BeginLoadType DEF Ended, BeginLoad
    <3>2. QED
      BY <2>2, <2>3, <3>1 DEF Budget, Types
  <2>5. CASE NoReload(s)
    BY <1>7, <2>2, <2>3, <2>5 DEF Ended, NoReload, Budget, Types
  <2>6. QED
    BY <1>7, <2>4, <2>5 DEF Ended
<1>8. ASSUME NEW n \in Loads, Reload(n)
      PROVE  Budget'
  <2>1. CASE ReadConns(n)
    BY <1>1, <2>1 DEF ReadConns, Types
  <2>2. CASE ReadFolders(n)
    BY <1>1, <2>2 DEF ReadFolders, Types
  <2>3. CASE Show(n)
    BY <1>1, <2>3 DEF Show, Types, NoLoad
  <2>4. QED
    BY <1>8, <2>1, <2>2, <2>3 DEF Reload
<1>9. QED
  BY <1>1, <1>2, <1>3, <1>4, <1>5, <1>6, <1>7, <1>8, EditAsks, ContinueEnds
     DEF Next, Pool, Edit, OpenDetail, OfferFolders, OpenDialog, vars

(* Every step that ends what a form waits for ends the waiting.            *)
LEMMA WaitsKept ==
  ASSUME Types, InOrder, Budget, Waits, [Next]_vars
  PROVE  Waits'
<1>1. CASE UNCHANGED <<calls, top>>
  BY <1>1 DEF Waits
<1>2. CASE Looks \/ CloseTop
  <2>1. CASE OfferFolders
    BY <2>1 DEF OfferFolders, Types, Tops, Waits
  <2>2. CASE OpenDetail \/ OpenDialog \/ CloseTop
    <3>1. ~top'.busy
      BY <2>2, OpenedIdle DEF OpenDetail, OpenDialog, CloseTop
    <3>2. QED
      BY <3>1 DEF Waits
  <2>3. QED
    BY <1>2, <2>1, <2>2 DEF Looks
<1>3. ASSUME NEW s \in Slots, NEW changes, NEW fresh, Asked(s, changes, fresh)
      PROVE  Waits'
  <2>1. PICK new \in Calls :
            /\ calls[s] = NoCall /\ calls' = [calls EXCEPT ![s] = new]
            /\ new.from = top.at /\ new.mounted
    BY <1>3, AskMoves
  <2>2. CASE top' = top
    BY <2>1, <2>2 DEF Waits, Types, NoCall
  <2>3. CASE top' = [top EXCEPT !.busy = TRUE] /\ top.at \in {"detail", "import"}
    <3>1. top'.at = top.at /\ calls'[s] = new
      BY <2>1, <2>3 DEF Types, Tops
    <3>2. QED
      BY <2>1, <2>3, <3>1 DEF Waits
  <2>4. QED
    BY <1>3, <2>2, <2>3 DEF Asked
<1>4. ASSUME NEW s \in Slots, ApplyChange(s)
      PROVE  Waits'
  BY <1>4, ApplyMoves DEF ApplyChange, Waits, Types
<1>5. ASSUME NEW s \in Slots, SaveToFile(s)
      PROVE  Waits'
  BY <1>5, SaveMoves DEF SaveToFile, Waits, Types
<1>6. ASSUME NEW s \in Slots, Ended(s)
      PROVE  Waits'
  BY <1>6 DEF Ended, Waits, Types
<1>7. QED
  BY <1>1, <1>2, <1>3, <1>4, <1>5, <1>6, EditAsks, ContinueEnds
     DEF Next, Pool, Edit, Looks, Reload, Refresh, ReadConns, ReadFolders, Show, vars

(* Every step that changes the vault or begins a reload leaves the latest  *)
(* reload with what the vault holds, or not yet done with its reading.     *)
LEMMA CurrentKept ==
  ASSUME Types, InOrder, Budget, Waits, Current, [Next]_vars
  PROVE  Current'
<1>1. ASSUME UNCHANGED <<data, conns, folders, loads, started, missed, shownBy>>,
             \A t \in Slots : calls'[t].applied = 0 => calls[t].applied = 0
      PROVE  Current'
  BY <1>1 DEF Current, Unchanged
<1>2. ASSUME BeginLoad, started + 1 \in Loads
      PROVE  Current'
  <2>1. loads' = [loads EXCEPT ![started + 1] = [loads[started + 1] EXCEPT !.step = "conns"]]
        /\ started' = started + 1
    BY <1>2, BeginLoadType DEF BeginLoad
  <2>2. loads'[started'].step = "conns"
    BY <1>2, <2>1 DEF Types, Reloads
  <2>3. QED
    BY <2>2 DEF Current
<1>3. CASE CloseTop
  BY <1>1, <1>3, CloseMoves DEF CloseTop
<1>4. CASE Refresh
  BY <1>2, <1>4, InFlightCounts DEF Refresh
<1>5. ASSUME NEW s \in Slots, NEW changes, NEW fresh, Asked(s, changes, fresh)
      PROVE  Current'
  <2>1. \A t \in Slots : calls'[t].applied = 0 => calls[t].applied = 0
    BY <1>5, AskMoves, NoCallType DEF Types
  <2>2. QED
    BY <1>1, <1>5, <2>1 DEF Asked, Issue
<1>6. ASSUME NEW s \in Slots, ApplyChange(s)
      PROVE  Current'
  <2>1. PICK new \in Calls :
            /\ calls' = [calls EXCEPT ![s] = new]
            /\ \/ new.applied = calls[s].applied + 1
               \/ data' = data /\ new.applied = calls[s].applied
    BY <1>6, ApplyMoves
  <2>2. CASE new.applied = calls[s].applied + 1
    <3>1. calls'[s].applied # 0
      BY <2>1, <2>2 DEF Types, Calls
    <3>2. QED
      BY <3>1 DEF Current, Unchanged
  <2>3. CASE data' = data /\ new.applied = calls[s].applied
    BY <1>1, <1>6, <2>1, <2>3 DEF ApplyChange, Types
  <2>4. QED
    BY <2>1, <2>2, <2>3
<1>7. ASSUME NEW s \in Slots, SaveToFile(s)
      PROVE  Current'
  BY <1>1, <1>7, SaveMoves DEF SaveToFile, Types
<1>8. ASSUME NEW s \in Slots, Ended(s)
      PROVE  Current'
  <2>1. CASE BeginLoad
    <3>1. InFlight # {}
      BY <1>8 DEF Ended, InFlight, NoCall
    <3>2. QED
      BY <1>2, <2>1, <3>1, InFlightCounts
  <2>2. CASE NoReload(s)
    <3>1. calls[s].applied \in Nat
      BY DEF Types, Calls
    <3>2. \A t \in Slots : t # s => calls'[t] = calls[t]
      BY <1>8 DEF Ended, Types
    <3>3. ~missed' => ~missed /\ ~(calls[s].applied > 0)
      BY <2>2, Zenon DEF NoReload
    <3>4. Unchanged' => Unchanged
      BY <3>1, <3>2, <3>3 DEF Unchanged
    <3>5. QED
      BY <1>8, <2>2, <3>4 DEF Ended, NoReload, Current
  <2>3. QED
    BY <1>8, <2>1, <2>2 DEF Ended
<1>9. ASSUME NEW n \in Loads, Reload(n)
      PROVE  Current'
  <2>1. Unchanged' => Unchanged
    BY <1>9 DEF Reload, ReadConns, ReadFolders, Show, Unchanged
  <2>2. CASE ReadConns(n)
    <3>1. /\ loads'[n].step = "folders" /\ loads'[n].conns = data.conns
          /\ \A m \in Loads : m # n => loads'[m] = loads[m]
      BY <2>2 DEF ReadConns, Types, Reloads
    <3>2. QED
      BY <2>1, <2>2, <3>1, InFlightCounts DEF ReadConns, Current
  <2>3. CASE ReadFolders(n)
    <3>1. /\ loads'[n].step = "answer" /\ loads'[n].folders = data.folders
          /\ loads'[n].conns = loads[n].conns /\ loads[n].step = "folders"
          /\ \A m \in Loads : m # n => loads'[m] = loads[m]
      BY <2>3 DEF ReadFolders, Types, Reloads
    <3>2. QED
      BY <2>1, <2>3, <3>1, InFlightCounts DEF ReadFolders, Current
  <2>4. CASE Show(n)
    BY <2>1, <2>4 DEF Show, Current, Types, Reloads, NoLoad
  <2>5. QED
    BY <1>9, <2>2, <2>3, <2>4 DEF Reload
<1>10. CASE Looks \/ UNCHANGED vars
  BY <1>1, <1>10 DEF Looks, OpenDetail, OfferFolders, OpenDialog, vars
<1>11. QED
  BY <1>3, <1>4, <1>5, <1>6, <1>7, <1>8, <1>9, <1>10, EditAsks, ContinueEnds
     DEF Next, Pool, Edit, Looks

(* A change adds the connections it was given UUIDs for and no other, and  *)
(* a deletion removes its connection.                                      *)
LEMMA ApplyAdds ==
  ASSUME NEW d \in VaultDatas, NEW ch \in Changes, Applicable(d, ch)
  PROVE  /\ Conns(Apply(d, ch)) \subseteq Conns(d) \cup Added(ch)
         /\ ch.op = "delete_connection" =>
                ch.conn \in Conns(d) /\ Conns(Apply(d, ch)) \subseteq Conns(d) \ {ch.conn}
<1>1. CASE ch \in [op: {"add_connection"}, conn: ConnIds, rec: ConnRecs]
  BY <1>1 DEF Apply, Added, PutConn, Conns, HasConn, VaultDatas
<1>2. CASE ch \in [op: {"update_connection"}, conn: ConnIds, rec: ConnRecs]
  BY <1>2 DEF Apply, Applicable, PutConn, Conns, HasConn, VaultDatas
<1>3. CASE ch \in [op: {"delete_connection"}, conn: ConnIds]
  BY <1>3 DEF Apply, Applicable, RemoveConn, Conns, HasConn, VaultDatas
<1>4. CASE ch \in [op: {"add_folder", "update_folder"}, folder: FolderIds, parent: Folders]
  BY <1>4 DEF Apply, PutFolder, Conns, HasConn, VaultDatas
<1>5. CASE ch \in [op: {"delete_folder"}, folder: FolderIds]
  BY <1>5, FolderDeleted DEF Apply
<1>6. CASE ch \in [op: {"import_connections"}, batch: Batches]
  <2> DEFINE batch == ch.batch
  <2> DEFINE Source(c) == {i \in 1..Len(batch) : batch[i].id = c /\ Kept(d, batch, i)}
  <2>1. ASSUME NEW c \in ConnIds, c \notin Added(ch)
        PROVE  Source(c) = {}
    BY <1>6, <2>1 DEF Added
  <2>2. Apply(d, ch) = [d EXCEPT !.conns =
            [c \in ConnIds |-> IF Source(c) = {} THEN d.conns[c]
                               ELSE batch[CHOOSE i \in Source(c) : TRUE].rec]]
    BY <1>6 DEF Apply, ImportConns
  <2> HIDE DEF Source
  <2>3. ASSUME NEW c \in ConnIds, c \notin Added(ch)
        PROVE  Apply(d, ch).conns[c] = d.conns[c]
    BY <2>1, <2>2, <2>3 DEF VaultDatas
  <2>4. QED
    BY <1>6, <2>3 DEF Conns, HasConn
<1>7. QED
  BY <1>1, <1>2, <1>3, <1>4, <1>5, <1>6 DEF Changes

(* A change takes the UUIDs it was given from those still to come.         *)
LEMMA ApplyKeepsFresh ==
  ASSUME Types, InOrder, Fresh, NEW s \in Slots, ApplyChange(s)
  PROVE  Fresh'
<1> DEFINE j == calls[s].applied + 1
<1> DEFINE ch == calls[s].changes[j]
<1>1. PICK new \in Calls :
          /\ calls' = [calls EXCEPT ![s] = new] /\ new.changes = calls[s].changes
          /\ \/ /\ Applicable(data, ch) /\ new.applied = j
                /\ new.step = IF new.applied = Len(new.changes) THEN "save" ELSE "apply"
             \/ ~Applicable(data, ch) /\ data' = data /\ new.step = "failed"
  BY ApplyMoves
<1>2. /\ j \in 1..Len(calls[s].changes) /\ ch \in Changes /\ j \in Pending(s)
      /\ calls[s].applied \in Nat
  BY DEF ApplyChange, InOrder, Types, Calls, Pending
<1>3. /\ \A t \in Slots : calls'[t].changes = calls[t].changes /\ Pending(t)' \subseteq Pending(t)
      /\ Applicable(data, ch) => j \notin Pending(s)'
  <2>1. \A t \in Slots : t # s => calls'[t] = calls[t]
    BY <1>1 DEF Types
  <2>2. calls'[s] = new
    BY <1>1 DEF Types
  <2>3. Pending(s)' \subseteq Pending(s) /\ (Applicable(data, ch) => j \notin Pending(s)')
    BY <1>1, <1>2, <2>2 DEF Pending, ApplyChange
  <2>4. QED
    BY <1>1, <2>1, <2>2, <2>3 DEF Pending
<1>4. CASE ~Applicable(data, ch)
  <2>1. UNCHANGED <<data, deleted, used>>
    BY <1>4 DEF ApplyChange
  <2>2. QED
    BY <1>3, <2>1 DEF Fresh
<1>5. CASE Applicable(data, ch)
  <2>1. /\ data' = Apply(data, ch) /\ used' = used
        /\ deleted' = IF ch.op = "delete_connection" THEN deleted \cup {ch.conn} ELSE deleted
    BY <1>5 DEF ApplyChange
  <2> DEFINE added == Added(ch)
  <2> DEFINE stored == Conns(data)
  <2> DEFINE stored2 == Conns(data')
  <2>2. /\ stored2 \subseteq stored \cup added
        /\ ch.op = "delete_connection" =>
               ch.conn \in stored /\ stored2 \subseteq stored \ {ch.conn}
    BY <1>2, <1>5, <2>1, ApplyAdds DEF Types
  <2>3. /\ added \subseteq used \ (deleted \cup stored)
        /\ deleted \cup stored \subseteq used /\ deleted \cap stored = {}
    BY <1>2 DEF Fresh
  <2>4. \A t \in Slots : \A l \in Pending(t) : <<s, j>> # <<t, l>> =>
            added \cap Added(calls[t].changes[l]) = {}
    BY <1>2 DEF Fresh
  <2>5. ch.op = "delete_connection" => added = {}
    BY DEF Added
  <2> HIDE DEF added, stored, stored2, ch, j
  <2>6. deleted' \cup stored2 \subseteq used' /\ deleted' \cap stored2 = {}
        /\ deleted' \cup stored2 \subseteq deleted \cup stored \cup added
    BY <2>1, <2>2, <2>3, <2>5
  <2>7. ASSUME NEW t \in Slots, NEW k \in Pending(t)'
        PROVE  /\ Added(calls'[t].changes[k]) \subseteq used' \ (deleted' \cup stored2)
               /\ \A u \in Slots : \A l \in Pending(u)' : <<t, k>> # <<u, l>> =>
                     Added(calls'[t].changes[k]) \cap Added(calls'[u].changes[l]) = {}
    <3>1. k \in Pending(t) /\ <<s, j>> # <<t, k>> /\ calls'[t].changes = calls[t].changes
      BY <1>3, <1>5, <2>7
    <3>2. /\ Added(calls[t].changes[k]) \subseteq used \ (deleted \cup stored)
          /\ added \cap Added(calls[t].changes[k]) = {}
      BY <2>4, <3>1 DEF Fresh, stored
    <3>3. \A u \in Slots : \A l \in Pending(u) : <<t, k>> # <<u, l>> =>
              Added(calls[t].changes[k]) \cap Added(calls[u].changes[l]) = {}
      BY <3>1 DEF Fresh
    <3>4. QED
      BY <1>3, <2>1, <2>6, <3>1, <3>2, <3>3
  <2>8. QED
    BY <2>6, <2>7 DEF Fresh, stored2
<1>6. QED
  BY <1>4, <1>5

(* Asking draws UUIDs that are new.                                        *)
LEMMA AskKeepsFresh ==
  ASSUME Types, Fresh, NEW s \in Slots, NEW changes, NEW fresh, Asked(s, changes, fresh)
  PROVE  Fresh'
<1>1. PICK new \in Calls :
          /\ calls[s] = NoCall /\ calls' = [calls EXCEPT ![s] = new]
          /\ new.changes = changes /\ new.applied = 0 /\ new.step = "apply"
  BY AskMoves
<1>2. /\ data' = data /\ deleted' = deleted /\ used' = used \cup fresh /\ fresh \cap used = {}
      /\ DrawnFor(changes, fresh)
  BY DEF Asked, Issue
<1>3. calls'[s] = new /\ Pending(s)' = 1..Len(changes)
  BY <1>1 DEF Types, Pending, Asked
<1>4. \A t \in Slots : t # s => calls'[t] = calls[t] /\ Pending(t)' = Pending(t)
  BY <1>1 DEF Types, Pending
<1> DEFINE stored == Conns(data)
<1>5. deleted \cup stored \subseteq used /\ deleted \cap stored = {}
  BY DEF Fresh
<1>6. ASSUME NEW t \in Slots, NEW k \in Pending(t)'
      PROVE  /\ Added(calls'[t].changes[k]) \subseteq used' \ (deleted' \cup stored)
             /\ t = s => Added(calls'[t].changes[k]) \subseteq fresh
             /\ t # s => Added(calls'[t].changes[k]) \subseteq used
  <2>1. CASE t = s
    <3>1. Added(calls'[t].changes[k]) \subseteq fresh
      BY <1>1, <1>2, <1>3, <2>1 DEF DrawnFor
    <3>2. QED
      BY <1>2, <1>5, <2>1, <3>1
  <2>2. CASE t # s
    BY <1>2, <1>4, <2>2 DEF Fresh
  <2>3. QED
    BY <2>1, <2>2
<1>7. ASSUME NEW t \in Slots, NEW k \in Pending(t)', NEW u \in Slots, NEW l \in Pending(u)',
             <<t, k>> # <<u, l>>
      PROVE  Added(calls'[t].changes[k]) \cap Added(calls'[u].changes[l]) = {}
  <2>1. CASE t = s /\ u = s
    BY <1>1, <1>2, <1>3, <1>7, <2>1 DEF DrawnFor
  <2>2. CASE t # s /\ u # s
    BY <1>4, <1>7, <2>2 DEF Fresh
  <2>3. CASE (t = s /\ u # s) \/ (t # s /\ u = s)
    BY <1>2, <1>6, <2>3
  <2>4. QED
    BY <2>1, <2>2, <2>3
<1> HIDE DEF stored
<1>8. Conns(data') = stored
  BY <1>2 DEF stored
<1>9. QED
  BY <1>2, <1>5, <1>6, <1>7, <1>8 DEF Fresh

(* No step makes a UUID serve twice, or brings a deleted connection back.  *)
LEMMA FreshKept ==
  ASSUME Types, InOrder, Budget, Waits, Fresh, [Next]_vars
  PROVE  Fresh'
<1>1. ASSUME UNCHANGED <<data, deleted, used>>,
             \A t \in Slots : \A k \in Pending(t)' :
                 k \in Pending(t) /\ calls'[t].changes = calls[t].changes
      PROVE  Fresh'
  BY <1>1 DEF Fresh
<1>2. CASE UNCHANGED <<data, deleted, used, calls>>
  BY <1>1, <1>2 DEF Pending
<1>3. CASE CloseTop
  BY <1>1, <1>3, CloseMoves DEF CloseTop, Pending
<1>4. ASSUME NEW s \in Slots, SaveToFile(s)
      PROVE  Fresh'
  BY <1>1, <1>4, SaveMoves DEF SaveToFile, Pending, Types
<1>5. ASSUME NEW s \in Slots, Ended(s)
      PROVE  Fresh'
  BY <1>1, <1>5, NoCallType DEF Ended, Pending, Types, NoCall
<1>6. QED
  BY <1>2, <1>3, <1>4, <1>5, AskKeepsFresh, ApplyKeepsFresh, EditAsks, ContinueEnds
     DEF Next, Pool, Edit, Reload, OpenDetail, OfferFolders, OpenDialog, Refresh,
         ReadConns, ReadFolders, Show, vars

(* The invariant holds in every state.                                     *)
THEOREM HomeInvariant == Spec => []IInv
<1>1. IInv /\ [Next]_vars => IInv'
  BY TypesKept, InOrderKept, BudgetKept, WaitsKept, FreshKept, CurrentKept DEF IInv
<1>2. QED
  BY <1>1, InitInv, PTL DEF Spec

(* Every variable of HomeScreen holds a value of its kind, no reload is    *)
(* begun that nobody asked for, and a form is busy only while it waits for *)
(* a call.                                                                 *)
THEOREM HomeTypeCorrect == Spec => []TypeOK
<1>1. IInv => TypeOK
  <2> SUFFICES ASSUME IInv PROVE TypeOK
    OBVIOUS
  <2> USE DEF IInv, Types
  <2>1. [conns |-> conns, folders |-> folders] \in VaultDatas
    BY DEF VaultDatas, ConnLists, FolderLists
  <2>2. {loading, missed} \subseteq BOOLEAN
    BY Zenon
  <2>3. /\ top.at \in {"home", "detail", "folders", "import"}
        /\ top.conn \in ConnIds \cup {Nothing} /\ top.folder \in Folders
        /\ top.offered \subseteq FolderIds
    BY DEF Tops
  <2>4. \A s \in Slots : /\ calls[s].step \in {"idle", "apply", "save", "returned", "failed"}
                          /\ calls[s].applied \in 0..Len(calls[s].changes)
    BY DEF Calls, InOrder
  <2>5. \A n \in Loads : loads[n].step \in {"unused", "conns", "folders", "answer"}
    BY DEF Reloads
  <2>6. started \in 0..acts
    BY InFlightCounts DEF Budget
  <2>7. top.busy => \E s \in Slots : calls[s].from = top.at /\ calls[s].mounted
    BY DEF Waits
  <2>8. data \in VaultDatas /\ shownBy \in 0..started /\ acts \in 0..MaxActs
        /\ used \subseteq ConnIds \cup FolderIds /\ deleted \subseteq used
    BY DEF Fresh
  <2>9. QED
    BY <2>1, <2>2, <2>3, <2>4, <2>5, <2>6, <2>7, <2>8, Zenon DEF TypeOK
<1>2. QED
  BY <1>1, HomeInvariant, PTL

(* _loadConnections follows every edit that went well: when everything has *)
(* come back, HomeScreen shows what the vault holds, whatever the user did *)
(* meanwhile, unless an older reload was shown after a newer one, or an    *)
(* edit ended without a reload.                                            *)
THEOREM ShownIsCurrent == Spec => []ViewIsCurrent
<1>1. IInv => ViewIsCurrent
  <2> SUFFICES ASSUME IInv, Settled, shownBy = started, ~missed
               PROVE  conns = data.conns /\ folders = data.folders
    BY DEF ViewIsCurrent
  <2>1. Unchanged
    BY NoCallType DEF Settled, Unchanged
  <2>2. started \in Loads
    BY InFlightCounts DEF IInv
  <2>3. QED
    BY <2>1, <2>2 DEF IInv, Current, Settled
<1>2. QED
  BY <1>1, HomeInvariant, PTL

(* A connection that delete_connection removed does not come back: not by  *)
(* saving a form opened before, by cloning its card, by an import or by a  *)
(* second deletion.                                                        *)
THEOREM DeletedIsGone == Spec => []DeletedStaysDeleted
<1>1. IInv => DeletedStaysDeleted
  BY DEF IInv, Fresh, DeletedStaysDeleted
<1>2. QED
  BY <1>1, HomeInvariant, PTL
=============================================================================
