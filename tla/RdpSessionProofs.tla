--------------------------- MODULE RdpSessionProofs ---------------------------
(***************************************************************************)
(* Theorems about RdpSession for any number of calls, objects, threads,    *)
(* cards and presses of Back and Disconnect: a screen that says Connected  *)
(* shows an open session, and the session stored on a screen that is left  *)
(* is closed.                                                              *)
(***************************************************************************)
EXTENDS RdpSession, CodecProofs

USE BridgeAssumption, RdpAssumption DEF bridgeVars, screenVars, awaitVars, objectVars

(* Every variable holds a value of its kind; of `arg` and `login`, which   *)
(* hold what comes out of the codec, see CardInv.                          *)
BridgeKinds ==
    /\ stage \in [Calls -> {"free", "queued", "claimed", "running", "replied"}]
    /\ fn \in [Calls -> PrimaryNames \cup {None}] /\ that \in [Calls -> Objects \cup {None}]
    /\ reply \in [Calls -> [ok: BOOLEAN, val: Objects \cup BOOLEAN \cup {None}]]
    /\ queue \in Seq(Calls) /\ blocked \in SyncNames \cup {None}
ScreenKinds ==
    /\ route \in {"none", "up", "leaving", "gone"} /\ card \in Cards \cup {None}
    /\ home \in {"open", "locked", "popped"}
    /\ isConnecting \in BOOLEAN /\ isConnected \in BOOLEAN /\ error \in BOOLEAN
    /\ rdpConnection \in Objects \cup {None} /\ rdp \in Objects \cup {None}
    /\ awaited \in Own \cup {None}
    /\ leaves \in 0..MaxLeaves /\ presses \subseteq Own
ObjectKinds ==
    /\ handle \in [Objects -> {"none", "held", "collected"}]
    /\ open \subseteq Objects

(* What a call in flight is for: the attempt to connect, a disconnect of   *)
(* the session that is stored, or another part of the app.                 *)
Purpose(c) ==
    \/ c = awaited
    \/ /\ c \in Own /\ fn[c] = "RdpConnection_disconnect"
       /\ rdpConnection # None /\ that[c] = rdpConnection
       /\ c \in presses \/ route = "gone"
    \/ c \in Others /\ fn[c] \in OtherWires
InUse ==
    /\ \A c \in Calls : stage[c] = "free" => fn[c] = None
    /\ \A c \in Calls : fn[c] # None => Purpose(c)
    /\ \A c \in presses : fn[c] = "RdpConnection_disconnect" /\ c # awaited

(* One attempt at a time, and none once a session is stored.               *)
Attempt ==
    /\ isConnecting <=> awaited # None
    /\ awaited = None => rdp = None
    /\ route = "none" => awaited = None /\ rdpConnection = None
    /\ rdpConnection # None => awaited = None /\ (Mounted => ~error)
    /\ isConnected => rdpConnection # None

(* What the attempt has found out, and that it keeps its object alive.     *)
Learned ==
    awaited # None =>
        /\ fn[awaited] \in RdpWires \ {"RdpConnection_disconnect"}
        /\ fn[awaited] = "RdpConnection_new" /\ stage[awaited] = "replied" =>
               /\ reply[awaited].ok /\ reply[awaited].val \in Objects
               /\ handle[reply[awaited].val] = "held"
        /\ fn[awaited] # "RdpConnection_new" =>
               rdp \in Objects /\ handle[rdp] = "held" /\ that[awaited] = rdp
        /\ fn[awaited] = "RdpConnection_is_connected" /\ stage[awaited] = "replied" =>
               reply[awaited].val \in BOOLEAN /\ (reply[awaited].val = TRUE => rdp \in open)

(* What the screen holds, and what became of it.                           *)
Session ==
    /\ Mounted /\ rdpConnection # None => handle[rdpConnection] = "held"
    /\ ShownIsOpen /\ StoredIsClosed

IInv == BridgeKinds /\ ScreenKinds /\ ObjectKinds /\ InUse /\ Attempt /\ Learned /\ Session

-----------------------------------------------------------------------------
(* The names of the methods are names of functions, so none is None.       *)
LEMMA RdpNames == RdpWires \subseteq PrimaryNames /\ None \notin RdpWires
<1>1. /\ RdpConnection_new.name = "RdpConnection_new"
      /\ RdpConnection_connect.name = "RdpConnection_connect"
      /\ RdpConnection_get_size.name = "RdpConnection_get_size"
      /\ RdpConnection_is_connected.name = "RdpConnection_is_connected"
      /\ RdpConnection_disconnect.name = "RdpConnection_disconnect"
  BY DEF RdpConnection_new, RdpConnection_connect, RdpConnection_get_size, RdpConnection_is_connected,
         RdpConnection_disconnect, Plain, Exclusive, Shared, Wire
<1>2. {RdpConnection_new, RdpConnection_connect, RdpConnection_get_size, RdpConnection_is_connected,
       RdpConnection_disconnect} \subseteq DispatchedPrimary
  BY ZenonT(60) DEF DispatchedPrimary
<1>3. QED
  BY <1>1, <1>2 DEF RdpWires, PrimaryNames

(* The initial state satisfies IInv.                                       *)
LEMMA InitIInv == Init => IInv
<1> SUFFICES ASSUME Init PROVE IInv
  OBVIOUS
<1>1. BridgeKinds
  BY DEF Init, BridgeInit, BridgeKinds, NoReply
<1>2. ScreenKinds /\ ObjectKinds
  <2>1. isConnecting \in BOOLEAN /\ isConnected \in BOOLEAN /\ error \in BOOLEAN
    BY Zenon DEF Init
  <2>2. QED
    BY <2>1 DEF Init, ScreenKinds, ObjectKinds
<1>3. InUse /\ Attempt /\ Learned /\ Session
  BY DEF Init, BridgeInit, InUse, Purpose, Attempt, Learned, Session, Mounted, ShownIsOpen, StoredIsClosed
<1>4. QED
  BY <1>1, <1>2, <1>3 DEF IInv

-----------------------------------------------------------------------------
(* What the steps of the bridge leave of its kinds.                        *)
LEMMA InvokeKinds ==
  ASSUME BridgeKinds, NEW c \in Calls, NEW w, NEW o \in Objects \cup {None}, NEW a, Invoke(c, w, o, a)
  PROVE  /\ BridgeKinds' /\ DartRuns /\ w \in PrimaryNames /\ w # None
         /\ stage'[c] = "queued" /\ fn'[c] = w /\ that'[c] = o
         /\ \A d \in Calls \ {c} : /\ stage'[d] = stage[d] /\ fn'[d] = fn[d]
                                     /\ that'[d] = that[d] /\ reply'[d] = reply[d]
<1>1. w \in PrimaryNames /\ w # None /\ DartRuns
  BY DEF Invoke
<1>2. NoReply \in [ok: BOOLEAN, val: Objects \cup BOOLEAN \cup {None}]
  BY DEF NoReply
<1>3. QED
  BY <1>1, <1>2 DEF BridgeKinds, Invoke

LEMMA ReturnKinds ==
  ASSUME BridgeKinds, NEW c \in Calls, NEW r \in [ok: BOOLEAN, val: Objects \cup BOOLEAN \cup {None}],
         Return(c, r)
  PROVE  /\ BridgeKinds' /\ UNCHANGED <<fn, that>> /\ stage[c] = "running"
         /\ stage'[c] = "replied" /\ reply'[c] = r
         /\ \A d \in Calls \ {c} : stage'[d] = stage[d] /\ reply'[d] = reply[d]
BY DEF BridgeKinds, Return

LEMMA TakeReplyKinds ==
  ASSUME BridgeKinds, NEW c \in Calls, TakeReply(c)
  PROVE  /\ BridgeKinds' /\ stage[c] = "replied" /\ DartRuns
         /\ stage'[c] = "free" /\ fn'[c] = None
         /\ \A d \in Calls \ {c} : /\ stage'[d] = stage[d] /\ fn'[d] = fn[d]
                                     /\ that'[d] = that[d] /\ reply'[d] = reply[d]
<1>1. NoReply \in [ok: BOOLEAN, val: Objects \cup BOOLEAN \cup {None}]
  BY DEF NoReply
<1>2. QED
  BY <1>1 DEF BridgeKinds, TakeReply

(* A thread takes a call, a call gets its locks, Lock runs or ends: no     *)
(* call begins or ends, no screen or object changes.                       *)
LEMMA QuietStep ==
  ASSUME IInv, OnBridge \/ PressLock \/ \E c \in Calls : Entered(c)
  PROVE  IInv'
<1> USE DEF IInv
<1>1. /\ UNCHANGED <<fn, that, reply, awaitVars, objectVars>>
      /\ UNCHANGED <<route, card, isConnecting, isConnected, error, rdpConnection>>
  BY DEF OnBridge, PressLock, Entered, Claim, EndSync, BeginSync, Enter
<1>2. BridgeKinds' /\ home' \in {"open", "locked", "popped"}
      /\ \A c \in Calls : stage'[c] = stage[c] \/ stage'[c] \in {"claimed", "running"}
  <2>1. CASE Claim /\ UNCHANGED home
    <3>1. Head(queue) \in Calls /\ Tail(queue) \in Seq(Calls)
      BY <2>1 DEF Claim, BridgeKinds
    <3>2. QED
      BY <2>1, <3>1 DEF Claim, BridgeKinds, ScreenKinds
  <2>2. ASSUME NEW c \in Calls, Enter(c), UNCHANGED home
        PROVE  /\ BridgeKinds' /\ home' \in {"open", "locked", "popped"}
               /\ \A d \in Calls : stage'[d] = stage[d] \/ stage'[d] \in {"claimed", "running"}
    BY <2>2 DEF Enter, BridgeKinds, ScreenKinds
  <2>3. CASE EndSync /\ UNCHANGED home
    BY <2>3 DEF EndSync, BridgeKinds, ScreenKinds
  <2>4. CASE PressLock
    BY <2>4 DEF PressLock, BeginSync, BridgeKinds
  <2>5. QED
    BY <2>1, <2>2, <2>3, <2>4 DEF OnBridge, Entered
<1>3. ScreenKinds' /\ ObjectKinds'
  <2>1. isConnecting' \in BOOLEAN /\ isConnected' \in BOOLEAN /\ error' \in BOOLEAN
    BY Zenon, <1>1 DEF ScreenKinds
  <2>2. QED
    BY <1>1, <1>2, <2>1 DEF ScreenKinds, ObjectKinds
<1>4. \A c \in Calls : InFlight(c) => InFlight(c)'
  BY <1>2 DEF InFlight
<1>5. InUse'
  BY <1>1, <1>2 DEF InUse, Purpose, ScreenKinds
<1>6. Attempt' /\ Learned'
  BY <1>1, <1>2 DEF Attempt, Learned, ScreenKinds, Mounted
<1>7. Session'
  BY <1>1, <1>4 DEF Session, Mounted, ShownIsOpen, StoredIsClosed, Using
<1>8. QED
  BY <1>2, <1>3, <1>5, <1>6, <1>7

-----------------------------------------------------------------------------
(* The screen begins to connect.                                           *)
LEMMA ConnectBegins ==
  ASSUME IInv, NEW c \in Calls, OpenScreen(c) \/ Retry(c)
  PROVE  IInv'
<1> USE DEF IInv
<1>1. /\ Unused(c, Own) /\ Invoke(c, "RdpConnection_new", None, None)
      /\ awaited' = c /\ isConnecting' = TRUE /\ error' = FALSE
      /\ UNCHANGED <<isConnected, rdpConnection, rdp, leaves, presses, objectVars, home>>
      /\ route' = "up"
      /\ card' \in Cards \/ card' = card
  BY DEF OpenScreen, Retry, BeginConnect
<1>2. awaited = None /\ rdpConnection = None /\ rdp = None /\ ~isConnected
  BY DEF OpenScreen, Retry, Attempt, ScreenKinds, Mounted
<1>3. /\ BridgeKinds' /\ fn'[c] = "RdpConnection_new" /\ stage'[c] = "queued" /\ c \in Own
      /\ fn[c] = None
      /\ \A d \in Calls \ {c} : stage'[d] = stage[d] /\ fn'[d] = fn[d] /\ that'[d] = that[d]
  BY <1>1, InvokeKinds DEF Unused, InUse, Purpose
<1>4. ScreenKinds' /\ ObjectKinds'
  <2>1. isConnecting' \in BOOLEAN /\ isConnected' \in BOOLEAN /\ error' \in BOOLEAN
    BY Zenon, <1>1 DEF ScreenKinds
  <2>2. QED
    BY <1>1, <1>3, <2>1 DEF ScreenKinds, ObjectKinds
<1>5. presses = {}
  BY <1>2, RdpNames DEF InUse, Purpose, ScreenKinds, RdpWires
<1>6. InUse'
  BY <1>1, <1>2, <1>3, <1>5 DEF InUse, Purpose
<1>7. Attempt' /\ Learned'
  BY <1>1, <1>2, <1>3 DEF Attempt, Learned, RdpWires, ScreenKinds
<1>8. Session'
  BY <1>1, <1>2 DEF Session, Mounted, ShownIsOpen, StoredIsClosed
<1>9. QED
  BY <1>3, <1>4, <1>6, <1>7, <1>8

(* It goes on after an await.                                              *)
LEMMA ConnectContinues ==
  ASSUME IInv, NEW c \in Calls, ConnectGoesOn(c)
  PROVE  IInv'
<1> USE DEF IInv
<1>1. awaited = c /\ UNCHANGED <<screenVars, awaited, leaves, presses, objectVars>> /\ c \in Own
      /\ rdpConnection = None /\ ~isConnected
  BY DEF ConnectGoesOn, Attempt, ScreenKinds
<1>2. stage[c] = "replied"
  <2>1. stage[c] \in {"free", "replied"}
    BY DEF ConnectGoesOn, Invoke
  <2>2. fn[c] # None
    BY <1>1, RdpNames DEF Learned
  <2>3. QED
    BY <2>1, <2>2 DEF InUse, Purpose
<1>3. /\ rdp' \in Objects /\ handle[rdp'] = "held"
      /\ \E w \in RdpWires \ {"RdpConnection_new", "RdpConnection_disconnect"}, a \in Cards \cup {None} :
             Invoke(c, w, rdp', a)
  BY <1>1, <1>2, RdpNames DEF ConnectGoesOn, Learned, RdpWires, ScreenKinds
<1>4. /\ BridgeKinds' /\ fn'[c] \in RdpWires \ {"RdpConnection_new", "RdpConnection_disconnect"}
      /\ that'[c] = rdp' /\ stage'[c] = "queued"
      /\ \A d \in Calls \ {c} : stage'[d] = stage[d] /\ fn'[d] = fn[d] /\ that'[d] = that[d]
  <2>1. PICK w \in RdpWires \ {"RdpConnection_new", "RdpConnection_disconnect"},
             a \in Cards \cup {None} : Invoke(c, w, rdp', a)
    BY <1>3
  <2>2. rdp' \in Objects \cup {None}
    BY <1>3
  <2>3. BridgeKinds' /\ fn'[c] = w
    BY <2>1, <2>2, InvokeKinds
  <2>4. that'[c] = rdp' /\ stage'[c] = "queued"
    BY <2>1 DEF Invoke, BridgeKinds
  <2>5. \A d \in Calls \ {c} : stage'[d] = stage[d] /\ fn'[d] = fn[d] /\ that'[d] = that[d]
    BY <2>1 DEF Invoke, BridgeKinds
  <2>6. fn'[c] \in RdpWires \ {"RdpConnection_new", "RdpConnection_disconnect"}
    BY Zenon, <2>3, <2>1
  <2>7. QED
    BY Zenon, <2>3, <2>4, <2>5, <2>6
<1>5. ScreenKinds' /\ ObjectKinds'
  <2>1. isConnecting' \in BOOLEAN /\ isConnected' \in BOOLEAN /\ error' \in BOOLEAN
    BY Zenon, <1>1 DEF ScreenKinds
  <2>2. QED
    BY <1>1, <1>3, <2>1 DEF ScreenKinds, ObjectKinds
<1>6. InUse'
  BY <1>1, <1>4 DEF InUse, Purpose, ScreenKinds
<1>7. Attempt' /\ Learned'
  BY <1>1, <1>3, <1>4 DEF Attempt, Learned, ScreenKinds, Mounted
<1>8. Session'
  BY <1>1 DEF Session, Mounted, ShownIsOpen, StoredIsClosed
<1>9. QED
  BY <1>4, <1>5, <1>6, <1>7, <1>8

(* It ends, in a session or an error.                                      *)
LEMMA ConnectEnds ==
  ASSUME IInv, NEW c \in Calls, ConnectDone(c)
  PROVE  IInv'
<1> USE DEF IInv
<1>1. /\ awaited = c /\ TakeReply(c) /\ awaited' = None /\ rdp' = None /\ isConnecting' = FALSE
      /\ UNCHANGED <<route, home, card, leaves, presses, objectVars>>
      /\ rdpConnection = None /\ ~isConnected /\ c \in Own
  BY DEF ConnectDone, Attempt, ScreenKinds
<1>2. /\ BridgeKinds' /\ stage[c] = "replied" /\ fn'[c] = None /\ stage'[c] = "free"
      /\ \A d \in Calls \ {c} : stage'[d] = stage[d] /\ fn'[d] = fn[d] /\ that'[d] = that[d]
  BY <1>1, TakeReplyKinds
<1>3. \/ /\ rdpConnection' = rdp /\ rdp \in Objects /\ handle[rdp] = "held"
         /\ isConnected' = (Mounted /\ reply[c].val) /\ reply[c].val \in BOOLEAN
         /\ reply[c].val = TRUE => rdp \in open
         /\ error' = ~Mounted
      \/ isConnected' = FALSE /\ error' = TRUE /\ rdpConnection' = None
  BY <1>1, <1>2 DEF ConnectDone, Learned
<1>4. isConnecting' \in BOOLEAN /\ isConnected' \in BOOLEAN /\ error' \in BOOLEAN
  BY Zenon, <1>1, <1>3 DEF ScreenKinds
<1>5. ScreenKinds' /\ ObjectKinds'
  BY <1>1, <1>3, <1>4 DEF ScreenKinds, ObjectKinds
<1>6. InUse'
  BY <1>1, <1>2, ZenonT(60) DEF InUse, Purpose, ScreenKinds
<1>7. isConnected' => rdpConnection' = rdp /\ rdp \in open /\ rdp # None
  BY <1>3
<1>8. rdpConnection' # None => handle[rdpConnection'] = "held" /\ (error' <=> ~Mounted)
  BY <1>3
<1>9. Attempt' /\ Learned'
  BY <1>1, <1>7, <1>8 DEF Attempt, Learned, Mounted
<1>10. Session'
  BY <1>1, <1>7, <1>8 DEF Session, Mounted, ShownIsOpen, StoredIsClosed
<1>11. QED
  BY <1>2, <1>5, <1>6, <1>9, <1>10

-----------------------------------------------------------------------------
(* Back, Disconnect and the end of the screen.                             *)
LEMMA LeaveStep ==
  ASSUME IInv, Leave
  PROVE  IInv'
<1> USE DEF IInv
<1>1. /\ UNCHANGED <<bridgeVars, home, card, isConnecting, isConnected, error, rdpConnection,
                     rdp, awaited, presses, objectVars>>
      /\ route = "up" /\ route' = "leaving" /\ leaves' \in 0..MaxLeaves
  BY DEF Leave, ScreenKinds
<1>2. BridgeKinds' /\ ObjectKinds'
  BY <1>1 DEF BridgeKinds, ObjectKinds
<1>3. ScreenKinds'
  <2>1. isConnecting' \in BOOLEAN /\ isConnected' \in BOOLEAN /\ error' \in BOOLEAN
    BY Zenon, <1>1 DEF ScreenKinds
  <2>2. QED
    BY <1>1, <2>1 DEF ScreenKinds
<1>4. InUse' /\ Attempt' /\ Learned'
  BY <1>1 DEF InUse, Purpose, Attempt, Learned, Mounted
<1>5. Session'
  BY <1>1 DEF Session, Mounted, ShownIsOpen, StoredIsClosed
<1>6. QED
  BY <1>2, <1>3, <1>4, <1>5

LEMMA DisconnectBegins ==
  ASSUME IInv, NEW c \in Calls, PressDisconnect(c)
  PROVE  IInv'
<1> USE DEF IInv
<1>1. /\ Unused(c, Own) /\ Invoke(c, "RdpConnection_disconnect", rdpConnection, None)
      /\ presses' = presses \cup {c} /\ leaves' \in 0..MaxLeaves
      /\ UNCHANGED <<screenVars, rdp, awaited, objectVars>> /\ route = "up" /\ isConnected
  BY DEF PressDisconnect, ScreenKinds
<1>2. awaited = None /\ rdpConnection \in Objects /\ rdpConnection # None
  BY <1>1 DEF Attempt, ScreenKinds
<1>3. /\ BridgeKinds' /\ fn'[c] = "RdpConnection_disconnect" /\ c \in Own
      /\ that'[c] = rdpConnection /\ stage'[c] = "queued"
      /\ \A d \in Calls \ {c} : stage'[d] = stage[d] /\ fn'[d] = fn[d] /\ that'[d] = that[d]
  BY <1>1, <1>2, InvokeKinds DEF Unused
<1>4. ScreenKinds' /\ ObjectKinds'
  <2>1. isConnecting' \in BOOLEAN /\ isConnected' \in BOOLEAN /\ error' \in BOOLEAN
    BY Zenon, <1>1 DEF ScreenKinds
  <2>2. QED
    BY <1>1, <1>3, <2>1 DEF ScreenKinds, ObjectKinds
<1>5. InUse'
  <2>1. c # awaited /\ c \notin presses
    <3>1. fn[c] = None
      BY <1>1 DEF InUse, Unused
    <3>2. QED
      BY <3>1, <1>2, RdpNames DEF InUse, RdpWires
  <2>2. ASSUME NEW d \in Calls
        PROVE  /\ stage'[d] = "free" => fn'[d] = None
               /\ fn'[d] # None => Purpose(d)'
    BY <1>1, <1>2, <1>3 DEF InUse, Purpose
  <2>3. ASSUME NEW d \in presses'
        PROVE  fn'[d] = "RdpConnection_disconnect" /\ d # awaited'
    BY <1>1, <1>2, <1>3, <2>1 DEF InUse, ScreenKinds
  <2>4. QED
    BY <2>2, <2>3 DEF InUse
<1>6. Attempt' /\ Learned'
  BY <1>1, <1>2 DEF Attempt, Learned, Mounted
<1>7. Session'
  BY <1>1 DEF Session, Mounted, ShownIsOpen, StoredIsClosed
<1>8. QED
  BY <1>3, <1>4, <1>5, <1>6, <1>7

LEMMA DisconnectEnds ==
  ASSUME IInv, NEW c \in Calls, DisconnectDone(c)
  PROVE  IInv'
<1> USE DEF IInv
<1>1. /\ c \in presses /\ TakeReply(c) /\ presses' = presses \ {c} /\ isConnected' = FALSE
      /\ route' = (IF route = "up" THEN "leaving" ELSE route) /\ home' \in {home, "popped"}
      /\ UNCHANGED <<card, isConnecting, error, rdpConnection, rdp, awaited, leaves, objectVars>>
  BY DEF DisconnectDone
<1>2. /\ BridgeKinds' /\ stage[c] = "replied" /\ fn'[c] = None /\ stage'[c] = "free" /\ c # awaited
      /\ \A d \in Calls \ {c} : /\ stage'[d] = stage[d] /\ fn'[d] = fn[d]
                                  /\ that'[d] = that[d] /\ reply'[d] = reply[d]
  BY <1>1, TakeReplyKinds DEF InUse, Purpose, ScreenKinds
<1>3. ScreenKinds' /\ ObjectKinds'
  <2>1. isConnecting' \in BOOLEAN /\ isConnected' \in BOOLEAN /\ error' \in BOOLEAN
    BY Zenon, <1>1 DEF ScreenKinds
  <2>2. QED
    BY <1>1, <2>1 DEF ScreenKinds, ObjectKinds
<1>4. InUse'
  <2>1. ASSUME NEW d \in Calls, stage'[d] = "free" PROVE fn'[d] = None
    BY <1>2, <2>1 DEF InUse
  <2>2. ASSUME NEW d \in Calls, fn'[d] # None PROVE Purpose(d)'
    <3>1. d # c /\ fn'[d] = fn[d] /\ that'[d] = that[d] /\ Purpose(d)
      BY <1>2, <2>2 DEF InUse
    <3>2. d \in presses' <=> d \in presses
      BY <1>1, <3>1
    <3>3. route = "gone" => route' = "gone"
      BY <1>1
    <3>4. QED
      BY <1>1, <3>1, <3>2, <3>3 DEF Purpose
  <2>3. ASSUME NEW d \in presses'
        PROVE  fn'[d] = "RdpConnection_disconnect" /\ d # awaited'
    <3>1. d \in presses /\ d # c /\ d \in Calls
      BY <1>1 DEF ScreenKinds
    <3>2. QED
      BY <1>1, <1>2, <3>1 DEF InUse
  <2>4. QED
    BY <2>1, <2>2, <2>3 DEF InUse
<1>5. Attempt' /\ Learned'
  BY <1>1, <1>2 DEF Attempt, Learned, Mounted, ScreenKinds
<1>6. Session'
  BY <1>1, <1>2 DEF Session, Mounted, ShownIsOpen, StoredIsClosed, Using, InFlight
<1>7. QED
  BY <1>2, <1>3, <1>4, <1>5, <1>6

LEMMA DisposeStep ==
  ASSUME IInv, NEW c \in Calls, Dispose(c)
  PROVE  IInv'
<1> USE DEF IInv
<1>1. /\ UNCHANGED <<home, card, isConnecting, isConnected, error, rdpConnection, awaitVars, objectVars>>
      /\ route = "leaving" /\ route' = "gone"
  BY DEF Dispose
<1>2. ScreenKinds' /\ ObjectKinds'
  <2>1. isConnecting' \in BOOLEAN /\ isConnected' \in BOOLEAN /\ error' \in BOOLEAN
    BY Zenon, <1>1 DEF ScreenKinds
  <2>2. QED
    BY <1>1, <2>1 DEF ScreenKinds, ObjectKinds
<1>3. CASE rdpConnection = None
  <2>1. UNCHANGED bridgeVars
    BY <1>3 DEF Dispose
  <2>2. BridgeKinds'
    BY <2>1 DEF BridgeKinds
  <2>3. InUse' /\ Attempt' /\ Learned'
    BY <1>1, <1>3, <2>1 DEF InUse, Purpose, Attempt, Learned, Mounted
  <2>4. Session'
    BY <1>1, <1>3 DEF Session, Mounted, ShownIsOpen, StoredIsClosed
  <2>5. QED
    BY <1>2, <2>2, <2>3, <2>4
<1>4. CASE rdpConnection # None
  <2>1. /\ Unused(c, Own) /\ Invoke(c, "RdpConnection_disconnect", rdpConnection, None)
        /\ awaited = None /\ rdpConnection \in Objects
    BY <1>4 DEF Dispose, Attempt, ScreenKinds
  <2>2. /\ BridgeKinds' /\ fn'[c] = "RdpConnection_disconnect" /\ c \in Own /\ fn[c] = None
        /\ that'[c] = rdpConnection /\ stage'[c] = "queued"
        /\ \A d \in Calls \ {c} : stage'[d] = stage[d] /\ fn'[d] = fn[d] /\ that'[d] = that[d]
    BY <2>1, InvokeKinds, ZenonT(60) DEF Unused, InUse, Purpose
  <2>3. InUse'
    <3>1. c \notin presses
      BY <2>2, RdpNames DEF InUse, RdpWires
    <3>2. ASSUME NEW d \in Calls
          PROVE  /\ stage'[d] = "free" => fn'[d] = None
                 /\ fn'[d] # None => Purpose(d)'
      BY <1>1, <1>4, <2>1, <2>2 DEF InUse, Purpose
    <3>3. ASSUME NEW d \in presses'
          PROVE  fn'[d] = "RdpConnection_disconnect" /\ d # awaited'
      BY <1>1, <2>2, <3>1 DEF InUse, ScreenKinds
    <3>4. QED
      BY <3>2, <3>3 DEF InUse
  <2>4. Attempt' /\ Learned'
    BY <1>1, <2>1 DEF Attempt, Learned, Mounted
  <2>5. c \in Using(rdpConnection)'
    BY <2>2, <1>1 DEF Using, InFlight
  <2>6. Session'
    BY <1>1, <2>2, <2>5 DEF Session, Mounted, ShownIsOpen, StoredIsClosed
  <2>7. QED
    BY <1>2, <2>2, <2>3, <2>4, <2>6
<1>5. QED
  BY <1>3, <1>4

(* A reply that nobody waits for, and a call of another part of the app.   *)
LEMMA IgnoredStep ==
  ASSUME IInv, NEW c \in Calls, ReplyIgnored(c)
  PROVE  IInv'
<1> USE DEF IInv
<1>1. /\ c # awaited /\ c \notin presses /\ TakeReply(c)
      /\ UNCHANGED <<screenVars, awaitVars, objectVars>>
  BY DEF ReplyIgnored
<1>2. /\ BridgeKinds' /\ stage[c] = "replied" /\ fn'[c] = None /\ stage'[c] = "free"
      /\ \A d \in Calls \ {c} : /\ stage'[d] = stage[d] /\ fn'[d] = fn[d]
                                  /\ that'[d] = that[d] /\ reply'[d] = reply[d]
  BY <1>1, TakeReplyKinds
<1>3. ScreenKinds' /\ ObjectKinds'
  <2>1. isConnecting' \in BOOLEAN /\ isConnected' \in BOOLEAN /\ error' \in BOOLEAN
    BY Zenon, <1>1 DEF ScreenKinds
  <2>2. QED
    BY <1>1, <2>1 DEF ScreenKinds, ObjectKinds
<1>4. InUse'
  <2>1. ASSUME NEW d \in Calls
        PROVE  /\ stage'[d] = "free" => fn'[d] = None
               /\ fn'[d] # None => Purpose(d)'
    BY <1>1, <1>2 DEF InUse, Purpose
  <2>2. ASSUME NEW d \in presses'
        PROVE  fn'[d] = "RdpConnection_disconnect" /\ d # awaited'
    BY <1>1, <1>2 DEF InUse, ScreenKinds
  <2>3. QED
    BY <2>1, <2>2 DEF InUse
<1>5. Attempt' /\ Learned'
  BY <1>1, <1>2 DEF Attempt, Learned, Mounted, ScreenKinds
<1>6. Session'
  BY <1>1, <1>2 DEF Session, Mounted, ShownIsOpen, StoredIsClosed, Using, InFlight
<1>7. QED
  BY <1>2, <1>3, <1>4, <1>5, <1>6

LEMMA OtherStep ==
  ASSUME IInv, NEW c \in Others, NEW w \in OtherWires, Other(c, w)
  PROVE  IInv'
<1> USE DEF IInv
<1>1. /\ stage[c] = "free" /\ Invoke(c, w, None, None) /\ c \in Calls /\ c \notin Own
      /\ UNCHANGED <<screenVars, awaitVars, objectVars>>
  BY DEF Other, Unused
<1>2. /\ BridgeKinds' /\ fn'[c] = w /\ stage'[c] = "queued"
      /\ \A d \in Calls \ {c} : /\ stage'[d] = stage[d] /\ fn'[d] = fn[d]
                                  /\ that'[d] = that[d] /\ reply'[d] = reply[d]
  BY <1>1, InvokeKinds
<1>3. c # awaited /\ c \notin presses
  BY <1>1 DEF ScreenKinds
<1>4. ScreenKinds' /\ ObjectKinds'
  <2>1. isConnecting' \in BOOLEAN /\ isConnected' \in BOOLEAN /\ error' \in BOOLEAN
    BY Zenon, <1>1 DEF ScreenKinds
  <2>2. QED
    BY <1>1, <2>1 DEF ScreenKinds, ObjectKinds
<1>5. InUse'
  BY <1>1, <1>2, <1>3, ZenonT(60) DEF InUse, Purpose, ScreenKinds
<1>6. Attempt' /\ Learned'
  BY <1>1, <1>2, <1>3 DEF Attempt, Learned, Mounted, ScreenKinds
<1>7. Session'
  BY <1>1, <1>2 DEF Session, Mounted, ShownIsOpen, StoredIsClosed, Using, InFlight
<1>8. QED
  BY <1>2, <1>4, <1>5, <1>6, <1>7

-----------------------------------------------------------------------------
(* A method that runs is one of the attempt, or the disconnect of the      *)
(* session that is stored.                                                 *)
LEMMA RunsFor ==
  ASSUME IInv, NEW c \in Calls, fn[c] \in RdpWires
  PROVE  /\ c \in Own
         /\ fn[c] # "RdpConnection_disconnect" => c = awaited /\ rdpConnection = None /\ ~isConnected
         /\ fn[c] = "RdpConnection_disconnect" =>
               /\ c # awaited /\ awaited = None /\ rdpConnection # None /\ that[c] = rdpConnection
               /\ c \in presses \/ route = "gone"
<1> USE DEF IInv
<1>1. fn[c] # None /\ fn[c] \notin OtherWires
  BY RdpNames
<1>2. Purpose(c)
  BY <1>1 DEF InUse
<1>3. awaited # None => rdpConnection = None /\ ~isConnected
  BY DEF Attempt
<1>4. c = awaited => fn[c] # "RdpConnection_disconnect"
  BY DEF Learned
<1>5. QED
  BY <1>1, <1>2, <1>3, <1>4 DEF Purpose, ScreenKinds

(* What the end of a function leaves as it was.                            *)
LEMMA ReturnLeaves ==
  ASSUME IInv, NEW c \in Calls, NEW r \in [ok: BOOLEAN, val: Objects \cup BOOLEAN \cup {None}],
         Return(c, r), UNCHANGED <<screenVars, awaitVars>>
  PROVE  BridgeKinds' /\ ScreenKinds' /\ InUse' /\ Attempt'
<1> USE DEF IInv
<1>1. /\ BridgeKinds' /\ UNCHANGED <<fn, that>> /\ stage'[c] = "replied"
      /\ \A d \in Calls \ {c} : stage'[d] = stage[d]
  BY ReturnKinds
<1>2. ScreenKinds'
  <2>1. isConnecting' \in BOOLEAN /\ isConnected' \in BOOLEAN /\ error' \in BOOLEAN
    BY Zenon DEF ScreenKinds
  <2>2. QED
    BY <2>1 DEF ScreenKinds
<1>3. InUse'
  BY <1>1 DEF InUse, Purpose
<1>4. Attempt'
  BY DEF Attempt, Mounted
<1>5. QED
  BY <1>1, <1>2, <1>3, <1>4

(* A step of the attempt's call: no session is stored or shown.            *)
LEMMA NewStep ==
  ASSUME IInv, NEW c \in Calls, New(c), UNCHANGED <<screenVars, awaitVars>>
  PROVE  IInv'
<1> USE DEF IInv
<1>1. c = awaited /\ rdpConnection = None /\ ~isConnected /\ fn[c] = "RdpConnection_new"
  BY RunsFor DEF New, RdpWires
<1>2. PICK o \in Objects : /\ handle' = [handle EXCEPT ![o] = "held"]
                           /\ Return(c, [ok |-> TRUE, val |-> o])
  BY DEF New
<1> DEFINE r == [ok |-> TRUE, val |-> o]
<1>3. r \in [ok: BOOLEAN, val: Objects \cup BOOLEAN \cup {None}] /\ r.ok /\ r.val = o
  OBVIOUS
<1>4. Return(c, r)
  BY <1>2
<1> HIDE DEF r
<1>5. BridgeKinds' /\ ScreenKinds' /\ InUse' /\ Attempt'
  BY <1>3, <1>4, ReturnLeaves
<1>6. UNCHANGED fn /\ reply'[c] = r
  BY <1>3, <1>4, ReturnKinds
<1>7. ObjectKinds' /\ handle'[o] = "held"
  BY <1>2 DEF ObjectKinds, New
<1>8. Learned'
  BY <1>1, <1>3, <1>6, <1>7 DEF Learned
<1>9. Session'
  BY <1>1 DEF Session, Mounted, ShownIsOpen, StoredIsClosed
<1>10. QED
  BY <1>5, <1>7, <1>8, <1>9

LEMMA ConnectStep ==
  ASSUME IInv, NEW c \in Calls, Connect(c), UNCHANGED <<screenVars, awaitVars>>
  PROVE  IInv'
<1> USE DEF IInv
<1>1. c = awaited /\ rdpConnection = None /\ ~isConnected /\ fn[c] = "RdpConnection_connect"
  BY RunsFor DEF Connect, RdpWires
<1>2. rdp \in Objects /\ handle[rdp] = "held" /\ that[c] = rdp
  BY <1>1 DEF Learned, ScreenKinds
<1>3. PICK end \in ConnectRdp :
        /\ Return(c, [ok |-> end = "session", val |-> None])
        /\ open' = (open \cup IF end = "session" THEN {that[c]} ELSE {}) \ Dropped(c)
  BY DEF Connect
<1> DEFINE r == [ok |-> end = "session", val |-> None]
<1>4. r \in [ok: BOOLEAN, val: Objects \cup BOOLEAN \cup {None}]
  OBVIOUS
<1>5. Return(c, r)
  BY <1>3
<1> HIDE DEF r
<1>6. BridgeKinds' /\ ScreenKinds' /\ InUse' /\ Attempt'
  BY <1>4, <1>5, ReturnLeaves
<1>7. UNCHANGED <<fn, that, handle>>
  BY <1>4, <1>5, ReturnKinds DEF Connect
<1>8. ObjectKinds'
  BY <1>2, <1>3, <1>7 DEF ObjectKinds
<1>9. Learned'
  BY <1>1, <1>2, <1>7 DEF Learned, RdpWires
<1>10. Session'
  BY <1>1 DEF Session, Mounted, ShownIsOpen, StoredIsClosed
<1>11. QED
  BY <1>6, <1>8, <1>9, <1>10

(* The attempt holds its object, which therefore loses no session.         *)
LEMMA AskStep ==
  ASSUME IInv, NEW c \in Calls, Ask(c), UNCHANGED <<screenVars, awaitVars>>
  PROVE  IInv'
<1> USE DEF IInv
<1>1. /\ c = awaited /\ rdpConnection = None /\ ~isConnected
      /\ fn[c] \in {"RdpConnection_get_size", "RdpConnection_is_connected"}
  BY RunsFor DEF Ask, RdpWires
<1>2. rdp \in Objects /\ handle[rdp] = "held" /\ that[c] = rdp
  BY <1>1 DEF Learned, ScreenKinds
<1>3. PICK v \in BOOLEAN \cup {None} :
        /\ Return(c, [ok |-> TRUE, val |-> v])
        /\ fn[c] = "RdpConnection_is_connected" => v \in BOOLEAN /\ (v = TRUE => rdp \in open)
  <2>1. CASE fn[c] = "RdpConnection_get_size"
    BY <2>1 DEF Ask
  <2>2. CASE fn[c] = "RdpConnection_is_connected"
    <3>1. Return(c, [ok |-> TRUE, val |-> that[c] \in open])
      BY <2>2 DEF Ask
    <3>2. CASE rdp \in open
      <4>1. (that[c] \in open) = TRUE
        BY <1>2, <3>2
      <4>2. Return(c, [ok |-> TRUE, val |-> TRUE])
        BY Zenon, <3>1, <4>1
      <4>3. QED
        BY <3>2, <4>2
    <3>3. CASE rdp \notin open
      <4>1. (that[c] \in open) = FALSE
        BY <1>2, <3>3
      <4>2. Return(c, [ok |-> TRUE, val |-> FALSE])
        BY Zenon, <3>1, <4>1
      <4>3. QED
        BY <4>2
    <3>4. QED
      BY <3>2, <3>3
  <2>3. QED
    BY <1>1, <2>1, <2>2
<1> DEFINE r == [ok |-> TRUE, val |-> v]
<1>4. r \in [ok: BOOLEAN, val: Objects \cup BOOLEAN \cup {None}] /\ r.val = v
  OBVIOUS
<1>5. Return(c, r)
  BY <1>3
<1> HIDE DEF r
<1>6. BridgeKinds' /\ ScreenKinds' /\ InUse' /\ Attempt'
  BY <1>4, <1>5, ReturnLeaves
<1>7. UNCHANGED <<fn, that, handle>> /\ reply'[c] = r
  BY <1>4, <1>5, ReturnKinds DEF Ask
<1>8. open' = open \ Dropped(c) /\ rdp \notin Dropped(c)
  BY <1>2 DEF Ask, Dropped
<1>9. ObjectKinds'
  BY <1>7, <1>8 DEF ObjectKinds
<1>10. fn[c] = "RdpConnection_is_connected" => v \in BOOLEAN /\ (v = TRUE => rdp \in open')
  BY <1>2, <1>3, <1>8
<1>11. Learned'
  BY <1>1, <1>2, <1>4, <1>7, <1>10 DEF Learned, RdpWires
<1>12. Session'
  BY <1>1 DEF Session, Mounted, ShownIsOpen, StoredIsClosed
<1>13. QED
  BY <1>6, <1>9, <1>11, <1>12

(* The session that is stored is closed.                                   *)
LEMMA DisconnectStep ==
  ASSUME IInv, NEW c \in Calls, Disconnect(c), UNCHANGED <<screenVars, awaitVars>>
  PROVE  IInv'
<1> USE DEF IInv
<1>1. /\ awaited = None /\ rdpConnection # None /\ that[c] = rdpConnection
      /\ c \in presses \/ route = "gone"
  BY RunsFor DEF Disconnect, RdpWires
<1> DEFINE r == [ok |-> TRUE, val |-> None]
<1>2. r \in [ok: BOOLEAN, val: Objects \cup BOOLEAN \cup {None}] /\ Return(c, r)
  BY DEF Disconnect
<1> HIDE DEF r
<1>3. BridgeKinds' /\ ScreenKinds' /\ InUse' /\ Attempt'
  BY <1>2, ReturnLeaves
<1>4. open' \subseteq open /\ rdpConnection \notin open' /\ UNCHANGED handle
  BY <1>1 DEF Disconnect
<1>5. ObjectKinds'
  BY <1>4 DEF ObjectKinds
<1>6. Learned'
  BY <1>1 DEF Learned
<1>7. Session'
  BY <1>1, <1>4 DEF Session, Mounted, ShownIsOpen, StoredIsClosed
<1>8. QED
  BY <1>3, <1>5, <1>6, <1>7

(* What another part of the app called returns.                            *)
LEMMA OtherReturnStep ==
  ASSUME IInv, NEW c \in Calls, OtherReturns(c), UNCHANGED <<screenVars, awaitVars>>
  PROVE  IInv'
<1> USE DEF IInv
<1>1. c \in Others /\ c \notin Own /\ UNCHANGED <<handle, open>> /\ Return(c, NoReply)
  BY DEF OtherReturns
<1>2. fn[c] \notin RdpWires
  BY <1>1, RunsFor
<1>3. NoReply \in [ok: BOOLEAN, val: Objects \cup BOOLEAN \cup {None}]
  BY DEF NoReply
<1>4. BridgeKinds' /\ ScreenKinds' /\ InUse' /\ Attempt'
  BY <1>1, <1>3, ReturnLeaves
<1>5. /\ UNCHANGED <<fn, that>>
      /\ \A d \in Calls \ {c} : stage'[d] = stage[d] /\ reply'[d] = reply[d]
  BY <1>1, <1>3, ReturnKinds
<1>6. ObjectKinds'
  BY <1>1 DEF ObjectKinds
<1>7. Learned'
  BY <1>1, <1>5 DEF Learned, ScreenKinds
<1>8. \A d \in Calls : fn[d] = "RdpConnection_disconnect" /\ InFlight(d) => InFlight(d)'
  BY <1>2, <1>5 DEF InFlight, RdpWires
<1>9. Session'
  BY <1>1, <1>5, <1>8 DEF Session, Mounted, ShownIsOpen, StoredIsClosed, Using
<1>10. QED
  BY <1>4, <1>6, <1>7, <1>9

(* The collector takes only what neither the attempt nor the screen holds. *)
LEMMA CollectStep ==
  ASSUME IInv, NEW o \in Objects, Collect(o)
  PROVE  IInv'
<1> USE DEF IInv
<1>1. /\ UNCHANGED <<bridgeVars, screenVars, awaitVars>>
      /\ handle' = [handle EXCEPT ![o] = "collected"]
      /\ open' \subseteq open /\ open \ {o} \subseteq open'
      /\ rdp # o /\ (awaited # None => reply[awaited].val # o)
      /\ rdpConnection = o => ~Mounted
  BY DEF Collect, Reachable
<1>2. ObjectKinds' /\ \A p \in Objects \ {o} : handle'[p] = handle[p]
  BY <1>1 DEF ObjectKinds
<1>3. BridgeKinds'
  BY <1>1 DEF BridgeKinds
<1>4. ScreenKinds'
  <2>1. isConnecting' \in BOOLEAN /\ isConnected' \in BOOLEAN /\ error' \in BOOLEAN
    BY Zenon, <1>1 DEF ScreenKinds
  <2>2. QED
    BY <1>1, <2>1 DEF ScreenKinds
<1>5. InUse' /\ Attempt'
  BY <1>1 DEF InUse, Purpose, Attempt, Mounted
<1>6. Learned'
  BY <1>1, <1>2 DEF Learned
<1>7. Session'
  BY <1>1, <1>2 DEF Session, Mounted, ShownIsOpen, StoredIsClosed, Using, InFlight, ScreenKinds
<1>8. QED
  BY <1>2, <1>3, <1>4, <1>5, <1>6, <1>7

-----------------------------------------------------------------------------
(* Every step of the specification preserves IInv.                         *)
LEMMA IInvStep == IInv /\ [Next]_vars => IInv'
<1> SUFFICES ASSUME IInv, [Next]_vars PROVE IInv'
  OBVIOUS
<1>1. ASSUME NEW c \in Calls, OpenScreen(c) \/ Retry(c) PROVE IInv'
  BY <1>1, ConnectBegins
<1>2. ASSUME NEW c \in Calls, PressDisconnect(c) PROVE IInv'
  BY <1>2, DisconnectBegins
<1>3. ASSUME NEW c \in Calls, Dispose(c) PROVE IInv'
  BY <1>3, DisposeStep
<1>4. ASSUME NEW c \in Calls, ConnectGoesOn(c) PROVE IInv'
  BY <1>4, ConnectContinues
<1>5. ASSUME NEW c \in Calls, ConnectDone(c) PROVE IInv'
  BY <1>5, ConnectEnds
<1>6. ASSUME NEW c \in Calls, DisconnectDone(c) PROVE IInv'
  BY <1>6, DisconnectEnds
<1>7. ASSUME NEW c \in Calls, ReplyIgnored(c) PROVE IInv'
  BY <1>7, IgnoredStep
<1>8. ASSUME NEW c \in Calls, Method(c) PROVE IInv'
  <2>1. UNCHANGED <<screenVars, awaitVars>>
    BY <1>8 DEF Method
  <2>2. CASE New(c)
    BY <2>1, <2>2, NewStep
  <2>3. CASE Connect(c)
    BY <2>1, <2>3, ConnectStep
  <2>4. CASE Disconnect(c)
    BY <2>1, <2>4, DisconnectStep
  <2>5. CASE Ask(c)
    BY <2>1, <2>5, AskStep
  <2>6. CASE OtherReturns(c)
    BY <2>1, <2>6, OtherReturnStep
  <2>7. QED
    BY <1>8, <2>2, <2>3, <2>4, <2>5, <2>6 DEF Method
<1>9. ASSUME NEW c \in Others, NEW w \in OtherWires, Other(c, w) PROVE IInv'
  BY <1>9, OtherStep
<1>10. ASSUME NEW o \in Objects, Collect(o) PROVE IInv'
  BY <1>10, CollectStep
<1>11. CASE Leave
  BY <1>11, LeaveStep
<1>12. CASE OnBridge \/ PressLock \/ \E c \in Calls : Entered(c)
  BY <1>12, QuietStep
<1>13. CASE UNCHANGED vars
  <2>1. /\ UNCHANGED <<stage, fn, that, reply, queue, blocked>>
        /\ UNCHANGED <<route, home, card, isConnecting, isConnected, error, rdpConnection>>
        /\ UNCHANGED <<rdp, awaited, leaves, presses, handle, open>>
    BY <1>13 DEF vars
  <2>2. BridgeKinds' /\ ObjectKinds' /\ InUse' /\ Attempt' /\ Learned' /\ Session'
    BY <2>1 DEF IInv, BridgeKinds, ObjectKinds, InUse, Purpose, Attempt, Learned, Session, Mounted,
                ShownIsOpen, StoredIsClosed, Using, InFlight
  <2>3. ScreenKinds'
    BY Zenon, <2>1 DEF IInv, ScreenKinds
  <2>4. QED
    BY <2>2, <2>3 DEF IInv
<1>14. QED
  BY <1>1, <1>2, <1>3, <1>4, <1>5, <1>6, <1>7, <1>8, <1>9, <1>10, <1>11, <1>12, <1>13
     DEF Next, Resume

LEMMA IInvariant == Spec => []IInv
BY InitIInv, IInvStep, PTL DEF Spec

(* A screen that says Connected holds an open session: neither the garbage *)
(* collector nor the answers to earlier calls close it before a Disconnect *)
(* is pressed (rdp_session_screen.dart:37-48, 65-70).                      *)
THEOREM ConnectedIsOpen == Spec => []ShownIsOpen
<1>1. IInv => ShownIsOpen
  BY DEF IInv, Session
<1>2. QED
  BY <1>1, IInvariant, PTL

(* When dispose found a session stored it is closed or a disconnect of it  *)
(* is in flight (rdp_session_screen.dart:25-28), in whatever order the     *)
(* calls return.                                                           *)
THEOREM LeftSessionCloses == Spec => []StoredIsClosed
<1>1. IInv => StoredIsClosed
  BY DEF IInv, Session
<1>2. QED
  BY <1>1, IInvariant, PTL

-----------------------------------------------------------------------------
(* A card is a Connection, and comes out of the codec as it went in.       *)
LEMMA RoundTrips == \A a \in Cards : Decoded[a] = a
<1>1. \A a \in Cards : DecodeConnection(EncodeConnection(a)).val = a
  BY CodecRoundTrips
<1>2. QED
  BY <1>1, Zenon DEF Decoded

(* The connection is passed on as it was pressed, and never to another     *)
(* attempt's object.                                                       *)
CardInv ==
    /\ arg \in [Calls -> Cards \cup {None}]
    /\ login \in [Objects -> {Login(a) : a \in Cards} \cup {None}]
    /\ route # "none" => card \in Cards
    /\ awaited # None /\ fn[awaited] = "RdpConnection_connect" => arg[awaited] = card
    /\ \A o \in Objects : login[o] # None => route # "none" /\ login[o] = Login(card)

LEMMA InitCardInv == Init => CardInv
BY DEF Init, BridgeInit, CardInv

(* What the steps of the bridge do to the arguments.                       *)
LEMMA InvokeArg ==
  ASSUME NEW c \in Calls, NEW w, NEW o, NEW a \in Cards \cup {None},
         Invoke(c, w, o, a), arg \in [Calls -> Cards \cup {None}]
  PROVE  arg' = [arg EXCEPT ![c] = a] /\ arg' \in [Calls -> Cards \cup {None}]
BY RoundTrips DEF Invoke

(* A call that is not the attempt's begins or ends.                        *)
LEMMA CardElsewhere ==
  ASSUME IInv, CardInv, arg' \in [Calls -> Cards \cup {None}], UNCHANGED <<card, awaited, login>>,
         route # "none" => route' # "none", route = "none" => route' = "none",
         NEW c, c # awaited, \A d \in Calls \ {c} : fn'[d] = fn[d] /\ arg'[d] = arg[d]
  PROVE  CardInv'
<1>1. awaited # None => awaited \in Calls
  BY DEF IInv, ScreenKinds
<1>2. QED
  BY <1>1 DEF CardInv

LEMMA CardStep == IInv /\ CardInv /\ [Next]_vars => CardInv'
<1> SUFFICES ASSUME IInv, CardInv, [Next]_vars PROVE CardInv'
  OBVIOUS
<1> USE DEF IInv
<1>1. ASSUME NEW c \in Calls, OpenScreen(c) PROVE CardInv'
  <2>1. /\ Invoke(c, "RdpConnection_new", None, None) /\ awaited' = c /\ route' = "up"
        /\ card' \in Cards /\ UNCHANGED login /\ route = "none"
    BY <1>1 DEF OpenScreen, BeginConnect
  <2>2. arg' \in [Calls -> Cards \cup {None}] /\ fn'[c] = "RdpConnection_new"
    BY <2>1, InvokeArg DEF CardInv, Invoke, BridgeKinds
  <2>3. QED
    BY <2>1, <2>2 DEF CardInv
<1>2. ASSUME NEW c \in Calls, Retry(c) PROVE CardInv'
  <2>1. /\ Invoke(c, "RdpConnection_new", None, None) /\ awaited' = c
        /\ UNCHANGED <<route, card, login>>
    BY <1>2 DEF Retry, BeginConnect
  <2>2. arg' \in [Calls -> Cards \cup {None}] /\ fn'[c] = "RdpConnection_new"
    BY <2>1, InvokeArg DEF CardInv, Invoke, BridgeKinds
  <2>3. QED
    BY <2>1, <2>2 DEF CardInv
<1>3. ASSUME NEW c \in Calls, ConnectGoesOn(c) PROVE CardInv'
  <2>1. awaited = c /\ UNCHANGED <<route, card, awaited, login>> /\ card \in Cards
    BY <1>3 DEF ConnectGoesOn, Attempt, CardInv, ScreenKinds
  <2>2. /\ arg' \in [Calls -> Cards \cup {None}]
        /\ fn'[c] = "RdpConnection_connect" => arg'[c] = card
    <3>1. CASE Invoke(c, "RdpConnection_connect", rdp', card)
      BY <2>1, <3>1, RoundTrips DEF Invoke, CardInv
    <3>2. CASE \/ Invoke(c, "RdpConnection_get_size", rdp, None)
               \/ Invoke(c, "RdpConnection_is_connected", rdp, None)
      BY <3>2 DEF Invoke, CardInv, BridgeKinds
    <3>3. QED
      BY <1>3, <3>1, <3>2 DEF ConnectGoesOn
  <2>3. QED
    BY <2>1, <2>2 DEF CardInv
<1>4. ASSUME NEW c \in Calls, ConnectDone(c) PROVE CardInv'
  <2>1. awaited' = None /\ UNCHANGED <<route, card, login>> /\ arg' = [arg EXCEPT ![c] = None]
    BY <1>4 DEF ConnectDone, TakeReply
  <2>2. QED
    BY <2>1 DEF CardInv
<1>5. ASSUME NEW c \in Calls, DisconnectDone(c) \/ ReplyIgnored(c) PROVE CardInv'
  <2>1. /\ TakeReply(c) /\ c # awaited /\ UNCHANGED <<card, awaited, login>>
        /\ route' = route \/ (route = "up" /\ route' = "leaving")
    BY <1>5 DEF DisconnectDone, ReplyIgnored, InUse
  <2>2. /\ arg' \in [Calls -> Cards \cup {None}]
        /\ \A d \in Calls \ {c} : fn'[d] = fn[d] /\ arg'[d] = arg[d]
    BY <2>1 DEF TakeReply, CardInv, BridgeKinds
  <2>3. QED
    BY <2>1, <2>2, CardElsewhere
<1>6. ASSUME NEW c \in Calls, NEW w, NEW o, Invoke(c, w, o, None), c # awaited,
             UNCHANGED <<card, awaited, login>>,
             route' = route \/ (route = "leaving" /\ route' = "gone")
      PROVE  CardInv'
  <2>1. /\ arg' \in [Calls -> Cards \cup {None}]
        /\ \A d \in Calls \ {c} : fn'[d] = fn[d] /\ arg'[d] = arg[d]
    BY <1>6 DEF Invoke, CardInv, BridgeKinds
  <2>2. QED
    BY <1>6, <2>1, CardElsewhere
<1>7. ASSUME NEW c \in Calls, PressDisconnect(c) PROVE CardInv'
  <2>1. awaited = None
    BY <1>7 DEF PressDisconnect, Attempt
  <2>2. QED
    BY <1>6, <1>7, <2>1 DEF PressDisconnect
<1>8. UNCHANGED <<fn, arg, route, card, awaited, login>> => CardInv'
  BY DEF CardInv
<1>9. ASSUME NEW c \in Calls, Dispose(c) PROVE CardInv'
  <2>1. rdpConnection # None => c # awaited
    BY DEF Attempt
  <2>2. CASE rdpConnection = None
    BY <1>9, <2>2 DEF Dispose, CardInv
  <2>3. CASE rdpConnection # None
    BY <1>6, <1>9, <2>1, <2>3 DEF Dispose
  <2>4. QED
    BY <2>2, <2>3
<1>10. ASSUME NEW c \in Others, NEW w \in OtherWires, Other(c, w) PROVE CardInv'
  <2>1. c \in Calls /\ c # awaited
    BY DEF ScreenKinds
  <2>2. QED
    BY <1>6, <1>10, <2>1 DEF Other
<1>11. ASSUME NEW c \in Calls, Method(c) PROVE CardInv'
  <2>1. UNCHANGED <<fn, arg, route, card, awaited>>
    BY <1>11 DEF Method, New, Connect, Disconnect, Ask, OtherReturns, Return
  <2>2. CASE Connect(c)
    <3>1. c = awaited /\ fn[c] = "RdpConnection_connect"
      BY <2>2, RunsFor DEF Connect, RdpWires
    <3>2. login' = [login EXCEPT ![that[c]] = Login(card)] /\ route # "none"
      BY <2>2, <3>1 DEF Connect, CardInv, Attempt
    <3>3. QED
      BY <2>1, <3>2 DEF CardInv
  <2>3. CASE UNCHANGED login
    BY <1>8, <2>1, <2>3
  <2>4. QED
    BY <1>11, <2>2, <2>3 DEF Method, New, Disconnect, Ask, OtherReturns
<1>12. CASE \/ OnBridge \/ PressLock \/ (\E c \in Calls : Entered(c)) \/ UNCHANGED vars
            \/ \E o \in Objects : Collect(o)
  BY <1>8, <1>12 DEF OnBridge, Claim, EndSync, PressLock, BeginSync, Entered, Enter, Collect, vars
<1>13. CASE Leave
  BY <1>13 DEF Leave, CardInv
<1>14. QED
  BY <1>1, <1>2, <1>3, <1>4, <1>5, <1>7, <1>9, <1>10, <1>11, <1>12, <1>13 DEF Next, Resume

LEMMA CardInvariant == Spec => []CardInv
BY InitCardInv, CardStep, IInvariant, PTL DEF Spec

(* Every object calls the server of the card that was pressed and logs in  *)
(* as its user, whatever other calls and attempts there are                *)
(* (rdp_session_screen.dart:37-38, rdp.rs connect).                        *)
THEOREM PressedCardArrives == Spec => []CardArrives
<1>1. CardInv => CardArrives
  BY DEF CardInv, CardArrives
<1>2. QED
  BY <1>1, CardInvariant, PTL

(* Every variable holds a value of its kind.                               *)
THEOREM RdpTypeCorrect == Spec => []TypeOK
<1>1. IInv /\ CardInv => TypeOK
  <2> SUFFICES ASSUME IInv, CardInv PROVE TypeOK
    OBVIOUS
  <2>1. {isConnecting, isConnected, error} \subseteq BOOLEAN
    BY Zenon DEF IInv, ScreenKinds
  <2>2. QED
    BY <2>1 DEF IInv, BridgeKinds, ScreenKinds, ObjectKinds, CardInv, TypeOK
<1>2. QED
  BY <1>1, IInvariant, CardInvariant, PTL
=============================================================================
