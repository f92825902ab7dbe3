------------------------------ MODULE RdpSession ------------------------------
(***************************************************************************)
(* The screen of an RDP session (rdp_session_screen.dart), the             *)
(* RdpConnection objects it makes (rdp.rs), and what else the app has in   *)
(* flight on the bridge: calls that take the vault, SSH calls whose host   *)
(* may never answer, and Lock.  The screen is opened once for a card, may  *)
(* retry, and may be left at any time; every await resumes whether or not  *)
(* it is still there.  setState on a disposed screen first runs its        *)
(* function, then throws (release build).                                  *)
(***************************************************************************)
EXTENDS Bridge

CONSTANTS
    Own,        \* the calls that the screen may have in flight
    Others,     \* the calls that the rest of the app may have in flight
    OtherWires, \* the functions they are for
    MaxLeaves   \* bound: times that Back or Disconnect is pressed

(* The functions that no other part of the app calls.                      *)
RdpWires == {"RdpConnection_new", "RdpConnection_connect", "RdpConnection_get_size",
             "RdpConnection_is_connected", "RdpConnection_disconnect"}

ASSUME RdpAssumption ==
    /\ Own \cap Others = {} /\ Own \cup Others = Calls /\ Calls \subseteq Nat
    /\ OtherWires \subseteq PrimaryNames \ RdpWires
    /\ MaxLeaves \in Nat

VARIABLES
    route,      \* the screen: "none", "up", "leaving" (its exit transition), "gone"
    home,       \* HomeScreen below it: "open", "locked" (VaultScreen has replaced it), "popped"
    card,       \* widget.connection
    isConnecting, isConnected, error, \* the fields of the state
    rdpConnection,  \* the field _rdpConnection
    rdp,        \* the local variable of _connect
    awaited,    \* the call that _connect awaits
    leaves,     \* how often Back or Disconnect was pressed
    presses,    \* the calls that a press of Disconnect awaits
    handle,     \* Dart's handle of each object: "none", "held", "collected"
    open,       \* the objects whose `framed` is Some, a session with the server
    login       \* the server and the credentials of each object's last connect

screenVars == <<route, home, card, isConnecting, isConnected, error, rdpConnection>>
awaitVars == <<rdp, awaited, leaves, presses>>
objectVars == <<handle, open, login>>
vars == <<bridgeVars, screenVars, awaitVars, objectVars>>

Init ==
    /\ BridgeInit
    /\ route = "none" /\ home = "open" /\ card = None
    /\ isConnecting = FALSE /\ isConnected = FALSE /\ error = FALSE
    /\ rdpConnection = None /\ rdp = None /\ awaited = None
    /\ leaves = 0 /\ presses = {}
    /\ handle = [o \in Objects |-> "none"] /\ open = {} /\ login = [o \in Objects |-> None]

Mounted == route \in {"up", "leaving"}

(* Which of the free calls in C is taken makes no odds.                    *)
Unused(c, C) == c \in C /\ stage[c] = "free" /\ \A d \in C : stage[d] = "free" => c <= d

-----------------------------------------------------------------------------
(* _connect up to its first await.                                         *)
BeginConnect(c) ==
    /\ Unused(c, Own) /\ Invoke(c, "RdpConnection_new", None, None)
    /\ awaited' = c
    /\ isConnecting' = TRUE /\ error' = FALSE
    /\ UNCHANGED <<isConnected, rdpConnection, rdp, leaves, presses, objectVars>>

OpenScreen(c) ==
    /\ route = "none" /\ home = "open" /\ route' = "up"
    /\ card' \in Cards
    /\ BeginConnect(c)
    /\ UNCHANGED home

(* The screen shows an error; the next attempt makes another object.       *)
Retry(c) ==
    /\ route = "up" /\ error /\ ~isConnecting
    /\ \E o \in Objects : handle[o] = "none"
    /\ BeginConnect(c)
    /\ UNCHANGED <<route, home, card>>

(* _connect goes on after each of its four awaits.                         *)
ConnectGoesOn(c) ==
    /\ awaited = c /\ reply[c].ok
    /\ \/ /\ fn[c] = "RdpConnection_new"
          /\ rdp' = reply[c].val
          /\ Invoke(c, "RdpConnection_connect", rdp', card)
       \/ /\ fn[c] = "RdpConnection_connect" /\ UNCHANGED rdp
          /\ Invoke(c, "RdpConnection_get_size", rdp, None)
       \/ /\ fn[c] = "RdpConnection_get_size" /\ UNCHANGED rdp
          /\ Invoke(c, "RdpConnection_is_connected", rdp, None)
    /\ UNCHANGED <<screenVars, awaited, leaves, presses, objectVars>>

(* Mutant: the object is stored as soon as there is one. *)
ConnectDoneUnchecked(c) ==
    /\ awaited = c /\ TakeReply(c)
    /\ fn[c] = "RdpConnection_is_connected" \/ ~reply[c].ok
    /\ rdpConnection' = rdp /\ isConnected' = TRUE /\ error' = ~Mounted
    /\ isConnecting' = FALSE
    /\ rdp' = None /\ awaited' = None
    /\ UNCHANGED <<route, home, card, leaves, presses, objectVars>>

(* The end of _connect.  On a disposed screen setState stores the object,  *)
(* throws, and the catch clause marks it as failed and throws for good.    *)
ConnectDone(c) ==
    /\ awaited = c /\ TakeReply(c)
    /\ \/ /\ reply[c].ok /\ fn[c] = "RdpConnection_is_connected"
          /\ rdpConnection' = rdp
          /\ isConnected' = (Mounted /\ reply[c].val)
          /\ error' = ~Mounted
       \/ /\ ~reply[c].ok
          /\ isConnected' = FALSE /\ error' = TRUE /\ UNCHANGED rdpConnection
    /\ isConnecting' = FALSE
    /\ rdp' = None /\ awaited' = None
    /\ UNCHANGED <<route, home, card, leaves, presses, objectVars>>

(* The back arrow, or Close beside the error.                              *)
Leave ==
    /\ DartRuns /\ route = "up" /\ leaves < MaxLeaves
    /\ route' = "leaving" /\ leaves' = leaves + 1
    /\ UNCHANGED <<bridgeVars, home, card, isConnecting, isConnected, error, rdpConnection,
                   rdp, awaited, presses, objectVars>>

(* The Disconnect button, there while _isConnected.                        *)
PressDisconnect(c) ==
    /\ route = "up" /\ isConnected /\ leaves < MaxLeaves
    /\ Unused(c, Own) /\ Invoke(c, "RdpConnection_disconnect", rdpConnection, None)
    /\ presses' = presses \cup {c} /\ leaves' = leaves + 1
    /\ UNCHANGED <<screenVars, rdp, awaited, objectVars>>

(* disconnect returned: pop, if mounted.  A screen in its exit transition  *)
(* is mounted but no longer the top route: then HomeScreen is popped.      *)
DisconnectDone(c) ==
    /\ c \in presses /\ TakeReply(c)
    /\ presses' = presses \ {c}
    /\ isConnected' = FALSE
    /\ route' = IF route = "up" THEN "leaving" ELSE route
    /\ home' = IF route = "leaving" THEN "popped" ELSE home
    /\ UNCHANGED <<card, isConnecting, error, rdpConnection, rdp, awaited, leaves, objectVars>>

(* Mutant: dispose leaves the session to the garbage collector. *)
DisposeOnly(c) ==
    /\ DartRuns /\ route = "leaving" /\ route' = "gone"
    /\ UNCHANGED <<bridgeVars, home, card, isConnecting, isConnected, error, rdpConnection,
                   awaitVars, objectVars>>

(* The transition ends; dispose disconnects and does not wait.             *)
Dispose(c) ==
    /\ DartRuns /\ route = "leaving" /\ route' = "gone"
    /\ IF rdpConnection # None
       THEN Unused(c, Own) /\ Invoke(c, "RdpConnection_disconnect", rdpConnection, None)
       ELSE UNCHANGED bridgeVars
    /\ UNCHANGED <<home, card, isConnecting, isConnected, error, rdpConnection,
                   awaitVars, objectVars>>

(* The reply to dispose's disconnect, and to other calls of the app.       *)
ReplyIgnored(c) ==
    /\ c # awaited /\ c \notin presses
    /\ TakeReply(c)
    /\ UNCHANGED <<screenVars, awaitVars, objectVars>>

-----------------------------------------------------------------------------
(* The methods.  The last count of a collected object closes its session.  *)
Dropped(c) == {o \in Objects : handle[o] = "collected" /\ Using(o) \subseteq {c}}

New(c) ==
    /\ fn[c] = "RdpConnection_new"
    /\ \E o \in Objects :
          /\ handle[o] = "none"
          /\ handle' = [handle EXCEPT ![o] = "held"]
          /\ Return(c, [ok |-> TRUE, val |-> o])
    /\ UNCHANGED <<open, login>>

(* The server that is called, and who logs in there: without user name or  *)
(* password an empty string, without domain none.                          *)
UnwrapOrDefault(v) == IF v = Null THEN "" ELSE v
BuildRdpConfig(a) == [username |-> UnwrapOrDefault(a.username),
                      password |-> UnwrapOrDefault(a.password), domain |-> a.domain]
Server(a) == [host |-> a.host, port |-> a.port]
Login(a) == [server |-> Server(a), config |-> BuildRdpConfig(a)]

(* connect_rdp ends in a session or in an error: the server cannot be      *)
(* resolved or reached in 10 s, is silent for 30 s, or the TLS upgrade or  *)
(* the rest of the sequence fails.                                         *)
ConnectRdp == {"session", "error"}

(* connect: the state of the object changes when the sequence is over.     *)
Connect(c) ==
    /\ fn[c] = "RdpConnection_connect"
    /\ login' = [login EXCEPT ![that[c]] = Login(arg[c])]
    /\ \E end \in ConnectRdp :
        /\ Return(c, [ok |-> end = "session", val |-> None])
        /\ open' = (open \cup IF end = "session" THEN {that[c]} ELSE {}) \ Dropped(c)
    /\ UNCHANGED handle

Disconnect(c) ==
    /\ fn[c] = "RdpConnection_disconnect"
    /\ Return(c, [ok |-> TRUE, val |-> None])
    /\ open' = open \ ({that[c]} \cup Dropped(c))
    /\ UNCHANGED <<handle, login>>

Ask(c) ==
    /\ \/ fn[c] = "RdpConnection_get_size" /\ Return(c, [ok |-> TRUE, val |-> None])
       \/ fn[c] = "RdpConnection_is_connected" /\ Return(c, [ok |-> TRUE, val |-> that[c] \in open])
    /\ open' = open \ Dropped(c)
    /\ UNCHANGED <<handle, login>>

(* The other calls change nothing that is modelled here.                   *)
OtherReturns(c) ==
    /\ c \in Others
    /\ Return(c, NoReply)
    /\ UNCHANGED objectVars

Method(c) ==
    /\ stage[c] = "running"
    /\ New(c) \/ Connect(c) \/ Disconnect(c) \/ Ask(c) \/ OtherReturns(c)
    /\ UNCHANGED <<screenVars, awaitVars>>

(* Nothing in Dart leads to the handle: not the local variable of a        *)
(* _connect under way, nor the field of a state that is on screen or       *)
(* waits for something.                                                    *)
Reachable(o) ==
    \/ rdp = o \/ (awaited # None /\ reply[awaited].val = o)
    \/ rdpConnection = o /\ (Mounted \/ presses # {} \/ awaited # None)

(* Mutant: the finalizer leaves the fields of the object alone. *)
CollectLeaking(o) ==
    /\ handle[o] = "held" /\ ~Reachable(o)
    /\ handle' = [handle EXCEPT ![o] = "collected"]
    /\ UNCHANGED <<bridgeVars, screenVars, awaitVars, open, login>>

(* The garbage collector finds it, and its finalizer gives up the count.   *)
Collect(o) ==
    /\ handle[o] = "held" /\ ~Reachable(o)
    /\ handle' = [handle EXCEPT ![o] = "collected"]
    /\ open' = IF Using(o) = {} THEN open \ {o} ELSE open
    /\ UNCHANGED <<bridgeVars, screenVars, awaitVars, login>>

-----------------------------------------------------------------------------
(* The rest of the app.                                                    *)
Other(c, w) ==
    /\ Unused(c, Others) /\ Invoke(c, w, None, None)
    /\ UNCHANGED <<screenVars, awaitVars, objectVars>>

(* The Lock button of HomeScreen, to which VaultScreen succeeds.           *)
PressLock ==
    /\ home = "open" /\ route # "up" /\ home' = "locked"
    /\ BeginSync("lock_vault")
    /\ UNCHANGED <<route, card, isConnecting, isConnected, error, rdpConnection,
                   awaitVars, objectVars>>

-----------------------------------------------------------------------------
OnBridge == /\ Claim \/ EndSync
            /\ UNCHANGED <<screenVars, awaitVars, objectVars>>

Entered(c) == Enter(c) /\ UNCHANGED <<screenVars, awaitVars, objectVars>>

Resume(c) == ConnectGoesOn(c) \/ ConnectDone(c) \/ DisconnectDone(c) \/ ReplyIgnored(c)

Next ==
    \/ \E c \in Calls : OpenScreen(c) \/ Retry(c) \/ PressDisconnect(c) \/ Dispose(c)
    \/ \E c \in Calls : Entered(c) \/ Resume(c) \/ Method(c)
    \/ \E c \in Others, w \in OtherWires : Other(c, w)
    \/ \E o \in Objects : Collect(o)
    \/ OnBridge \/ Leave \/ PressLock

Spec == Init /\ [][Next]_vars

(* Dart's loop, the pool's threads and the transition go on, garbage is    *)
(* collected; a function returns in the end, but for one that waits for an *)
(* SSH host.                                                               *)
Fairness ==
    /\ WF_vars(OnBridge) /\ WF_vars(\E o \in Objects : Collect(o))
    /\ WF_vars(\E c \in Own : Dispose(c))
    /\ \A c \in Calls :
        WF_vars(Entered(c) \/ Resume(c) \/ (Method(c) /\ fn[c] \notin WaitsForSsh))

FairSpec == Spec /\ Fairness

-----------------------------------------------------------------------------
(* Every variable holds a value of its kind. *)
TypeOK ==
    /\ stage \in [Calls -> {"free", "queued", "claimed", "running", "replied"}]
    /\ fn \in [Calls -> PrimaryNames \cup {None}] /\ that \in [Calls -> Objects \cup {None}]
    /\ arg \in [Calls -> Cards \cup {None}]
    /\ \A c \in Calls : reply[c].ok \in BOOLEAN
    /\ queue \in Seq(Calls) /\ blocked \in SyncNames \cup {None}
    /\ route \in {"none", "up", "leaving", "gone"} /\ card \in Cards \cup {None}
    /\ home \in {"open", "locked", "popped"}
    /\ {isConnecting, isConnected, error} \subseteq BOOLEAN
    /\ {rdpConnection, rdp} \subseteq Objects \cup {None} /\ awaited \in Own \cup {None}
    /\ leaves \in 0..MaxLeaves /\ presses \subseteq Own
    /\ handle \in [Objects -> {"none", "held", "collected"}]
    /\ open \subseteq Objects
    /\ login \in [Objects -> {Login(a) : a \in Cards} \cup {None}]

(* Whatever way a connection went through the bridge, an object calls the  *)
(* server of the card that was pressed, as the user of that card, every    *)
(* optional field in its place.                                            *)
CardArrives == \A o \in Objects :
    login[o] # None => login[o] = Login(card)

(* A screen that says Connected holds an open session, as long as nobody   *)
(* has asked it to disconnect.                                             *)
ShownIsOpen == Mounted /\ isConnected /\ presses = {} => rdpConnection \in open

(* When dispose found a session stored it is closed or being closed, no    *)
(* matter when the garbage collector comes.  (A session stored on a screen *)
(* already disposed of has left error behind.)                             *)
StoredIsClosed ==
    route = "gone" /\ rdpConnection # None /\ ~error /\ rdpConnection \in open =>
        \E c \in Using(rdpConnection) : fn[c] = "RdpConnection_disconnect"

(* As many SSH calls wait for their hosts as the pool has threads.         *)
Exhausted == Cardinality({c \in Calls : OnThread(c) /\ fn[c] \in WaitsForSsh}) >= PoolSize

(* Lock returns, however many hosts are silent: no call that waits for a   *)
(* host holds the vault, and Lock needs no thread of the pool.             *)
LockReturns == blocked = "lock_vault" ~> blocked = None

(* The spinner ends, in a session or an error, though the server is silent *)
(* and the screen may be left: every read of connect has a time limit.     *)
SpinnerEnds == isConnecting ~> ~isConnecting \/ Exhausted

(* The session of a screen that is left is closed, at the latest when its  *)
(* object is collected.                                                    *)
LeftIsClosed == route = "gone" ~> open = {} \/ Exhausted
=============================================================================
