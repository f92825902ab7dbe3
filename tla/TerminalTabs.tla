---------------------------- MODULE TerminalTabs ----------------------------
(***************************************************************************)
(* The SSH tabs of tabbed_terminal_screen.dart.  A tab is a                *)
(* TerminalSession; what draws it, connects it and handles its callbacks   *)
(* is a _TerminalSessionViewState, called a view here.  The children of    *)
(* TabBarView have no key, so Flutter matches views to tabs by position:   *)
(* when a tab is closed, every view to its right is handed the session     *)
(* beside it and the last view is unmounted, while the awaits and closures *)
(* of a view go on to read `widget.session`.                               *)
(*                                                                         *)
(* All steps but those of connect and of the servers run on the Dart       *)
(* thread.  The build is a release build: setState on an unmounted view    *)
(* first runs its function, then throws.                                   *)
(***************************************************************************)
EXTENDS Naturals, Sequences, SequencesExt, FiniteSets

CONSTANTS
    MaxTabs,    \* bound: tabs opened in a behaviour
    MaxConns,   \* bound: connection attempts
    Keyed,      \* sessions that log in with a private key
    None        \* null

Sessions == 1..MaxTabs
Views == 1..MaxTabs
Conns == 1..MaxConns

ASSUME TabsAssumption ==
    /\ MaxTabs \in Nat \ {0} /\ MaxConns \in Nat \ {0}
    /\ Keyed \subseteq Sessions /\ None \notin Nat

VARIABLES
    tabs,       \* _sessions: the open tabs, left to right
    views,      \* the mounted views, left to right
    opened,     \* _sessionCounter
    session,    \* each view's widget.session
    connecting, error,  \* isConnecting; error # null
    conn,       \* sshConnection
    typist,     \* the view whose closure is terminal.onOutput
    phase,      \* each SshConnection and the attempt that made it
    owner, view \* the session whose host it is for; the view that runs the attempt

tabVars == <<tabs, views, opened, session>>
fieldVars == <<connecting, error, conn, typist>>
connVars == <<phase, owner, view>>
vars == <<tabVars, fieldVars, connVars>>

(* "probe" tries the key without passphrase, "dialog" asks for one,        *)
(* "connect" runs; "connected" and "refused" wait for the await to resume; *)
(* "open" has a shell whose output is listened to, "ended" had one.  A     *)
(* "silent" host took the TCP connection and says no more: the limit of    *)
(* connect_with_timeout is over then, and the blocking session has none.   *)
Attempting == {"probe", "dialog", "connect", "connected", "refused"}
Phases == Attempting \cup {"unused", "silent", "abandoned", "open", "ended", "closed"}

Mounted(v) == Contains(views, v)
IsOpen(s) == Contains(tabs, s)
Modal == \E c \in Conns : phase[c] = "dialog"

Init ==
    /\ tabs = <<>> /\ views = <<>> /\ opened = 0
    /\ session = [v \in Views |-> None]
    /\ connecting = [s \in Sessions |-> FALSE] /\ error = [s \in Sessions |-> FALSE]
    /\ conn = [s \in Sessions |-> None] /\ typist = [s \in Sessions |-> None]
    /\ phase = [c \in Conns |-> "unused"]
    /\ owner = [c \in Conns |-> None] /\ view = [c \in Conns |-> None]

-----------------------------------------------------------------------------
(* _connectAndStartShell up to its first await.                            *)
Attempt(v, s) == \E c \in Conns :
    /\ phase[c] = "unused" /\ \A d \in 1..(c - 1) : phase[d] # "unused"
    /\ phase' = [phase EXCEPT ![c] = IF s \in Keyed THEN "probe" ELSE "connect"]
    /\ owner' = [owner EXCEPT ![c] = s]
    /\ view' = [view EXCEPT ![c] = v]
    /\ connecting' = [connecting EXCEPT ![s] = TRUE]
    /\ error' = [error EXCEPT ![s] = FALSE]
    /\ UNCHANGED <<conn, typist>>

(* _addSession; the new tab is shown, so its view is mounted.              *)
AddSession ==
    /\ ~Modal /\ opened < MaxTabs
    /\ opened = 0 \/ tabs # <<>>    \* the screen is there
    /\ opened' = opened + 1
    /\ tabs' = Append(tabs, opened')
    /\ views' = Append(views, opened')
    /\ session' = [session EXCEPT ![opened'] = opened']
    /\ Attempt(opened', opened')

(* The Reconnect button of the banner.                                     *)
Reconnect(v) ==
    /\ ~Modal /\ Mounted(v) /\ error[session[v]]
    /\ Attempt(v, session[v])
    /\ UNCHANGED tabVars

(* TerminalSession.dispose for the sessions S.                             *)
Dispose(S) ==
    LET dropped == {conn[s] : s \in S} IN
    phase' = [c \in Conns |-> IF c \in dropped /\ phase[c] \in {"open", "ended"}
                              THEN "closed" ELSE phase[c]]

MayCloseTab(i) == ~Modal /\ i \in DOMAIN tabs

(* The views left of the closed tab and right of it, in the order of the   *)
(* remaining tabs; the last one keeps the session it had and is unmounted. *)
Rematch == [v \in Views |-> IF Contains(views', v)
                            THEN tabs'[CHOOSE j \in DOMAIN views' : views'[j] = v]
                            ELSE session[v]]

(* Mutant: the tab goes, its connection stays. *)
CloseSessionOnly(i) ==
    /\ MayCloseTab(i)
    /\ tabs' = RemoveAt(tabs, i)
    /\ views' = Front(views)
    /\ session' = Rematch
    /\ UNCHANGED <<opened, fieldVars, connVars>>

(* Mutant: the tab at the new index is disposed of. *)
CloseSessionShifted(i) ==
    /\ MayCloseTab(i)
    /\ LET n == IF i = Len(tabs) THEN i ELSE i + 1 IN Dispose({tabs[n]})
    /\ tabs' = RemoveAt(tabs, i)
    /\ views' = Front(views)
    /\ session' = Rematch
    /\ UNCHANGED <<opened, fieldVars, owner, view>>

(* _closeSession: the views are matched to the remaining tabs by position. *)
CloseSession(i) ==
    /\ MayCloseTab(i)
    /\ Dispose({tabs[i]})
    /\ tabs' = RemoveAt(tabs, i)
    /\ views' = Front(views)
    /\ session' = Rematch
    /\ UNCHANGED <<opened, fieldVars, owner, view>>

(* The screen is left and disposed of.                                     *)
LeaveScreen ==
    /\ ~Modal /\ tabs # <<>>
    /\ Dispose(ToSet(tabs))
    /\ tabs' = <<>> /\ views' = <<>>
    /\ UNCHANGED <<opened, session, fieldVars, owner, view>>

-----------------------------------------------------------------------------
Become(c, p) == phase' = [phase EXCEPT ![c] = p]

(* The probe logs in, or fails for another reason, and the attempt goes    *)
(* on; or it fails for want of a passphrase.                               *)
Probe(c) ==
    /\ phase[c] = "probe"
    /\ \/ Become(c, "connect")
       \/ Become(c, IF Mounted(view[c]) THEN "dialog" ELSE "abandoned")
       \/ Become(c, "silent")
    /\ UNCHANGED <<tabVars, fieldVars, owner, view>>

EnterPassphrase(c) ==
    /\ phase[c] = "dialog"
    /\ Become(c, "connect")
    /\ UNCHANGED <<tabVars, fieldVars, owner, view>>

Fail(s) == /\ error' = [error EXCEPT ![s] = TRUE]
           /\ connecting' = [connecting EXCEPT ![s] = FALSE]

CancelPassphrase(c) ==
    /\ phase[c] = "dialog"
    /\ Become(c, "abandoned")
    /\ Fail(session[view[c]])
    /\ UNCHANGED <<tabVars, conn, typist, owner, view>>

(* SshConnection.connect on its thread.                                    *)
Connect(c) ==
    /\ phase[c] = "connect"
    /\ \E p \in {"connected", "refused", "silent"} : Become(c, p)
    /\ UNCHANGED <<tabVars, fieldVars, owner, view>>

(* Mutant: the tab stays "connecting" until there is output. *)
ConnectedStillAmber(c) ==
    /\ phase[c] = "connected"
    /\ LET v == view[c]  s == session[v] IN
       /\ Become(c, "open")
       /\ conn' = [conn EXCEPT ![s] = c]
       /\ typist' = [typist EXCEPT ![s] = v]
    /\ UNCHANGED <<tabVars, connecting, error, owner, view>>

(* Mutant: the connection goes to the tab opened last. *)
ConnectedInLast(c) ==
    /\ phase[c] = "connected"
    /\ LET v == view[c]  s == IF tabs = <<>> THEN session[v] ELSE Last(tabs) IN
       /\ Become(c, "open")
       /\ conn' = [conn EXCEPT ![s] = c]
       /\ typist' = [typist EXCEPT ![s] = v]
       /\ connecting' = [connecting EXCEPT ![s] = FALSE]
    /\ UNCHANGED <<tabVars, error, owner, view>>

(* connect returned: the connection is stored in whatever session the view *)
(* has now, the shell opened, its output listened to, the keys forwarded.  *)
(* On an unmounted view the setState that follows throws into the catch.   *)
Connected(c) ==
    /\ phase[c] = "connected"
    /\ LET v == view[c]  s == session[v] IN
       /\ Become(c, "open")
       /\ conn' = [conn EXCEPT ![s] = c]
       /\ typist' = [typist EXCEPT ![s] = v]
       /\ connecting' = [connecting EXCEPT ![s] = FALSE]
       /\ error' = IF Mounted(v) THEN error ELSE [error EXCEPT ![s] = TRUE]
    /\ UNCHANGED <<tabVars, owner, view>>

Refused(c) ==
    /\ phase[c] = "refused"
    /\ Become(c, "abandoned")
    /\ Fail(session[view[c]])
    /\ UNCHANGED <<tabVars, conn, typist, owner, view>>

(* The shell ends or the connection is lost.  Either way the reader stops  *)
(* and the stream is done; onDone only writes to the terminal.             *)
StreamDone(c) ==
    /\ phase[c] = "open"
    /\ Become(c, "ended")
    /\ UNCHANGED <<tabVars, fieldVars, owner, view>>

Continue(c) == Probe(c) \/ Connect(c) \/ Connected(c) \/ Refused(c)

Next ==
    \/ AddSession \/ LeaveScreen
    \/ \E v \in Views : Reconnect(v)
    \/ \E i \in Sessions : CloseSession(i)
    \/ \E c \in Conns : Continue(c) \/ EnterPassphrase(c) \/ CancelPassphrase(c) \/ StreamDone(c)

Spec == Init /\ [][Next]_vars

(* A host that is not silent answers in the end, the pool has a thread     *)
(* left for each attempt (Bridge has what happens when it has not), awaits *)
(* resume, and a dialog is answered.                                       *)
Fairness == \A c \in Conns : /\ WF_vars(Continue(c))
                             /\ WF_vars(EnterPassphrase(c) \/ CancelPassphrase(c))

FairSpec == Spec /\ Fairness

-----------------------------------------------------------------------------
(* Every variable holds a value of its kind, and each tab has its view. *)
TypeOK ==
    /\ tabs \in Seq(Sessions) /\ views \in Seq(Views) /\ Len(views) = Len(tabs)
    /\ opened \in 0..MaxTabs
    /\ session \in [Views -> Sessions \cup {None}]
    /\ {connecting, error} \subseteq [Sessions -> BOOLEAN]
    /\ conn \in [Sessions -> Conns \cup {None}] /\ typist \in [Sessions -> Views \cup {None}]
    /\ phase \in [Conns -> Phases]
    /\ owner \in [Conns -> Sessions \cup {None}] /\ view \in [Conns -> Views \cup {None}]

(* "multiple terminals in one window with independent sessions" (README):  *)
(* what is typed into a tab goes to that tab's host, or nowhere.           *)
KeysTo(s) == IF typist[s] = None THEN None ELSE conn[session[typist[s]]]
SessionsIndependent == \A s \in Sessions :
    IsOpen(s) /\ KeysTo(s) # None => owner[KeysTo(s)] = s

(* So far no view was handed another session: only rightmost tabs closed.  *)
InPlace == \A v \in Views : session[v] \in {v, None}

(* As long as that is so, keys reach the tab's own host, though tabs close *)
(* and are left in the middle of connecting, and connect a second time.    *)
KeysReachOwnHost == InPlace => SessionsIndependent

(* A shell does not outlive its tab: whatever was opened for a tab, by its *)
(* first attempt or by a reconnect, is closed in the step that closes it.  *)
ShellsCloseWithTab == [][InPlace => \A c \in Conns :
    phase[c] = "open" /\ IsOpen(owner[c]) /\ ~IsOpen(owner[c])' => phase'[c] = "closed"]_vars

(* Closing a tab does not close another one's shell, mixed up or not.      *)
OthersStayConnected == \A s \in Sessions :
    IsOpen(s) /\ conn[s] # None => phase[conn[s]] # "closed"

(* A tab does not stay amber ("connecting") for ever: it gets a shell or   *)
(* the banner, on every path of the attempt, unless its host is silent.    *)
ConnectingEnds == \A s \in Sessions :
    connecting[s] /\ IsOpen(s) ~> \/ ~connecting[s] \/ ~IsOpen(s) \/ ~InPlace
                                 \/ \E c \in Conns : owner[c] = s /\ phase[c] = "silent"
=============================================================================
