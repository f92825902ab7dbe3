------------------------------- MODULE SshShell -------------------------------
(***************************************************************************)
(* One SshConnection (ssh.rs) and the calls that a terminal tab makes on   *)
(* it, each on a thread of the bridge's pool: connect, then open_shell,    *)
(* then send_input for every key and resize_pty for every layout, and when *)
(* the tab closes close_shell and disconnect, not one of them awaited but  *)
(* connect.  A reader thread takes output from the channel meanwhile.      *)
(*                                                                         *)
(* Three locks are involved.  The bridge guards the object by a read-write *)
(* lock, exclusive for `&mut self` methods.  `shell_channel` is a mutex.   *)
(* The session's own lock is held for the length of one non-blocking       *)
(* operation of libssh2, so each of these is one step here.                *)
(***************************************************************************)
EXTENDS Naturals, Sequences, SequencesExt, FiniteSets

CONSTANTS
    Workers,      \* threads of the bridge's pool
    Free,         \* nobody holds the mutex
    KeyLength,    \* bytes of one key press (an escape sequence has several)
    Window,       \* bytes the server's window takes before a write would block
    MaxKeys,      \* bound: keys typed
    MaxResizes    \* bound: window size changes

ASSUME ShellAssumption ==
    /\ Free \notin Workers
    /\ KeyLength \in Nat \ {0} /\ Window \in Nat \ {0}
    /\ MaxKeys \in Nat /\ MaxResizes \in Nat

VARIABLES
    tab,        \* what the tab has done: "new", "connecting", "live", "failed", "closed", "freed"
    keys, resizes, \* how many keys were typed, size changes seen
    pc, op, key, written, \* each worker: its step, its call, the key it sends, bytes written
    readers, writer,      \* the read-write lock of the object
    shellLock,  \* who holds the mutex of shell_channel
    shell,      \* shell_channel holds a channel
    session, jump, \* the two Option<Session> fields are Some
    wire,       \* the bytes written to the channel, <<key, byte>>
    taken,      \* how many of them the server has taken out of the window
    closing,    \* the server was told that channel or session ends
    server,     \* "up", or "closed" when it has closed its end
    reader      \* the reader thread: "none", "running", "ended"

callVars == <<pc, op, key, written>>
lockVars == <<readers, writer, shellLock>>
objVars == <<shell, session, jump>>
netVars == <<wire, taken, closing, server, reader>>
tabVars == <<tab, keys, resizes>>
vars == <<callVars, lockVars, objVars, netVars, tabVars>>

Ops == {"connect", "open_shell", "send_input", "resize_pty", "close_shell", "disconnect"}
Exclusive == {"connect", "disconnect"}

Init ==
    /\ tab = "new" /\ keys = 0 /\ resizes = 0
    /\ pc = [w \in Workers |-> "idle"] /\ op = [w \in Workers |-> "connect"]
    /\ key = [w \in Workers |-> 0] /\ written = [w \in Workers |-> 0]
    /\ readers = {} /\ writer = Free /\ shellLock = Free
    /\ shell = FALSE /\ session = FALSE /\ jump = FALSE
    /\ wire = <<>> /\ taken = 0 /\ closing = FALSE /\ server = "up" /\ reader = "none"

-----------------------------------------------------------------------------
(* The tab issues a call.                                                  *)
Idle == {w \in Workers : pc[w] = "idle"}
InFlight(o) == \E w \in Workers : pc[w] # "idle" /\ op[w] = o

Call(w, o, k) ==
    /\ w \in Idle
    /\ pc' = [pc EXCEPT ![w] = "enter"]
    /\ op' = [op EXCEPT ![w] = o]
    /\ key' = [key EXCEPT ![w] = k]
    /\ UNCHANGED <<written, lockVars, objVars, netVars>>

StartConnect(w) ==
    /\ tab = "new" /\ tab' = "connecting"
    /\ Call(w, "connect", 0)
    /\ UNCHANGED <<keys, resizes>>

(* `await connect` resumes (the result is in session): openShell is called *)
(* and the tab is ready for keys at once.                                  *)
StartShell(w) ==
    /\ tab = "connecting" /\ ~InFlight("connect")
    /\ IF session
       THEN tab' = "live" /\ Call(w, "open_shell", 0)
       ELSE tab' = "failed" /\ UNCHANGED <<callVars, lockVars, objVars, netVars>>
    /\ UNCHANGED <<keys, resizes>>

Type(w) ==
    /\ tab = "live" /\ keys < MaxKeys
    /\ keys' = keys + 1
    /\ Call(w, "send_input", keys')
    /\ UNCHANGED <<tab, resizes>>

Resize(w) ==
    /\ tab = "live" /\ resizes < MaxResizes
    /\ resizes' = resizes + 1
    /\ Call(w, "resize_pty", 0)
    /\ UNCHANGED <<tab, keys>>

(* TerminalSession.dispose: two calls one right after the other.           *)
CloseTab(v, w) ==
    /\ tab = "live" /\ tab' = "closed"
    /\ v # w /\ {v, w} \subseteq Idle
    /\ pc' = [pc EXCEPT ![v] = "enter", ![w] = "enter"]
    /\ op' = [op EXCEPT ![v] = "close_shell", ![w] = "disconnect"]
    /\ UNCHANGED <<key, written, lockVars, objVars, netVars, keys, resizes>>

-----------------------------------------------------------------------------
Goto(w, step) == pc' = [pc EXCEPT ![w] = step]

Enter(w) ==
    /\ pc[w] = "enter"
    /\ IF op[w] \in Exclusive
       THEN readers = {} /\ writer = Free /\ writer' = w /\ UNCHANGED readers
       ELSE writer = Free /\ readers' = readers \cup {w} /\ UNCHANGED writer
    /\ Goto(w, op[w])
    /\ UNCHANGED <<op, key, written, shellLock, objVars, netVars, tabVars>>

(* The method returns: its mutex guard, if any, and the object's lock go.  *)
Leave(w) ==
    /\ Goto(w, "idle")
    /\ readers' = readers \ {w}
    /\ writer' = IF writer = w THEN Free ELSE writer
    /\ shellLock' = IF shellLock = w THEN Free ELSE shellLock
    /\ op' = [op EXCEPT ![w] = "connect"]
    /\ key' = [key EXCEPT ![w] = 0]
    /\ written' = [written EXCEPT ![w] = 0]

(* connect or connect_via_jump_host, as a whole: the fields are set last.  *)
(* Handshake and login have no time limit.                                 *)
Connect(w) ==
    /\ pc[w] = "connect"
    /\ \/ session' = TRUE /\ jump' \in BOOLEAN
       \/ UNCHANGED <<session, jump>>
    /\ Leave(w)
    /\ UNCHANGED <<shell, netVars, tabVars>>

(* open_shell: channel, PTY and shell are requested in blocking mode, and  *)
(* without a time limit.                                                   *)
RequestShell(w) ==
    /\ pc[w] = "open_shell"
    /\ \/ /\ session /\ server = "up"
          /\ Goto(w, "store_channel")
          /\ UNCHANGED <<op, key, written, lockVars>>
       \/ Leave(w)
    /\ UNCHANGED <<objVars, netVars, tabVars>>

StoreChannel(w) ==
    /\ pc[w] = "store_channel" /\ shellLock = Free
    /\ shell' = TRUE
    /\ reader' = "running"
    /\ Leave(w)
    /\ UNCHANGED <<session, jump, wire, taken, closing, server, tabVars>>

(* Mutant: the guard is given back as soon as the channel is cloned. *)
TakeChannelClone(w) ==
    /\ pc[w] \in {"send_input", "resize_pty"} /\ shellLock = Free
    /\ IF shell
       THEN /\ Goto(w, IF op[w] = "send_input" THEN "write" ELSE "request_size")
            /\ UNCHANGED <<op, key, written, lockVars>>
       ELSE Leave(w)
    /\ UNCHANGED <<objVars, netVars, tabVars>>

(* send_input and resize_pty keep the guard of shell_channel to the end;   *)
(* without a channel they fail with "Shell not opened".                    *)
TakeChannel(w) ==
    /\ pc[w] \in {"send_input", "resize_pty"} /\ shellLock = Free
    /\ IF shell
       THEN /\ shellLock' = w
            /\ Goto(w, IF op[w] = "send_input" THEN "write" ELSE "request_size")
            /\ UNCHANGED <<op, key, written, readers, writer>>
       ELSE Leave(w)
    /\ UNCHANGED <<objVars, netVars, tabVars>>

Room == Window - (Len(wire) - taken)
Pending(w) == KeyLength - written[w]

(* Mutant: each round offers the whole of `data` again. *)
WriteFromStart(w) ==
    /\ pc[w] = "write" /\ server = "up" /\ ~closing
    /\ \E n \in 1..KeyLength :
          /\ n <= Room
          /\ wire' = wire \o [i \in 1..n |-> <<key[w], i>>]
          /\ written' = [written EXCEPT ![w] = @ + n]
    /\ UNCHANGED <<pc, op, key, lockVars, objVars, taken, closing, server, reader, tabVars>>

(* One `ch.write`: it may take a part only.                                *)
Write(w) ==
    /\ pc[w] = "write" /\ server = "up" /\ ~closing
    /\ \E n \in 1..Pending(w) :
          /\ n <= Room
          /\ wire' = wire \o [i \in 1..n |-> <<key[w], written[w] + i>>]
          /\ written' = [written EXCEPT ![w] = @ + n]
    /\ UNCHANGED <<pc, op, key, lockVars, objVars, taken, closing, server, reader, tabVars>>

(* Mutant: the retry has no time limit. *)
WriteEndsPatient(w) ==
    /\ pc[w] = "write"
    /\ Pending(w) = 0 \/ server # "up" \/ closing
    /\ Leave(w)
    /\ UNCHANGED <<objVars, netVars, tabVars>>

(* All bytes are written, or the write fails, or it would block for more   *)
(* than two seconds.                                                       *)
WriteEnds(w) ==
    /\ pc[w] = "write"
    /\ Pending(w) = 0 \/ server # "up" \/ closing \/ Room = 0
    /\ Leave(w)
    /\ UNCHANGED <<objVars, netVars, tabVars>>

(* request_pty_size succeeds, fails, or is given up after a second.        *)
RequestSize(w) ==
    /\ pc[w] = "request_size"
    /\ Leave(w)
    /\ UNCHANGED <<objVars, netVars, tabVars>>

(* The channel is taken out of shell_channel and closed.  In non-blocking  *)
(* mode the packet may not fit the socket; the error is ignored.           *)
DropChannel ==
    /\ shellLock = Free
    /\ shell' = FALSE
    /\ closing' \in {closing, closing \/ shell}

CloseShell(w) ==
    /\ pc[w] = "close_shell" /\ DropChannel
    /\ Leave(w)
    /\ UNCHANGED <<session, jump, wire, taken, server, reader, tabVars>>

DisconnectShell(w) ==
    /\ pc[w] = "disconnect" /\ DropChannel
    /\ Goto(w, "end_session")
    /\ UNCHANGED <<op, key, written, lockVars, session, jump, wire, taken, server, reader, tabVars>>

(* Mutant: the session is only borrowed, not taken, for its farewell. *)
EndSessionKept(w) ==
    /\ pc[w] = "end_session"
    /\ closing' = (closing \/ session)
    /\ Goto(w, "end_jump")
    /\ UNCHANGED <<op, key, written, lockVars, objVars, wire, taken, server, reader, tabVars>>

(* The farewell of the target session may fail with WouldBlock as well,    *)
(* and `?` then returns before the jump session is looked at.              *)
EndSession(w) ==
    /\ pc[w] = "end_session"
    /\ session' = FALSE
    /\ \/ /\ closing' = (closing \/ session)
          /\ Goto(w, "end_jump")
          /\ UNCHANGED <<op, key, written, lockVars>>
       \/ /\ session
          /\ Leave(w)
          /\ UNCHANGED closing
    /\ UNCHANGED <<shell, jump, wire, taken, server, reader, tabVars>>

(* The farewell of the jump session waits for its lock, which the proxy    *)
(* thread holds while it waits for the target (JumpProxy).                 *)
EndJump(w) ==
    /\ pc[w] = "end_jump"
    /\ jump' = FALSE
    /\ Leave(w)
    /\ UNCHANGED <<shell, session, netVars, tabVars>>

(* Dart collects the object once no call uses it: `drop` disconnects again *)
(* and the fields are freed.                                               *)
Drop ==
    /\ tab \in {"closed", "failed"} /\ Idle = Workers
    /\ tab' = "freed"
    /\ DropChannel
    /\ session' = FALSE /\ jump' = FALSE
    /\ UNCHANGED <<callVars, lockVars, wire, taken, server, reader, keys, resizes>>

-----------------------------------------------------------------------------
(* The server takes bytes, and closes its end: of its own accord, or when  *)
(* it is told to.                                                          *)
ServerTakes ==
    /\ server = "up" /\ taken < Len(wire)
    /\ taken' = taken + 1
    /\ UNCHANGED <<callVars, lockVars, objVars, wire, closing, server, reader, tabVars>>

ServerCloses ==
    /\ server = "up" /\ session
    /\ server' = "closed"
    /\ UNCHANGED <<callVars, lockVars, objVars, wire, taken, closing, reader, tabVars>>

ServerAnswers ==
    /\ server = "up" /\ closing
    /\ server' = "closed"
    /\ UNCHANGED <<callVars, lockVars, objVars, wire, taken, closing, reader, tabVars>>

(* Mutant: the end of file is not told from "no data yet". *)
ReaderIgnoresEof ==
    /\ reader = "running"
    /\ server = "up" /\ tab \in {"closed", "freed"}
    /\ reader' = "ended"
    /\ UNCHANGED <<callVars, lockVars, objVars, wire, taken, closing, server, tabVars>>

(* The reader leaves its loop at end of file or at a read error, or when   *)
(* there is output and the tab has cancelled the stream.                   *)
ReaderEnds ==
    /\ reader = "running"
    /\ server = "closed" \/ tab \in {"closed", "freed"}
    /\ reader' = "ended"
    /\ UNCHANGED <<callVars, lockVars, objVars, wire, taken, closing, server, tabVars>>

Step(w) ==
    \/ Enter(w) \/ Connect(w) \/ RequestShell(w) \/ StoreChannel(w) \/ TakeChannel(w)
    \/ Write(w) \/ WriteEnds(w) \/ RequestSize(w)
    \/ CloseShell(w) \/ DisconnectShell(w) \/ EndSession(w) \/ EndJump(w)

Next ==
    \/ \E w \in Workers : StartConnect(w) \/ StartShell(w) \/ Type(w) \/ Resize(w) \/ Step(w)
    \/ \E v, w \in Workers : CloseTab(v, w)
    \/ Drop \/ ServerTakes \/ ServerCloses \/ ServerAnswers \/ ReaderEnds

Spec == Init /\ [][Next]_vars

(* A call that waits for a host, however long that is silent: in connect,  *)
(* in open_shell, or for the lock of a jump session.                       *)
Silent(w) == pc[w] \in {"connect", "open_shell"} \/ (pc[w] = "end_jump" /\ jump)

(* Threads run, except where they wait for a host.  A server that is told  *)
(* to close does, if no tunnel stands between, and the reader sees it.     *)
(* Nobody has to type, close the tab or send output.                       *)
Fairness ==
    /\ \A w \in Workers : WF_vars(Step(w) /\ ~Silent(w))
    /\ WF_vars(ServerAnswers /\ ~jump)
    /\ WF_vars(ReaderEnds /\ server = "closed")

FairSpec == Spec /\ Fairness

-----------------------------------------------------------------------------
(* Every variable holds a value of its kind. *)
TypeOK ==
    /\ tab \in {"new", "connecting", "live", "failed", "closed", "freed"}
    /\ keys \in 0..MaxKeys /\ resizes \in 0..MaxResizes
    /\ pc \in [Workers -> Ops \cup {"idle", "enter", "store_channel", "write", "request_size",
                                    "end_session", "end_jump"}]
    /\ op \in [Workers -> Ops] /\ key \in [Workers -> 0..MaxKeys]
    /\ written \in [Workers -> 0..KeyLength]
    /\ readers \subseteq Workers /\ {writer, shellLock} \subseteq Workers \cup {Free}
    /\ {shell, session, jump, closing} \subseteq BOOLEAN
    /\ wire \in Seq((1..MaxKeys) \X (1..KeyLength)) /\ taken \in 0..Len(wire)
    /\ server \in {"up", "closed"} /\ reader \in {"none", "running", "ended"}

(* A key of several bytes reaches the server in one piece: its bytes are   *)
(* next to each other and in order, whatever other calls write, time out   *)
(* or resize at the same time.  Only its end may be missing.               *)
KeysInOnePiece == \A i \in 1..Len(wire) :
    LET k == wire[i][1]  b == wire[i][2] IN
    IF b = 1 THEN \A j \in 1..(i - 1) : wire[j][1] # k
             ELSE i > 1 /\ wire[i - 1] = <<k, b - 1>>

(* Once disconnect has returned, nothing of the connection comes back,     *)
(* although open_shell, send_input and close_shell may have been in flight *)
(* beside it: no channel, no session.                                      *)
Disconnected == tab \in {"closed", "freed"} /\ ~InFlight("disconnect")
DisconnectIsFinal == Disconnected => ~shell /\ ~session

(* Nobody writes on a channel that close_shell or disconnect has taken.    *)
NoWriteOnTakenChannel == \A w \in Workers :
    pc[w] \in {"write", "request_size"} => shell

(* Every call returns, unless it waits for a silent host or for the lock   *)
(* of the object beside a call that does: no other lock holds it up for    *)
(* ever, and a server that takes no more input does so for a limited time. *)
HeldUp(w) == Silent(w) \/ (pc[w] = "enter" /\ \E v \in Workers : Silent(v))
CallsReturn == \A w \in Workers : pc[w] # "idle" ~> pc[w] = "idle" \/ []HeldUp(w)

(* Once the tab is closed and the server was told, the reader thread,      *)
(* which keeps channel and socket alive, ends too: unless a tunnel stands  *)
(* between that is never taken down.                                       *)
ReaderIsTornDown == (tab = "closed" /\ closing) ~> reader # "running" \/ []jump
=============================================================================
