--------------------------- MODULE SshShellProofs ---------------------------
(***************************************************************************)
(* The safety properties of SshShell for any number of threads, keys and   *)
(* bytes.  They rest on the discipline of the two locks: what a thread at  *)
(* a given step holds, and what the holder may rely on.                    *)
(***************************************************************************)
EXTENDS SshShell, SequenceTheorems, TLAPS

Steps == Ops \cup {"idle", "enter", "store_channel", "write", "request_size",
                   "end_session", "end_jump"}

Alone == {"connect", "disconnect", "end_session", "end_jump"}
Shared == {"open_shell", "store_channel", "send_input", "resize_pty", "close_shell",
           "write", "request_size"}

Typed ==
    /\ pc \in [Workers -> Steps] /\ op \in [Workers -> Ops]
    /\ readers \subseteq Workers
    /\ writer \in Workers \cup {Free} /\ shellLock \in Workers \cup {Free}
    /\ shell \in BOOLEAN /\ session \in BOOLEAN

(* The call a thread is in. *)
Within ==
    /\ \A w \in Workers : pc[w] \in Ops => op[w] = pc[w]
    /\ \A w \in Workers : pc[w] \in {"end_session", "end_jump"} => op[w] = "disconnect"
    /\ \A w \in Workers : pc[w] \in {"store_channel", "write", "request_size"} =>
           op[w] \notin Exclusive
    /\ \A w \in Workers : pc[w] # "idle" /\ op[w] = "connect" => tab = "connecting"

(* The read-write lock of the object. *)
ObjectLock ==
    /\ writer # Free => readers = {}
    /\ \A w \in Workers : pc[w] \in Alone => writer = w
    /\ \A w \in Workers : pc[w] \in Shared => w \in readers

(* The mutex: who writes to the channel holds it, and the channel is there. *)
ChannelLock == \A w \in Workers :
    pc[w] \in {"write", "request_size"} => shellLock = w /\ shell

(* A shell is stored only while there is a session; disconnect takes one   *)
(* after the other away for good.                                          *)
Taken ==
    /\ \A w \in Workers : pc[w] = "store_channel" => session
    /\ \A w \in Workers : pc[w] = "end_session" => ~shell
    /\ \A w \in Workers : pc[w] = "end_jump" => ~shell /\ ~session

ShellInv == Typed /\ Within /\ ObjectLock /\ ChannelLock /\ Taken /\ DisconnectIsFinal

LEMMA InitShell == Init => ShellInv
  BY DEF Init, ShellInv, Typed, Within, ObjectLock, ChannelLock, Taken, DisconnectIsFinal,
         Disconnected, InFlight, Steps, Ops, Exclusive, Alone, Shared

-----------------------------------------------------------------------------
(* Requests put idle threads at "enter" and touch neither lock nor object. *)
LEMMA RequestShellInv ==
  ASSUME ShellInv,
         \/ \E w \in Workers : StartConnect(w) \/ StartShell(w) \/ Type(w) \/ Resize(w)
         \/ \E v, w \in Workers : CloseTab(v, w)
  PROVE  ShellInv'
<1> USE DEF ShellInv, Typed
<1>1. ASSUME NEW w \in Workers, StartConnect(w)
      PROVE  ShellInv'
  BY <1>1 DEF StartConnect, Call, Idle, lockVars, objVars, Within, ObjectLock, ChannelLock, Taken,
              DisconnectIsFinal, Disconnected, InFlight, Steps, Ops, Exclusive, Alone, Shared
<1>2. ASSUME NEW w \in Workers, StartShell(w)
      PROVE  ShellInv'
  BY <1>2 DEF StartShell, Call, Idle, lockVars, objVars, callVars, Within, ObjectLock, ChannelLock, Taken,
              DisconnectIsFinal, Disconnected, InFlight, Steps, Ops, Exclusive, Alone, Shared
<1>3. ASSUME NEW w \in Workers, Type(w) \/ Resize(w)
      PROVE  ShellInv'
  BY <1>3 DEF Type, Resize, Call, Idle, lockVars, objVars, Within, ObjectLock, ChannelLock, Taken,
              DisconnectIsFinal, Disconnected, InFlight, Steps, Ops, Exclusive, Alone, Shared
<1>4. ASSUME NEW v \in Workers, NEW w \in Workers, CloseTab(v, w)
      PROVE  ShellInv'
  BY <1>4 DEF CloseTab, Idle, lockVars, objVars, Within, ObjectLock, ChannelLock, Taken,
              DisconnectIsFinal, Disconnected, InFlight, Steps, Ops, Exclusive, Alone, Shared
<1>5. QED
  BY <1>1, <1>2, <1>3, <1>4

(* A method that returns keeps every other thread's locks. *)
LEMMA LeaveShellInv ==
  ASSUME ShellInv, NEW w \in Workers, Leave(w), tab' = tab,
         pc[w] # "idle", shell' \in BOOLEAN, session' \in BOOLEAN,
         shell' # shell => shellLock = Free,
         session' # session => writer = w,
         shell' /\ ~shell => pc[w] = "store_channel",
         session' /\ ~session => pc[w] = "connect",
         op[w] = "disconnect" => ~shell' /\ ~session'
  PROVE  ShellInv'
<1> USE DEF ShellInv, Typed
<1>1. /\ pc' = [pc EXCEPT ![w] = "idle"] /\ op' = [op EXCEPT ![w] = "connect"]
      /\ readers' = readers \ {w}
      /\ writer' = IF writer = w THEN Free ELSE writer
      /\ shellLock' = IF shellLock = w THEN Free ELSE shellLock
  BY DEF Leave, Goto
<1>2. Typed'
  BY <1>1 DEF Steps, Ops
<1>3. Within'
  BY <1>1 DEF Within, Ops, Steps
<1>4. ObjectLock'
  BY <1>1 DEF ObjectLock, Alone, Shared, Steps
<1>5. ChannelLock'
  BY <1>1, ShellAssumption DEF ChannelLock
<1>6. Taken'
  BY <1>1, ShellAssumption DEF Taken, ObjectLock, Alone, Shared
<1>7. DisconnectIsFinal'
  BY <1>1 DEF DisconnectIsFinal, Disconnected, InFlight, Within, Taken, Ops
<1>8. QED
  BY <1>2, <1>3, <1>4, <1>5, <1>6, <1>7

-----------------------------------------------------------------------------
(* A thread that goes on to another step of the same call keeps its locks. *)
LEMMA EnterShellInv ==
  ASSUME ShellInv, NEW w \in Workers, Enter(w)
  PROVE  ShellInv'
<1> USE DEF ShellInv, Typed
<1>1. /\ pc[w] = "enter" /\ pc' = [pc EXCEPT ![w] = op[w]]
      /\ UNCHANGED <<op, shellLock, shell, session, tab>>
  BY DEF Enter, Goto, objVars, tabVars
<1>2. Typed'
  BY <1>1 DEF Enter, Steps, Ops
<1>3. Within'
  BY <1>1 DEF Within, Ops, Steps
<1>4. ObjectLock'
  BY <1>1, ShellAssumption DEF Enter, ObjectLock, Alone, Shared, Steps, Ops, Exclusive
<1>5. ChannelLock' /\ Taken'
  BY <1>1 DEF ChannelLock, Taken, Ops
<1>6. DisconnectIsFinal'
  BY <1>1 DEF DisconnectIsFinal, Disconnected, InFlight, Ops
<1>7. QED
  BY <1>2, <1>3, <1>4, <1>5, <1>6

LEMMA OnwardShellInv ==
  ASSUME ShellInv, NEW w \in Workers,
         RequestShell(w) \/ TakeChannel(w) \/ DisconnectShell(w) \/ EndSession(w),
         pc'[w] # "idle"
  PROVE  ShellInv'
<1> USE DEF ShellInv, Typed
<1>1. CASE RequestShell(w)
  <2>1. /\ pc[w] = "open_shell" /\ pc' = [pc EXCEPT ![w] = "store_channel"] /\ session
        /\ UNCHANGED <<op, readers, writer, shellLock, shell, session, tab>>
    BY <1>1 DEF RequestShell, Goto, Leave, lockVars, objVars, tabVars
  <2>2. QED
    BY <2>1 DEF Within, ObjectLock, ChannelLock, Taken, DisconnectIsFinal, Disconnected,
                InFlight, Steps, Ops, Exclusive, Alone, Shared
<1>2. CASE TakeChannel(w)
  <2>1. /\ pc[w] \in {"send_input", "resize_pty"} /\ shellLock = Free /\ shell /\ shellLock' = w
        /\ \E s \in {"write", "request_size"} : pc' = [pc EXCEPT ![w] = s]
        /\ UNCHANGED <<op, readers, writer, shell, session, tab>>
    BY <1>2 DEF TakeChannel, Goto, Leave, objVars, tabVars
  <2>2. PICK s \in {"write", "request_size"} : pc' = [pc EXCEPT ![w] = s]
    BY <2>1
  <2>3. QED
    BY <2>1, <2>2, ShellAssumption
       DEF Within, ObjectLock, ChannelLock, Taken, DisconnectIsFinal, Disconnected,
           InFlight, Steps, Ops, Exclusive, Alone, Shared
<1>3. CASE DisconnectShell(w)
  <2>1. /\ pc[w] = "disconnect" /\ pc' = [pc EXCEPT ![w] = "end_session"]
        /\ shellLock = Free /\ shell' = FALSE
        /\ UNCHANGED <<op, readers, writer, shellLock, session, tab>>
    BY <1>3 DEF DisconnectShell, DropChannel, Goto, lockVars, tabVars
  <2>2. QED
    BY <2>1, ShellAssumption, ZenonT(60)
       DEF Within, ObjectLock, ChannelLock, Taken, DisconnectIsFinal, Disconnected,
           InFlight, Steps, Ops, Exclusive, Alone, Shared
<1>4. CASE EndSession(w)
  <2>1. /\ pc[w] = "end_session" /\ pc' = [pc EXCEPT ![w] = "end_jump"]
        /\ session' = FALSE
        /\ UNCHANGED <<op, readers, writer, shellLock, shell, tab>>
    BY <1>4 DEF EndSession, Leave, Goto, lockVars, tabVars
  <2>2. QED
    BY <2>1, ShellAssumption, ZenonT(60)
       DEF Within, ObjectLock, ChannelLock, Taken, DisconnectIsFinal, Disconnected,
           InFlight, Steps, Ops, Exclusive, Alone, Shared
<1>5. QED
  BY <1>1, <1>2, <1>3, <1>4

LEMMA StepShellInv ==
  ASSUME ShellInv, NEW w \in Workers, Step(w)
  PROVE  ShellInv'
<1> USE DEF ShellInv, Typed
<1>1. CASE Enter(w)
  BY <1>1, EnterShellInv
<1>2. CASE Connect(w)
  BY <1>2, LeaveShellInv DEF Connect, tabVars, Within, ObjectLock, Alone, Ops
<1>3. CASE RequestShell(w)
  <2>1. CASE pc'[w] # "idle"
    BY <1>3, <2>1, OnwardShellInv
  <2>2. CASE pc'[w] = "idle"
    <3>1. Leave(w) /\ UNCHANGED <<shell, session, tab>>
      BY <1>3, <2>2 DEF RequestShell, Goto, Steps, objVars, tabVars
    <3>2. QED
      BY <1>3, <3>1, LeaveShellInv DEF RequestShell, Within, Ops
  <2>3. QED
    BY <2>1, <2>2
<1>4. CASE StoreChannel(w)
  BY <1>4, LeaveShellInv DEF StoreChannel, tabVars, Within, Exclusive
<1>5. CASE TakeChannel(w)
  <2>1. CASE pc'[w] # "idle"
    BY <1>5, <2>1, OnwardShellInv
  <2>2. CASE pc'[w] = "idle"
    <3>1. Leave(w) /\ UNCHANGED <<shell, session, tab>>
      BY <1>5, <2>2 DEF TakeChannel, Goto, Steps, objVars, tabVars
    <3>2. QED
      BY <1>5, <3>1, LeaveShellInv DEF TakeChannel, Within, Ops
  <2>3. QED
    BY <2>1, <2>2
<1>6. CASE Write(w)
  BY <1>6 DEF Write, lockVars, objVars, tabVars, Within, ObjectLock, ChannelLock, Taken,
              DisconnectIsFinal, Disconnected, InFlight
<1>7. CASE WriteEnds(w) \/ RequestSize(w)
  BY <1>7, LeaveShellInv DEF WriteEnds, RequestSize, objVars, tabVars, Within, Exclusive
<1>8. CASE CloseShell(w)
  BY <1>8, LeaveShellInv DEF CloseShell, DropChannel, tabVars, Within, Ops
<1>9. CASE DisconnectShell(w)
  <2>1. pc'[w] # "idle"
    BY <1>9 DEF DisconnectShell, Goto
  <2>2. QED
    BY <1>9, <2>1, OnwardShellInv
<1>10. CASE EndSession(w)
  <2>1. CASE pc'[w] # "idle"
    BY <1>10, <2>1, OnwardShellInv
  <2>2. CASE pc'[w] = "idle"
    <3>1. Leave(w) /\ session' = FALSE /\ UNCHANGED <<shell, tab>> /\ pc[w] = "end_session"
      BY <1>10, <2>2 DEF EndSession, Goto, Steps, tabVars
    <3>2. writer = w /\ ~shell
      BY <3>1 DEF ObjectLock, Alone, Taken
    <3>3. QED
      BY <3>1, <3>2, LeaveShellInv
  <2>3. QED
    BY <2>1, <2>2
<1>11. CASE EndJump(w)
  BY <1>11, LeaveShellInv DEF EndJump, netVars, tabVars, Taken
<1>12. QED
  BY <1>1, <1>2, <1>3, <1>4, <1>5, <1>6, <1>7, <1>8, <1>9, <1>10, <1>11 DEF Step

LEMMA NextShellInv == ShellInv /\ [Next]_vars => ShellInv'
<1> SUFFICES ASSUME ShellInv, [Next]_vars
             PROVE  ShellInv'
  OBVIOUS
<1> USE DEF ShellInv, Typed
<1>1. CASE \E w \in Workers : Step(w)
  BY <1>1, StepShellInv
<1>2. CASE \/ \E w \in Workers : StartConnect(w) \/ StartShell(w) \/ Type(w) \/ Resize(w)
           \/ \E v, w \in Workers : CloseTab(v, w)
  BY <1>2, RequestShellInv
<1>3. CASE Drop
  BY <1>3 DEF Drop, DropChannel, Idle, callVars, lockVars, Within, ObjectLock, ChannelLock, Taken,
              DisconnectIsFinal, Disconnected, InFlight, Ops, Alone, Shared
<1>4. CASE \/ ServerTakes \/ ServerCloses \/ ServerAnswers \/ ReaderEnds \/ UNCHANGED vars
  <2>1. UNCHANGED <<pc, op, readers, writer, shellLock, shell, session, tab>>
    BY <1>4 DEF ServerTakes, ServerCloses, ServerAnswers, ReaderEnds, vars, callVars, lockVars,
                objVars, tabVars
  <2>2. QED
    BY <2>1 DEF Within, ObjectLock, ChannelLock, Taken, DisconnectIsFinal, Disconnected, InFlight
<1>5. QED
  BY <1>1, <1>2, <1>3, <1>4 DEF Next

-----------------------------------------------------------------------------
(* No thread is in `ch.write` or `request_pty_size` on a channel that      *)
(* close_shell, disconnect or drop has taken away (ssh.rs): the writer     *)
(* keeps the mutex of shell_channel from the look-up to the last byte.     *)
THEOREM WritersHaveChannel == Spec => []NoWriteOnTakenChannel
<1>1. ShellInv => NoWriteOnTakenChannel
  BY DEF ShellInv, ChannelLock, NoWriteOnTakenChannel
<1>2. QED
  BY InitShell, NextShellInv, <1>1, PTL DEF Spec

(* When disconnect has returned to a closed tab, channel and session are   *)
(* gone for good, whichever open_shell, send_input or close_shell was in   *)
(* flight (ssh.rs): an open_shell between its two halves keeps disconnect  *)
(* out, and one that starts later finds no session.                        *)
THEOREM DisconnectLasts == Spec => []DisconnectIsFinal
<1>1. ShellInv => DisconnectIsFinal
  BY DEF ShellInv
<1>2. QED
  BY InitShell, NextShellInv, <1>1, PTL DEF Spec

-----------------------------------------------------------------------------
(* What is written.  A key belongs to one call; until that call writes,    *)
(* nothing of the key is on the wire, and while it writes, what it wrote   *)
(* last is the last on the wire.                                           *)
Sends(w) == pc[w] # "idle" /\ op[w] = "send_input"

OtherTypes ==
    /\ tab \in {"new", "connecting", "live", "failed", "closed", "freed"}
    /\ keys \in 0..MaxKeys /\ resizes \in 0..MaxResizes
    /\ key \in [Workers -> 0..MaxKeys] /\ written \in [Workers -> 0..KeyLength]
    /\ jump \in BOOLEAN /\ closing \in BOOLEAN
    /\ taken \in 0..Len(wire)
    /\ server \in {"up", "closed"} /\ reader \in {"none", "running", "ended"}

Wire == wire \in Seq((1..MaxKeys) \X (1..KeyLength))

KeyOwners ==
    /\ \A w \in Workers : Sends(w) => key[w] \in 1..keys
    /\ \A v, w \in Workers : Sends(v) /\ Sends(w) /\ v # w => key[v] # key[w]
    /\ \A w \in Workers : pc[w] = "write" => op[w] = "send_input"
    /\ \A w \in Workers : pc[w] # "write" => written[w] = 0

OnWire ==
    /\ \A i \in 1..Len(wire) : wire[i][1] \in 1..keys
    /\ \A w \in Workers : Sends(w) =>
          IF written[w] = 0 THEN \A i \in 1..Len(wire) : wire[i][1] # key[w]
          ELSE Len(wire) > 0 /\ wire[Len(wire)] = <<key[w], written[w]>>

KeyInv == OtherTypes /\ Wire /\ KeyOwners /\ OnWire /\ KeysInOnePiece

LEMMA InitKeys == Init => KeyInv
<1> SUFFICES ASSUME Init PROVE KeyInv
  OBVIOUS
<1> USE ShellAssumption DEF Init
<1>1. jump \in BOOLEAN /\ closing \in BOOLEAN
  BY Zenon
<1>2. key \in [Workers -> 0..MaxKeys] /\ written \in [Workers -> 0..KeyLength]
  OBVIOUS
<1>3. wire = <<>> /\ Len(wire) = 0 /\ taken = 0 /\ keys = 0 /\ resizes = 0
  OBVIOUS
<1>4. tab = "new" /\ server = "up" /\ reader = "none"
  OBVIOUS
<1>5. OtherTypes
  BY <1>1, <1>2, <1>3, <1>4 DEF OtherTypes
<1>6. Wire
  BY <1>3 DEF Wire
<1>7. KeyOwners
  BY DEF KeyOwners, Sends
<1>8. OnWire /\ KeysInOnePiece
  BY <1>3 DEF OnWire, KeysInOnePiece, Sends
<1>9. QED
  BY <1>5, <1>6, <1>7, <1>8 DEF KeyInv

(* A step that writes nothing: calls go on with the key they have, or end. *)
LEMMA QuietStep ==
  ASSUME ShellInv, KeyInv, OtherTypes', UNCHANGED <<wire, keys>>,
         \A w \in Workers :
             /\ Sends(w)' => Sends(w) /\ key'[w] = key[w] /\ written'[w] = written[w]
             /\ pc'[w] = "write" => op'[w] = "send_input"
             /\ pc'[w] # "write" => written'[w] = 0
  PROVE  KeyInv'
<1> USE DEF KeyInv
<1>1. KeyOwners'
  BY DEF KeyOwners
<1>2. OnWire'
  BY DEF OnWire
<1>3. Wire' /\ KeysInOnePiece'
  BY DEF Wire, KeysInOnePiece
<1>4. QED
  BY <1>1, <1>2, <1>3

(* The end of a call is such a step.                                       *)
LEMMA LeaveKeys ==
  ASSUME ShellInv, KeyInv, NEW w \in Workers, Leave(w), UNCHANGED <<wire, tabVars, taken, server>>,
         jump' \in BOOLEAN, closing' \in BOOLEAN, reader' \in {"none", "running", "ended"}
  PROVE  KeyInv'
<1>1. /\ pc' = [pc EXCEPT ![w] = "idle"] /\ op' = [op EXCEPT ![w] = "connect"]
      /\ key' = [key EXCEPT ![w] = 0] /\ written' = [written EXCEPT ![w] = 0]
  BY DEF Leave, Goto
<1>2. OtherTypes'
  <2>1. key' \in [Workers -> 0..MaxKeys] /\ written' \in [Workers -> 0..KeyLength]
    BY <1>1, ShellAssumption DEF KeyInv, OtherTypes
  <2>2. QED
    BY <2>1, Zenon DEF KeyInv, OtherTypes, tabVars
<1>3. \A v \in Workers :
          /\ Sends(v)' => Sends(v) /\ key'[v] = key[v] /\ written'[v] = written[v]
          /\ pc'[v] = "write" => op'[v] = "send_input"
          /\ pc'[v] # "write" => written'[v] = 0
  BY <1>1 DEF ShellInv, Typed, KeyInv, KeyOwners, OtherTypes, Sends
<1>4. QED
  BY <1>2, <1>3, QuietStep DEF tabVars

(* A request puts idle threads to work; a key typed is a new one.          *)
LEMMA RequestKeys ==
  ASSUME ShellInv, KeyInv,
         \/ \E w \in Workers : StartConnect(w) \/ StartShell(w) \/ Type(w) \/ Resize(w)
         \/ \E v, w \in Workers : CloseTab(v, w)
  PROVE  KeyInv'
<1> USE ShellAssumption
<1>1. ASSUME NEW w \in Workers, NEW o \in Ops \ {"send_input"}, Call(w, o, 0),
             keys' = keys, resizes' \in 0..MaxResizes,
             tab' \in {"new", "connecting", "live", "failed", "closed", "freed"}
      PROVE  KeyInv'
  <2>1. /\ pc[w] = "idle" /\ pc' = [pc EXCEPT ![w] = "enter"] /\ op' = [op EXCEPT ![w] = o]
        /\ key' = [key EXCEPT ![w] = 0]
        /\ UNCHANGED <<written, wire, jump, closing, taken, server, reader>>
    BY <1>1 DEF Call, Idle, objVars, netVars
  <2>2. key' \in [Workers -> 0..MaxKeys]
    BY <2>1 DEF KeyInv, OtherTypes
  <2>3. OtherTypes'
    BY <1>1, <2>1, <2>2, Zenon DEF KeyInv, OtherTypes
  <2>4. \A v \in Workers :
            /\ Sends(v)' => Sends(v) /\ key'[v] = key[v] /\ written'[v] = written[v]
            /\ pc'[v] = "write" => op'[v] = "send_input"
            /\ pc'[v] # "write" => written'[v] = 0
    BY <1>1, <2>1 DEF ShellInv, Typed, KeyInv, KeyOwners, OtherTypes, Sends
  <2>5. QED
    BY <1>1, <2>1, <2>3, <2>4, QuietStep
<1>2. ASSUME NEW w \in Workers, StartConnect(w)
      PROVE  KeyInv'
  BY <1>1, <1>2 DEF StartConnect, Ops, KeyInv, OtherTypes
<1>3. ASSUME NEW w \in Workers, StartShell(w)
      PROVE  KeyInv'
  <2>1. CASE session
    BY <1>1, <1>3, <2>1 DEF StartShell, Ops, KeyInv, OtherTypes
  <2>2. CASE ~session
    <3>1. UNCHANGED <<callVars, netVars, jump, keys, resizes>> /\ tab' = "failed"
      BY <1>3, <2>2 DEF StartShell, objVars
    <3>2. OtherTypes'
      BY <3>1, Zenon DEF KeyInv, OtherTypes, callVars, netVars
    <3>3. QED
      BY <3>1, <3>2, QuietStep DEF callVars, netVars, Sends, KeyInv, KeyOwners
  <2>3. QED
    BY <2>1, <2>2
<1>4. ASSUME NEW w \in Workers, Resize(w)
      PROVE  KeyInv'
  BY <1>1, <1>4 DEF Resize, Ops, KeyInv, OtherTypes
<1>5. ASSUME NEW w \in Workers, Type(w)
      PROVE  KeyInv'
  <2>1. /\ pc[w] = "idle" /\ pc' = [pc EXCEPT ![w] = "enter"]
        /\ op' = [op EXCEPT ![w] = "send_input"] /\ key' = [key EXCEPT ![w] = keys + 1]
        /\ keys < MaxKeys /\ keys' = keys + 1 /\ keys \in Nat
        /\ UNCHANGED <<written, wire, jump, closing, taken, server, reader, tab, resizes>>
    BY <1>5 DEF Type, Call, Idle, objVars, netVars, KeyInv, OtherTypes
  <2>2. key' \in [Workers -> 0..MaxKeys] /\ keys' \in 0..MaxKeys
    BY <2>1 DEF KeyInv, OtherTypes
  <2>3. OtherTypes'
    BY <2>1, <2>2, Zenon DEF KeyInv, OtherTypes
  <2>4. \A v \in Workers : v # w => Sends(v)' = Sends(v) /\ key'[v] = key[v]
                                    /\ pc'[v] = pc[v] /\ op'[v] = op[v]
    BY <2>1 DEF Sends, ShellInv, Typed, KeyInv, OtherTypes
  <2>5. key'[w] = keys + 1 /\ written[w] = 0 /\ pc'[w] = "enter"
    BY <2>1 DEF ShellInv, Typed, KeyInv, KeyOwners, OtherTypes
  <2>6. KeyOwners'
    BY <2>1, <2>4, <2>5 DEF KeyInv, KeyOwners
  <2>7. OnWire'
    BY <2>1, <2>4, <2>5 DEF KeyInv, OnWire
  <2>8. Wire' /\ KeysInOnePiece'
    BY <2>1 DEF KeyInv, Wire, KeysInOnePiece
  <2>9. QED
    BY <2>3, <2>6, <2>7, <2>8 DEF KeyInv
<1>6. ASSUME NEW v \in Workers, NEW w \in Workers, CloseTab(v, w)
      PROVE  KeyInv'
  <2>1. /\ pc[v] = "idle" /\ pc[w] = "idle" /\ pc' = [pc EXCEPT ![v] = "enter", ![w] = "enter"]
        /\ op' = [op EXCEPT ![v] = "close_shell", ![w] = "disconnect"] /\ tab' = "closed"
        /\ UNCHANGED <<key, written, wire, jump, closing, taken, server, reader, keys, resizes>>
    BY <1>6 DEF CloseTab, Idle, objVars, netVars
  <2>2. OtherTypes'
    BY <2>1, Zenon DEF KeyInv, OtherTypes
  <2>3. \A u \in Workers :
            /\ Sends(u)' => Sends(u)
            /\ pc'[u] = "write" => op'[u] = "send_input"
            /\ pc'[u] # "write" => written'[u] = 0
    BY <2>1 DEF ShellInv, Typed, KeyInv, KeyOwners, OtherTypes, Sends
  <2>4. QED
    BY <2>1, <2>2, <2>3, QuietStep
<1>7. QED
  BY <1>2, <1>3, <1>4, <1>5, <1>6

(* A call that goes on to another step without writing.                    *)
LEMMA OnwardKeys ==
  ASSUME ShellInv, KeyInv, NEW w \in Workers, NEW step \in Steps, Goto(w, step),
         pc[w] # "idle", pc[w] # "write", step = "write" => op[w] = "send_input",
         UNCHANGED <<op, key, written, wire, taken, server, reader, tabVars>>,
         jump' \in BOOLEAN, closing' \in BOOLEAN
  PROVE  KeyInv'
<1>1. OtherTypes'
  BY Zenon DEF KeyInv, OtherTypes, tabVars
<1>2. \A v \in Workers :
          /\ Sends(v)' => Sends(v)
          /\ pc'[v] = "write" => op'[v] = "send_input"
          /\ pc'[v] # "write" => written'[v] = 0
  BY DEF Goto, ShellInv, Typed, KeyInv, KeyOwners, Sends
<1>3. QED
  BY <1>1, <1>2, QuietStep DEF tabVars

(* Bytes appended to the wire.                                             *)
LEMMA WireGrows ==
  ASSUME NEW old \in Seq(Nat \X Nat), NEW n \in Nat, NEW k \in Nat, NEW b \in Nat
  PROVE  LET more == [i \in 1..n |-> <<k, b + i>>] IN
         /\ old \o more \in Seq(Nat \X Nat) /\ Len(old \o more) = Len(old) + n
         /\ \A i \in 1..Len(old) : (old \o more)[i] = old[i]
         /\ \A i \in 1..n : (old \o more)[Len(old) + i] = <<k, b + i>>
<1> DEFINE more == [i \in 1..n |-> <<k, b + i>>]
<1>1. \A i \in 1..n : <<k, b + i>> \in Nat \X Nat
  OBVIOUS
<1>2. more \in Seq(Nat \X Nat)
  BY <1>1, IsASeq
<1>3. Len(more) = n /\ \A i \in 1..n : more[i] = <<k, b + i>>
  OBVIOUS
<1> HIDE DEF more
<1>4. QED
  BY <1>2, <1>3, ConcatProperties, SMTT(30) DEF more

(* One write continues its key, right behind what it wrote before, since   *)
(* nobody else can have written in between.                                *)
LEMMA WriteKeys ==
  ASSUME ShellInv, KeyInv, NEW w \in Workers, Write(w)
  PROVE  KeyInv'
<1> USE ShellAssumption
<1>1. PICK n \in 1..Pending(w) :
          /\ wire' = wire \o [i \in 1..n |-> <<key[w], written[w] + i>>]
          /\ written' = [written EXCEPT ![w] = @ + n]
  BY DEF Write
<1>2. UNCHANGED <<pc, op, key, keys, resizes, tab, jump, closing, taken, server, reader>>
  BY DEF Write, objVars, tabVars
<1> DEFINE k == key[w]
<1> DEFINE b == written[w]
<1> DEFINE L == Len(wire)
<1>3. /\ pc[w] = "write" /\ Sends(w) /\ k \in 1..keys /\ keys \in 0..MaxKeys
      /\ b \in 0..KeyLength /\ n \in Nat \ {0} /\ b + n <= KeyLength
  BY DEF Write, KeyInv, KeyOwners, OtherTypes, Sends, Pending
<1>4. wire \in Seq(Nat \X Nat) /\ L \in Nat
      /\ \A i \in 1..L : wire[i] \in (1..MaxKeys) \X (1..KeyLength)
  <2> DEFINE E == (1..MaxKeys) \X (1..KeyLength)
  <2>1. wire \in Seq(E) /\ E \subseteq Nat \X Nat
    BY DEF KeyInv, Wire
  <2> HIDE DEF E
  <2>2. wire \in Seq(Nat \X Nat) /\ \A i \in 1..Len(wire) : wire[i] \in E
    BY <2>1, SeqMonotonic
  <2>3. QED
    BY <2>2 DEF E
<1>5. /\ wire' \in Seq(Nat \X Nat) /\ Len(wire') = L + n
      /\ \A i \in 1..L : wire'[i] = wire[i]
      /\ \A i \in 1..n : /\ wire'[L + i] = <<k, b + i>>
                          /\ wire'[L + i][1] = k /\ wire'[L + i][2] = b + i
  <2>1. n \in Nat /\ k \in Nat /\ b \in Nat
    BY <1>3
  <2> DEFINE more == [i \in 1..n |-> <<k, b + i>>]
  <2>2. wire' = wire \o more
    BY <1>1
  <2> HIDE DEF k, b
  <2>3. /\ wire \o more \in Seq(Nat \X Nat) /\ Len(wire \o more) = Len(wire) + n
        /\ \A i \in 1..Len(wire) : (wire \o more)[i] = wire[i]
        /\ \A i \in 1..n : (wire \o more)[Len(wire) + i] = <<k, b + i>>
    BY <1>4, <2>1, WireGrows
  <2> HIDE DEF more
  <2>4. /\ wire' \in Seq(Nat \X Nat) /\ Len(wire') = L + n
        /\ \A i \in 1..L : wire'[i] = wire[i]
        /\ \A i \in 1..n : wire'[L + i] = <<k, b + i>>
    BY <2>2, <2>3
  <2>5. \A i \in 1..n : wire'[L + i][1] = k /\ wire'[L + i][2] = b + i
    <3> TAKE i \in 1..n
    <3>1. wire'[L + i] = <<k, b + i>>
      BY <2>4
    <3>2. QED
      BY <3>1
  <2>6. QED
    BY <2>4, <2>5, Zenon
<1>6. IF b = 0 THEN \A i \in 1..L : wire[i][1] # k ELSE L > 0 /\ wire[L] = <<k, b>>
  BY <1>3 DEF KeyInv, OnWire
<1>7. /\ written' = [written EXCEPT ![w] = b + n]
      /\ \A v \in Workers : v # w /\ Sends(v) => written[v] = 0 /\ key[v] # k
  <2>1. \A v \in Workers : v # w => pc[v] # "write"
    BY <1>3 DEF ShellInv, ChannelLock
  <2>2. QED
    BY <1>1, <1>3, <2>1 DEF KeyInv, KeyOwners
<1>8. \A v \in Workers : Sends(v)' = Sends(v) /\ (v # w => written'[v] = written[v])
      /\ written'[w] = b + n
  BY <1>2, <1>7 DEF Sends, KeyInv, OtherTypes
<1> HIDE DEF k, b, L
<1>9. \A i \in 1..(L + n) : i \in 1..L \/ \E m \in 1..n : i = L + m
  <2> TAKE i \in 1..(L + n)
  <2>1. CASE i > L
    <3>1. i - L \in 1..n /\ i = L + (i - L)
      BY <1>3, <1>4, <2>1
    <3>2. QED
      BY <3>1
  <2>2. QED
    BY <1>4, <2>1
<1>10. OtherTypes'
  <2>1. written' \in [Workers -> 0..KeyLength]
    BY <1>3, <1>7 DEF KeyInv, OtherTypes
  <2>2. taken' \in 0..Len(wire')
    BY <1>2, <1>3, <1>4, <1>5 DEF KeyInv, OtherTypes, L
  <2>3. QED
    BY <1>2, <2>1, <2>2, Zenon DEF KeyInv, OtherTypes
<1>11. \A i \in 1..Len(wire') :
          wire'[i] \in (1..MaxKeys) \X (1..KeyLength) /\ wire'[i][1] \in 1..keys
  <2> SUFFICES ASSUME NEW i \in 1..(L + n)
               PROVE  wire'[i] \in (1..MaxKeys) \X (1..KeyLength) /\ wire'[i][1] \in 1..keys
    BY <1>5
  <2>1. CASE i \in 1..L
    BY <1>4, <1>5, <2>1 DEF KeyInv, OnWire, L
  <2>2. ASSUME NEW m \in 1..n, i = L + m
        PROVE  wire'[i] \in (1..MaxKeys) \X (1..KeyLength) /\ wire'[i][1] \in 1..keys
    <3>1. wire'[i] = <<k, b + m>> /\ wire'[i][1] = k
      BY <1>5, <2>2
    <3>2. k \in 1..keys /\ k \in 1..MaxKeys /\ b + m \in 1..KeyLength
      BY <1>3
    <3>3. QED
      BY <3>1, <3>2
  <2>3. QED
    BY <1>9, <2>1, <2>2
<1>12. Wire'
  <2> DEFINE E == (1..MaxKeys) \X (1..KeyLength)
  <2>1. \A i \in 1..Len(wire') : wire'[i] \in E
    BY <1>11
  <2> HIDE DEF E
  <2>2. wire' \in Seq(E)
    BY <1>5, <2>1
  <2>3. QED
    BY <1>2, <2>2 DEF Wire, E
<1>13. KeyOwners'
  BY <1>2, <1>3, <1>8 DEF KeyInv, KeyOwners
<1>14. OnWire'
  <2>1. ASSUME NEW v \in Workers, Sends(v), v # w
        PROVE  written'[v] = 0 /\ \A i \in 1..Len(wire') : wire'[i][1] # key'[v]
    <3>1. written'[v] = 0 /\ key'[v] # k /\ \A i \in 1..L : wire[i][1] # key'[v]
      BY <1>2, <1>7, <1>8, <2>1 DEF KeyInv, OnWire, L
    <3>2. ASSUME NEW i \in 1..(L + n)
          PROVE  wire'[i][1] # key'[v]
      <4>1. CASE i \in 1..L
        BY <1>5, <3>1, <4>1
      <4>2. ASSUME NEW m \in 1..n, i = L + m
            PROVE  wire'[i][1] # key'[v]
        BY <1>5, <3>1, <4>2
      <4>3. QED
        BY <1>9, <4>1, <4>2
    <3>3. QED
      BY <1>5, <3>1, <3>2
  <2>2. Len(wire') > 0 /\ wire'[Len(wire')] = <<key'[w], written'[w]>> /\ written'[w] # 0
    BY <1>2, <1>3, <1>4, <1>5, <1>8, SMTT(30) DEF k
  <2>3. QED
    BY <1>2, <1>8, <1>11, <2>1, <2>2 DEF OnWire
<1>15. KeysInOnePiece'
  <2> SUFFICES ASSUME NEW i \in 1..(L + n)
               PROVE  IF wire'[i][2] = 1 THEN \A j \in 1..(i - 1) : wire'[j][1] # wire'[i][1]
                      ELSE i > 1 /\ wire'[i - 1] = <<wire'[i][1], wire'[i][2] - 1>>
    BY <1>5 DEF KeysInOnePiece
  <2>1. CASE i \in 1..L
    <3>1. IF wire[i][2] = 1 THEN \A j \in 1..(i - 1) : wire[j][1] # wire[i][1]
          ELSE i > 1 /\ wire[i - 1] = <<wire[i][1], wire[i][2] - 1>>
      BY <2>1 DEF KeyInv, KeysInOnePiece, L
    <3>2. /\ \A j \in 1..(i - 1) : wire'[j] = wire[j]
          /\ wire'[i] = wire[i] /\ (i > 1 => wire'[i - 1] = wire[i - 1])
      <4>1. i \in 1..L /\ (\A j \in 1..(i - 1) : j \in 1..L) /\ (i > 1 => i - 1 \in 1..L)
        BY <1>4, <2>1
      <4>2. QED
        BY <1>5, <4>1
    <3>3. CASE wire[i][2] = 1
      BY <3>1, <3>2, <3>3
    <3>4. CASE wire[i][2] # 1
      BY <3>1, <3>2, <3>4
    <3>5. QED
      BY <3>3, <3>4
  <2>2. ASSUME NEW m \in 1..n, i = L + m
        PROVE  IF wire'[i][2] = 1 THEN \A j \in 1..(i - 1) : wire'[j][1] # wire'[i][1]
               ELSE i > 1 /\ wire'[i - 1] = <<wire'[i][1], wire'[i][2] - 1>>
    <3>1. wire'[i] = <<k, b + m>>
      BY <1>5, <2>2
    <3>2. CASE b + m = 1
      <4>1. b = 0 /\ m = 1
        BY <1>3, <3>2
      <4>2. \A j \in 1..(i - 1) : j \in 1..L /\ wire'[j] = wire[j] /\ wire[j][1] # k
        BY <1>4, <1>5, <1>6, <2>2, <4>1, SMTT(30)
      <4>3. QED
        BY <3>1, <3>2, <4>2
    <3>3. CASE b + m # 1 /\ m = 1
      <4>1. L > 0 /\ wire[L] = <<k, b>> /\ i - 1 = L
        BY <1>3, <1>4, <1>6, <2>2, <3>3
      <4>2. i > 1 /\ i - 1 \in 1..L
        BY <1>4, <2>2, <3>3, <4>1
      <4>3. wire'[i - 1] = <<k, b>>
        BY <1>5, <4>1, <4>2
      <4>4. wire'[i][1] = k /\ wire'[i][2] - 1 = b /\ wire'[i][2] # 1
        BY <1>3, <3>1, <3>3
      <4>5. QED
        BY <4>2, <4>3, <4>4
    <3>4. CASE b + m # 1 /\ m # 1
      <4>1. m - 1 \in 1..n /\ i - 1 = L + (m - 1) /\ i > 1
        BY <1>3, <1>4, <2>2, <3>4
      <4>2. wire'[i - 1] = <<k, b + (m - 1)>>
        BY <1>5, <4>1
      <4>3. wire'[i][1] = k /\ wire'[i][2] - 1 = b + (m - 1) /\ wire'[i][2] # 1
        BY <1>3, <3>1, <3>4
      <4>4. QED
        BY <4>1, <4>2, <4>3
    <3>5. QED
      BY <3>2, <3>3, <3>4
  <2>3. QED
    BY <1>9, <2>1, <2>2
<1>16. QED
  BY <1>10, <1>12, <1>13, <1>14, <1>15 DEF KeyInv

LEMMA NextKeyInv ==
  ASSUME ShellInv, KeyInv, [Next]_vars
  PROVE  KeyInv'
<1> USE DEF tabVars, netVars, objVars
<1>1. ASSUME NEW w \in Workers, Step(w)
      PROVE  KeyInv'
  <2>1. jump \in BOOLEAN /\ closing \in BOOLEAN /\ reader \in {"none", "running", "ended"}
        /\ op[w] \in Ops
    BY DEF KeyInv, OtherTypes, ShellInv, Typed
  <2>2. CASE Enter(w)
    BY <2>1, <2>2, OnwardKeys DEF Enter, Steps, Ops
  <2>3. CASE Connect(w)
    BY <2>1, <2>3, LeaveKeys DEF Connect
  <2>4. CASE RequestShell(w)
    BY <2>1, <2>4, LeaveKeys, OnwardKeys DEF RequestShell, Steps
  <2>5. CASE StoreChannel(w)
    BY <2>1, <2>5, LeaveKeys DEF StoreChannel
  <2>6. CASE TakeChannel(w)
    BY <2>1, <2>6, LeaveKeys, OnwardKeys DEF TakeChannel, Steps
  <2>7. CASE Write(w)
    BY <2>7, WriteKeys
  <2>8. CASE WriteEnds(w) \/ RequestSize(w)
    BY <2>1, <2>8, LeaveKeys DEF WriteEnds, RequestSize
  <2>9. CASE CloseShell(w)
    <3>1. closing' \in BOOLEAN
      BY <2>1, <2>9, Zenon DEF CloseShell, DropChannel
    <3>2. QED
      BY <2>1, <2>9, <3>1, LeaveKeys DEF CloseShell
  <2>10. CASE DisconnectShell(w)
    <3>1. closing' \in BOOLEAN
      BY <2>1, <2>10, Zenon DEF DisconnectShell, DropChannel, ShellInv, Typed
    <3>2. QED
      BY <2>1, <2>10, <3>1, OnwardKeys DEF DisconnectShell, Steps
  <2>11. CASE EndSession(w)
    <3>1. closing' \in BOOLEAN
      BY <2>1, <2>11, Zenon DEF EndSession, ShellInv, Typed
    <3>2. QED
      BY <2>1, <2>11, <3>1, LeaveKeys, OnwardKeys DEF EndSession, Steps
  <2>12. CASE EndJump(w)
    BY <2>1, <2>12, LeaveKeys DEF EndJump
  <2>13. QED
    BY <1>1, <2>2, <2>3, <2>4, <2>5, <2>6, <2>7, <2>8, <2>9, <2>10, <2>11, <2>12 DEF Step
<1>2. CASE Drop \/ ServerTakes \/ ServerCloses \/ ServerAnswers \/ ReaderEnds \/ UNCHANGED vars
  <2>1. UNCHANGED <<pc, op, key, written, wire, keys, resizes>>
    BY <1>2 DEF Drop, ServerTakes, ServerCloses, ServerAnswers, ReaderEnds, vars, callVars
  <2>2. OtherTypes'
    <3>1. jump' \in BOOLEAN /\ closing' \in BOOLEAN
      BY <1>2, Zenon DEF Drop, DropChannel, ServerTakes, ServerCloses, ServerAnswers, ReaderEnds,
                         vars, callVars, KeyInv, OtherTypes, ShellInv, Typed
    <3>2. taken' \in 0..Len(wire')
      BY <1>2 DEF Drop, ServerTakes, ServerCloses, ServerAnswers, ReaderEnds,
                  vars, KeyInv, OtherTypes
    <3>3. tab' \in {"new", "connecting", "live", "failed", "closed", "freed"}
          /\ server' \in {"up", "closed"} /\ reader' \in {"none", "running", "ended"}
      BY <1>2 DEF Drop, ServerTakes, ServerCloses, ServerAnswers, ReaderEnds,
                  vars, KeyInv, OtherTypes
    <3>4. QED
      BY <2>1, <3>1, <3>2, <3>3, Zenon DEF KeyInv, OtherTypes
  <2>3. QED
    BY <2>1, <2>2, QuietStep DEF KeyInv, KeyOwners, Sends
<1>3. QED
  BY <1>1, <1>2, RequestKeys DEF Next

(* Every variable of the connection holds a value of its kind, for any     *)
(* number of threads and keys.                                             *)
THEOREM ShellTypeCorrect == Spec => []TypeOK
<1>1. ShellInv /\ KeyInv => TypeOK
  <2> SUFFICES ASSUME ShellInv, KeyInv PROVE TypeOK
    OBVIOUS
  <2>1. {writer, shellLock} \subseteq Workers \cup {Free} /\ readers \subseteq Workers
        /\ op \in [Workers -> Ops]
    BY DEF ShellInv, Typed
  <2>2. {shell, session, jump, closing} \subseteq BOOLEAN
    BY Zenon DEF ShellInv, Typed, KeyInv, OtherTypes
  <2>3. pc \in [Workers -> Ops \cup {"idle", "enter", "store_channel", "write", "request_size",
                                     "end_session", "end_jump"}]
    BY DEF ShellInv, Typed, Steps
  <2>4. QED
    BY <2>1, <2>2, <2>3, Zenon DEF TypeOK, KeyInv, OtherTypes, Wire
<1>2. QED
  BY InitShell, NextShellInv, InitKeys, NextKeyInv, <1>1, PTL DEF Spec

(* send_input (ssh.rs) writes a key in rounds, under the mutex of          *)
(* shell_channel: its bytes reach the channel next to each other and in    *)
(* order, whatever other threads write, time out or resize meanwhile.      *)
THEOREM KeysAreWhole == Spec => []KeysInOnePiece
<1>1. ShellInv /\ KeyInv => KeysInOnePiece
  BY DEF KeyInv
<1>2. QED
  BY InitShell, NextShellInv, InitKeys, NextKeyInv, <1>1, PTL DEF Spec
=============================================================================
