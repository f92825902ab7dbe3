------------------------------ MODULE JumpProxy ------------------------------
(***************************************************************************)
(* The jump-host tunnel of connect_via_jump_host (ssh.rs): a thread that   *)
(* carries bytes between a loopback socket, whose other end is the client  *)
(* side of the SSH session with the target host, and a direct-tcpip        *)
(* channel of the SSH session with the jump host.                          *)
(*                                                                         *)
(* The socket is non-blocking.  The channel is not: the jump session is    *)
(* never switched with set_blocking(false), so channel.read waits for      *)
(* data and holds the session's lock while it waits.                       *)
(*                                                                         *)
(* The two ends hold a conversation, of which we keep who waits for whom.  *)
(* Messages are numbered on each side; a read or write moves any run of    *)
(* whole messages, as the bytes between two system calls may.              *)
(***************************************************************************)
EXTENDS Naturals, Sequences, SequencesExt

CONSTANTS
    Needs,      \* Needs[s][k]: how many messages side s must hear before its k-th
    SocketRoom, \* messages the socket towards the client takes before it would block
    Chatty      \* the target also sends packets of its own accord (keepalives)

Sides == {"client", "target"}
Peer(side) == IF side = "client" THEN "target" ELSE "client"

Noise == 0
Numbers == Nat \ {Noise}

ASSUME ProxyAssumption ==
    /\ Needs \in [Sides -> Seq(Nat)]
    /\ SocketRoom \in Nat \ {0}
    /\ Chatty \in BOOLEAN

VARIABLES
    said,       \* how many of its messages each side has sent
    heard,      \* the messages each side has received
    local,      \* in the loopback socket, from the client
    up,         \* in the channel, towards the target
    down,       \* in the channel, from the target
    back,       \* in the loopback socket, towards the client
    pc, hold,   \* the proxy thread: its next call, and the bytes in `buf`
    open,       \* which sides have not hung up
    bye         \* how far connect_via_jump_host, then disconnect have come

hosts == <<said, heard, open>>
pipes == <<local, up, down, back>>
vars == <<hosts, pipes, pc, hold, bye>>

Init ==
    /\ said = [s \in Sides |-> 0]
    /\ heard = [s \in Sides |-> <<>>]
    /\ local = <<>> /\ up = <<>> /\ down = <<>> /\ back = <<>>
    /\ pc = "accept" /\ hold = <<>>
    /\ open = [s \in Sides |-> TRUE]
    /\ bye = "connecting"

-----------------------------------------------------------------------------
(* The two ends.  A side says its next message once it heard what it needs. *)
MaySay(s) == /\ open[s] /\ pc # "gone"
             /\ s = "client" => bye # "connecting"
             /\ said[s] < Len(Needs[s])
             /\ Len(heard[s]) >= Needs[s][said[s] + 1]

Say(s) ==
    /\ MaySay(s)
    /\ said' = [said EXCEPT ![s] = @ + 1]
    /\ IF s = "client"
       THEN local' = Append(local, said'[s]) /\ UNCHANGED down
       ELSE down' = Append(down, said'[s]) /\ UNCHANGED local
    /\ UNCHANGED <<heard, open, up, back, pc, hold, bye>>

(* bound: one such packet in the channel and the proxy at a time *)
Chatter ==
    /\ Chatty /\ open["target"] /\ pc # "gone"
    /\ ~Contains(hold \o down, Noise)
    /\ down' = Append(down, Noise)
    /\ UNCHANGED <<hosts, local, up, back, pc, hold, bye>>

Note(s, m) == heard' = IF m = Noise THEN heard ELSE [heard EXCEPT ![s] = Append(@, m)]

ClientHears ==
    /\ open["client"] /\ back # <<>>
    /\ Note("client", Head(back))
    /\ back' = Tail(back)
    /\ UNCHANGED <<said, open, local, up, down, pc, hold, bye>>

TargetHears ==
    /\ open["target"] /\ up # <<>>
    /\ Note("target", Head(up))
    /\ up' = Tail(up)
    /\ UNCHANGED <<said, open, local, down, back, pc, hold, bye>>

(* The target host ends the connection. *)
TargetCloses ==
    /\ open["target"]
    /\ open' = [open EXCEPT !["target"] = FALSE]
    /\ UNCHANGED <<said, heard, pipes, pc, hold, bye>>

(* TcpStream::connect to the listener, whose queue takes it before accept. *)
ConnectLocal ==
    /\ bye = "connecting" /\ pc # "gone"
    /\ bye' = "no"
    /\ UNCHANGED <<hosts, pipes, pc, hold>>

(* It fails: `?` returns, and nobody will connect to that listener.        *)
ConnectRefused ==
    /\ bye = "connecting"
    /\ open' = [open EXCEPT !["client"] = FALSE]
    /\ bye' = "refused"
    /\ UNCHANGED <<said, heard, pipes, pc, hold>>

(* The handshake or the authentication with the target fails: `?` drops    *)
(* the target session and its socket, and disconnects nothing.             *)
ConnectFails ==
    /\ bye = "no" /\ open["client"]
    /\ open' = [open EXCEPT !["client"] = FALSE]
    /\ bye' = "dropped"
    /\ UNCHANGED <<said, heard, pipes, pc, hold>>

(* disconnect: first the target session and with it the socket, where an   *)
(* error returns ...                                                       *)
LeaveTarget ==
    /\ bye = "no" /\ open["client"]
    /\ open' = [open EXCEPT !["client"] = FALSE]
    /\ bye' \in {"jump", "dropped"}
    /\ UNCHANGED <<said, heard, pipes, pc, hold>>

(* ... then the jump session, whose lock a read in progress holds.         *)
LeaveJump ==
    /\ bye = "jump" /\ pc # "read_channel"
    /\ bye' = "done"
    /\ UNCHANGED <<hosts, pipes, pc, hold>>

-----------------------------------------------------------------------------
(* The proxy thread.  "gone": the loop was left, both ends are dropped.    *)
Accept ==
    /\ pc = "accept" /\ bye \notin {"connecting", "refused"}
    /\ pc' = "read_local"
    /\ UNCHANGED <<hosts, pipes, hold, bye>>

AcceptFails ==
    /\ pc = "accept"
    /\ pc' = "gone"
    /\ UNCHANGED <<hosts, pipes, hold, bye>>

(* Mutant: the socket is left in blocking mode. *)
ReadLocalBlocking ==
    /\ pc = "read_local"
    /\ \/ \E n \in 1..Len(local) :
             /\ hold' = SubSeq(local, 1, n)
             /\ local' = SubSeq(local, n + 1, Len(local))
             /\ pc' = "write_channel"
       \/ /\ ~open["client"] /\ (local = <<>> \/ back # <<>>)
          /\ pc' = "gone"
          /\ UNCHANGED <<local, hold>>
    /\ UNCHANGED <<hosts, up, down, back, bye>>

(* A closed socket still yields what it holds, unless the client left      *)
(* something unread and the connection was reset.                          *)
ReadLocal ==
    /\ pc = "read_local"
    /\ \/ \E n \in 1..Len(local) :
             /\ hold' = SubSeq(local, 1, n)
             /\ local' = SubSeq(local, n + 1, Len(local))
             /\ pc' = "write_channel"
       \/ /\ ~open["client"] /\ (local = <<>> \/ back # <<>>)
          /\ pc' = "gone"
          /\ UNCHANGED <<local, hold>>
       \/ /\ open["client"] /\ local = <<>>         \* WouldBlock
          /\ pc' = "read_channel"
          /\ UNCHANGED <<local, hold>>
    /\ UNCHANGED <<hosts, up, down, back, bye>>

(* Mutant: `write` in place of `write_all`. *)
WriteChannelOnce ==
    /\ pc = "write_channel"
    /\ \E n \in 1..Len(hold) : up' = up \o SubSeq(hold, 1, n)
    /\ pc' = "read_channel"
    /\ hold' = <<>>
    /\ UNCHANGED <<hosts, local, down, back, bye>>

WriteChannel ==
    /\ pc = "write_channel"
    /\ \/ /\ bye # "done"
          /\ up' = up \o hold
          /\ pc' = "read_channel"
       \/ /\ bye = "done" \/ ~open["target"]
          /\ pc' = "gone"
          /\ UNCHANGED up
    /\ hold' = <<>>
    /\ UNCHANGED <<hosts, local, down, back, bye>>

(* Mutant: Ok(0) is taken for "nothing yet". *)
ReadChannelForever ==
    /\ pc = "read_channel"
    /\ \E n \in 1..Len(down) :
          /\ hold' = SubSeq(down, 1, n)
          /\ down' = SubSeq(down, n + 1, Len(down))
          /\ pc' = "write_local"
    /\ UNCHANGED <<hosts, local, up, back, bye>>

(* Waits: there is data, the target is at end of file, or the session was  *)
(* disconnected before the call.                                           *)
ReadChannel ==
    /\ pc = "read_channel"
    /\ \/ /\ bye # "done"
          /\ \E n \in 1..Len(down) :
                /\ hold' = SubSeq(down, 1, n)
                /\ down' = SubSeq(down, n + 1, Len(down))
          /\ pc' = "write_local"
       \/ /\ bye = "done" \/ (down = <<>> /\ ~open["target"])
          /\ pc' = "gone"
          /\ UNCHANGED <<hold, down>>
    /\ UNCHANGED <<hosts, local, up, back, bye>>

Room == SocketRoom - Len(back)

(* Mutant: a write that would block is tried again from its first byte. *)
WriteLocalAgain ==
    /\ pc = "write_local"
    /\ IF Len(hold) <= Room
       THEN back' = back \o hold /\ pc' = "read_local" /\ hold' = <<>>
       ELSE back' = back \o SubSeq(hold, 1, Room) /\ UNCHANGED <<pc, hold>>
    /\ UNCHANGED <<hosts, local, up, down, bye>>

(* write_all on the non-blocking socket: what does not fit fails it with   *)
(* WouldBlock, and any error leaves the loop.                              *)
WriteLocal ==
    /\ pc = "write_local"
    /\ \/ /\ open["client"] /\ Len(hold) <= Room
          /\ back' = back \o hold
          /\ pc' = "read_local"
       \/ /\ open["client"] /\ Len(hold) > Room
          /\ back' = back \o SubSeq(hold, 1, Room)
          /\ pc' = "gone"
       \/ /\ ~open["client"]
          /\ pc' \in {"read_local", "gone"}
          /\ UNCHANGED back
    /\ hold' = <<>>
    /\ UNCHANGED <<hosts, local, up, down, bye>>

Shuttle == Accept \/ ReadLocal \/ WriteChannel \/ ReadChannel \/ WriteLocal

Next ==
    \/ \E s \in Sides : Say(s)
    \/ Chatter \/ ClientHears \/ TargetHears
    \/ ConnectLocal \/ ConnectRefused
    \/ TargetCloses \/ ConnectFails \/ LeaveTarget \/ LeaveJump
    \/ AcceptFails \/ Shuttle

Spec == Init /\ [][Next]_vars

(* Threads run, and hosts say what they have to; nobody has to connect, to *)
(* speak unasked, to fail or to hang up.                                   *)
Fairness ==
    /\ \A s \in Sides : WF_vars(Say(s))
    /\ WF_vars(ClientHears) /\ WF_vars(TargetHears)
    /\ WF_vars(Shuttle) /\ WF_vars(LeaveJump)

FairSpec == Spec /\ Fairness

-----------------------------------------------------------------------------
BothOpen == \A s \in Sides : open[s]

(* Every variable holds a value of its kind, and the buffer holds data     *)
(* exactly between a read and its write.                                   *)
TypeOK ==
    /\ hold # <<>> <=> pc \in {"write_channel", "write_local"}
    /\ said \in [Sides -> Nat] /\ heard \in [Sides -> Seq(Numbers)]
    /\ \A p \in {local, up, down, back, hold} : p \in Seq(Nat)
    /\ pc \in {"accept", "read_local", "write_channel", "read_channel", "write_local", "gone"}
    /\ open \in [Sides -> BOOLEAN]
    /\ bye \in {"connecting", "refused", "no", "dropped", "jump", "done"}

(* What is on its way to each side: in the socket, in `buf`, in the        *)
(* channel.                                                                *)
Buffered(write) == IF pc = write THEN hold ELSE <<>>
Upward == up \o Buffered("write_channel") \o local
Downward == back \o Buffered("write_local") \o down

OneTo(n) == [i \in 1..n |-> i]

(* The numbered messages of q are a + 1 to b, each once and in this order. *)
Carries(q, a, b) ==
    /\ Range(q) \ {Noise} = (a + 1)..b
    /\ \A i, j \in DOMAIN q : i < j /\ Noise \notin {q[i], q[j]} => q[i] < q[j]

(* Nothing is lost or overtaken while the loop runs and both ends hold on: *)
(* each side heard a first part of what the other said, and the rest is on *)
(* its way.                                                                *)
AllOf(s, way) == /\ heard[s] = OneTo(Len(heard[s]))
                 /\ Carries(way, Len(heard[s]), said[Peer(s)])
NothingMissing == (pc # "gone" /\ BothOpen) => AllOf("target", Upward) /\ AllOf("client", Downward)

(* "Shuttle bytes in both directions until either side closes" (ssh.rs):   *)
(* what the client wrote does not lie in the socket for ever while both    *)
(* sides are open and the loop runs.                                       *)
ClientBytesMove ==
    (local # <<>> /\ BothOpen) ~> (local = <<>> \/ ~BothOpen \/ pc = "gone")

(* The thread waits for a target that says nothing, holding the lock of    *)
(* the jump session; or for a client that could not connect.               *)
Starved == pc = "read_channel" /\ down = <<>> /\ open["target"]
Deserted == pc = "accept" /\ bye = "refused"

(* A conversation through the tunnel comes to its end as it would over a   *)
(* direct connection, unless a side hangs up, the loop was left, or the    *)
(* thread goes on waiting for the target to speak out of turn.             *)
ConversationEnds ==
    bye = "no" ~> \/ ~BothOpen \/ pc = "gone" \/ []Starved
                  \/ \A s \in Sides : Len(heard[s]) = Len(Needs[Peer(s)])

(* Once the client side is dropped, by disconnect or by a connect that     *)
(* failed, the thread ends and gives back the channel that keeps the jump  *)
(* session alive, and disconnect returns.  Only two things keep it for     *)
(* ever: a silent target, and a listener to which nobody connects.         *)
TunnelReleased ==
    /\ ~open["client"] ~> pc = "gone" \/ []Starved \/ []Deserted
    /\ bye = "jump" ~> bye = "done" \/ []Starved

Streams == INSTANCE Tunnel WITH
    Messages <- 1..(Len(Needs["client"]) + Len(Needs["target"])),
    sent <- [s \in Sides |-> OneTo(said[s])],
    got <- heard

(* With sockets that fill up, hang-ups and failed connects at any point,   *)
(* each side still receives a first part of the other's stream.            *)
ImplementsTunnel == Streams!Spec
=============================================================================
