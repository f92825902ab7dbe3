------------------------------- MODULE Tunnel -------------------------------
(***************************************************************************)
(* What a tunnel promises its two ends: two streams.  Each end receives,   *)
(* in order and once, what the other end sent, or only a first part of it  *)
(* when the tunnel is torn down.                                           *)
(***************************************************************************)
EXTENDS Naturals, Sequences

CONSTANT Messages

VARIABLES
    sent,   \* what each end has sent
    got     \* what each end has received

Sides == {"client", "target"}
Peer(side) == IF side = "client" THEN "target" ELSE "client"

Init == /\ sent = [s \in Sides |-> <<>>]
        /\ got = [s \in Sides |-> <<>>]

Send(s) == /\ \E m \in Messages : sent' = [sent EXCEPT ![s] = Append(@, m)]
           /\ UNCHANGED got

Receive(s) == /\ Len(got[s]) < Len(sent[Peer(s)])
              /\ got' = [got EXCEPT ![s] = Append(@, sent[Peer(s)][Len(@) + 1])]
              /\ UNCHANGED sent

Next == \E s \in Sides : Send(s) \/ Receive(s)

Spec == Init /\ [][Next]_<<sent, got>>
=============================================================================
