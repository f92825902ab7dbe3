----------------------------- MODULE MCJumpProxy -----------------------------
(* Conversations for the model checker. *)
EXTENDS JumpProxy

(* The SSH handshake and a password login: banner, KEXINIT, key exchange   *)
(* and NEWKEYS, service, authentication.  Banner and KEXINIT of both sides *)
(* cross; NEWKEYS (4) and the service request (5) of the client follow one *)
(* another without an answer in between.                                   *)
Login == [client |-> <<0, 1, 2, 3, 3, 4>>, target |-> <<0, 0, 3, 5, 6>>]
=============================================================================
