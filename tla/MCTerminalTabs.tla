--------------------------- MODULE MCTerminalTabs ---------------------------
(* Two or three tabs, the second of which logs in with a private key. *)
EXTENDS TerminalTabs

MCKeyed == {2} \cap Sessions
=============================================================================
