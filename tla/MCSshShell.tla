----------------------------- MODULE MCSshShell -----------------------------
(* The pool's threads are interchangeable. *)
EXTENDS SshShell

Symmetry == Permutations(Workers)
=============================================================================
