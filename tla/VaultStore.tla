----------------------------- MODULE VaultStore ------------------------------
(***************************************************************************)
(* What a vault promises to those who open it, edit it and close it, with  *)
(* none of the mutexes, keys and steps of Vault.  The contents in memory   *)
(* were put there by an opening, which fetched them from the file, or as   *)
(* the empty contents of a vault just created, and are changed by edits    *)
(* since.  The file is what memory holds at the moment of a save, or lost  *)
(* in a save that did not finish.  A locked vault holds nothing.           *)
(***************************************************************************)
EXTENDS VaultData

CONSTANTS
    Edits,      \* the changes that may be asked for
    Openings,   \* those who may open the vault beside each other
    Locked,     \* nothing is in memory; nothing was fetched
    Unreadable  \* there is no file, or it does not parse

VARIABLES mem, file, image

vars == <<mem, file, image>>

Init == /\ mem = Locked /\ file = Unreadable
        /\ image = [o \in Openings |-> Locked]

(* A creation is asked for only while there is nothing to be lost by it.   *)
Create(o) == /\ file \in {Unreadable, EmptyData}
             /\ image' = [image EXCEPT ![o] = EmptyData]
             /\ UNCHANGED <<mem, file>>

Fetch(o) == /\ file # Unreadable
            /\ image' = [image EXCEPT ![o] = file]
            /\ UNCHANGED <<mem, file>>

Open(o) == /\ image[o] # Locked
           /\ mem' = image[o]
           /\ image' = [image EXCEPT ![o] = Locked]
           /\ UNCHANGED file

Edit == /\ mem # Locked
        /\ \E ch \in Edits : Applicable(mem, ch) /\ mem' = Apply(mem, ch)
        /\ UNCHANGED <<file, image>>

Persist == /\ mem # Locked
           /\ file' = mem
           /\ UNCHANGED <<mem, image>>

Tear == /\ mem # Locked
        /\ file' = Unreadable
        /\ UNCHANGED <<mem, image>>

Lock == /\ mem' = Locked
        /\ UNCHANGED <<file, image>>

(* Of a process that ends only the file is left.                           *)
Exit == /\ mem' = Locked
        /\ image' = [o \in Openings |-> Locked]
        /\ UNCHANGED file

Next == \/ \E o \in Openings : Create(o) \/ Fetch(o) \/ Open(o)
        \/ Edit \/ Persist \/ Tear \/ Lock \/ Exit

Spec == Init /\ [][Next]_vars
=============================================================================
