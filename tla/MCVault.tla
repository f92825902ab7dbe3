------------------------------- MODULE MCVault -------------------------------
(* The vault and its screen on a small instance: forms and documents.      *)
EXTENDS VaultScreen, TLC

(* A connection in a folder, which the dialog goes on showing even after   *)
(* the folder was deleted.                                                 *)
MCForms == [endpoint: Endpoints, folder: FolderIds, jump: {NoJump}]

(* One folder with one connection in it. *)
MCImports ==
    {[ids |-> {f, c},
      changes |-> <<[op |-> "add_folder", folder |-> f, parent |-> Root],
                    [op |-> "import_connections",
                     batch |-> <<[id |-> c,
                                  rec |-> [endpoint |-> e, folder |-> f, jump |-> NoJump]]>>]>>] :
        f \in FolderIds, c \in ConnIds, e \in Endpoints}

Symmetry == Permutations(Workers) \cup Permutations(ConnIds) \cup Permutations(Salts)
=============================================================================
