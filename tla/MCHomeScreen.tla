---------------------------- MODULE MCHomeScreen -----------------------------
(* HomeScreen on a small instance: an import document with a folder and a  *)
(* connection in it.                                                       *)
EXTENDS HomeScreen

MCImports ==
    {[ids |-> {f, c},
      changes |-> <<[op |-> "add_folder", folder |-> f, parent |-> Root],
                    [op |-> "import_connections",
                     batch |-> <<[id |-> c, rec |-> [endpoint |-> e, folder |-> f,
                                                     jump |-> NoJump]]>>]>>] :
        f \in FolderIds, c \in ConnIds, e \in {CHOOSE e \in Endpoints : TRUE}}
=============================================================================
