------------------------------- MODULE MCImport -------------------------------
(* Documents with folders in folders, folders of the same name, defaults,  *)
(* duplicates, an element below a connection, and one that is no document. *)
EXTENDS Import

Element(type, name) ==
    [type |-> type, name |-> name, protocol |-> Null, host |-> "h", port |-> Null,
     username |-> "", password |-> Null, description |-> "d"]

Leaf == Element("Connection", "a")
Twin == [Leaf EXCEPT !.protocol = "RDP", !.port = Garbage]
Odd == [Element(Null, Null) EXCEPT !.port = 99999, !.protocol = "ICA", !.username = "u"]
Dir(name) == Element("Container", name)

(* A document, written as nodes and the numbers of those they are in.      *)
Doc(elements, parents) ==
    [wellFormed |-> TRUE, nodes |-> [i \in DOMAIN elements |->
         [attribute \in DOMAIN elements[i] \cup {"parent"} |->
              IF attribute = "parent" THEN parents[i] ELSE elements[i][attribute]]]]

MCDocuments == {
    Doc(<<Dir("f"), Dir("f"), Leaf, Odd, Dir("x"), Leaf, Twin>>, <<0, 1, 2, 1, 4, 5, 0>>),
    Doc(<<Leaf, Dir("g"), Dir("h"), [Odd EXCEPT !.port = 3389], Dir("x"), Leaf>>,
        <<0, 0, 2, 2, 4, 5>>),
    [wellFormed |-> FALSE, nodes |-> <<>>]}

MCForms == {[ToConnection(Leaf, 0, Null) EXCEPT !.tags = <<"t", "u">>, !.notes = Null]}
MCTexts == {"", "Unnamed", "a", "h", "d", "u", "f", "g", "x", "t"}
MCUuids == 0..MaxIds
=============================================================================
