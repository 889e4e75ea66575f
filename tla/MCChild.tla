------------------------------ MODULE MCChild ------------------------------
(* Small instances of Child for TLC. *)
EXTENDS Child

\* hosts that refuse at most two kinds of call
AnyTwo == {{}} \cup {{c, d} : c, d \in Calls}

\* a new box, one whose /etc is the host's, one changed in several ways
Left(points, file) == [links |-> points, resolv |-> file]
ThreeBoxes == {NewBox, Left({"/etc"}, "host's"),
               Left({"/proc", "/dev", "/run"}, "absolute link")}

OnlyNew == {NewBox}

OnlyUnlink == {{}, {"unlink"}}
=============================================================================
