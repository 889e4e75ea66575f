------------------------------ MODULE MCRmTree ------------------------------
(* Small instances of RmTree for TLC. *)
EXTENDS RmTree, TLC

\* a box with one directory, a file in it and one beside it; the command that
\* still runs may add a directory
CONSTANTS p1, p2, p3, box, upper, dir, f, g

MCDirs   == {box, upper, dir}
MCNodes  == MCDirs \cup {f, g}
MCParent == (upper :> box) @@ (dir :> upper) @@ (f :> upper) @@ (g :> box)
=============================================================================
