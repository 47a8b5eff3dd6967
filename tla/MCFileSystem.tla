----------------------------- MODULE MCFileSystem -----------------------------
(***************************************************************************)
(* The inodes and directories of the file system, and the contents of its  *)
(* files: two models that share no state; in a behaviour one of them moves.*)
(* Names: one directory /a, names in it and beside it, and a process that  *)
(* may sit in it while the other removes it. Contents: an open file of     *)
(* each of two inodes.                                                     *)
(***************************************************************************)
EXTENDS Inode, FileData, TLC

CONSTANTS na, nb

Abs(e) == [abs |-> TRUE, elems |-> e]
Rel(e) == [abs |-> FALSE, elems |-> e]
K(o, f) == [op |-> o, from |-> f, to |-> NoPath]
MCCalls == {K("mkdir", Abs(<<na>>)), K("unlink", Abs(<<na>>)),
            K("chdir", Abs(<<na>>)), K("chdir", Abs(<<>>)),
            K("create", Rel(<<nb>>)), K("unlink", Rel(<<nb>>)),
            K("open", Abs(<<na, nb>>)), K("unlink", Abs(<<>>)),
            [op |-> "link", from |-> Rel(<<nb>>), to |-> Abs(<<na>>)]}

MCOpenFiles == {[id |-> "f", ip |-> 1], [id |-> "h", ip |-> 2]}
MCLens == {-1, 5}

VARIABLE part
MCInit == part \in {"names", "contents"} /\ Init /\ DataInit
MCNext == \/ part = "names" /\ Next /\ UNCHANGED <<part, datavars>>
          \/ part = "contents" /\ DataNext /\ UNCHANGED <<part, vars>>
MCSpec == MCInit /\ [][MCNext]_<<part, vars, datavars>>

Symmetry == Permutations(Procs)
=============================================================================
