------------------------------- MODULE MCProc -------------------------------
(* Slots for init, a shell, its child and its grandchild, and a reuse of one. *)
EXTENDS Proc

ZeroPid == {0}
ShellPid == {2}
=============================================================================
