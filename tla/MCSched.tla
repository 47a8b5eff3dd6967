------------------------------ MODULE MCSched -------------------------------
(* Two harts and three processes that contend for one sleep lock.          *)
EXTENDS Sched, TLC

CONSTANTS c1, c2
MCCPUs == {c1, c2}
Symmetry == Permutations(MCCPUs)
=============================================================================
