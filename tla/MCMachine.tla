------------------------------- MODULE MCMachine -------------------------------
(***************************************************************************)
(* What runs close to the machine: spin locks, traps and context switches, *)
(* console input and console output. These models share no state, so       *)
(* their product is not explored: in a behaviour one moves and the others  *)
(* stay as they are. Two actors serve all of them, as harts, readers or    *)
(* writers, and so one symmetry is enough.                                 *)
(***************************************************************************)
EXTENDS SpinLock, Traps, Console, Uart, TLC

MCLocks == {1, 2}

VARIABLE part          \* the model that moves

all == <<part, vars, trapvars, consvars, uartvars>>

MCInit == /\ part \in {"locks", "traps", "input", "output"}
          /\ Init /\ TrapsInit /\ ConsInit /\ UartInit
MCNext ==
  \/ part = "locks" /\ Next /\ UNCHANGED <<part, trapvars, consvars, uartvars>>
  \/ part = "traps" /\ TrapsNext /\ UNCHANGED <<part, vars, consvars, uartvars>>
  \/ part = "input" /\ ConsNext /\ UNCHANGED <<part, vars, trapvars, uartvars>>
  \/ part = "output" /\ UartNext /\ UNCHANGED <<part, vars, trapvars, consvars>>
MCSpec == MCInit /\ [][MCNext]_all

Symmetry == Permutations(CPUs) \cup Permutations(Users)
=============================================================================
