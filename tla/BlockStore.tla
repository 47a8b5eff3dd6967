------------------------------ MODULE BlockStore ------------------------------
(***************************************************************************)
(* What the buffer cache promises its callers (the comment at the top of   *)
(* kernel/bio.c): a block has one contents, one process at a time uses it, *)
(* and only that process changes it.                                       *)
(***************************************************************************)
CONSTANTS Procs, Blocks, Values, Nobody

VARIABLES content, owner

Init == /\ content \in [Blocks -> Values]
        /\ owner = [k \in Blocks |-> Nobody]

Get(k) == owner[k] = Nobody /\ owner'[k] \in Procs /\ content'[k] = content[k]
Change(k) == owner[k] \in Procs /\ owner'[k] = owner[k] /\ content'[k] \in Values
Release(k) == owner'[k] = Nobody /\ content'[k] = content[k]

Next == \E k \in Blocks :
          /\ Get(k) \/ Change(k) \/ Release(k)
          /\ \A j \in Blocks \ {k} : content'[j] = content[j] /\ owner'[j] = owner[j]

Spec == Init /\ [][Next]_<<content, owner>>
=============================================================================
