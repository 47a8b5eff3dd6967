----------------------------- MODULE AtomicDisk -----------------------------
(***************************************************************************)
(* What kernel/log.c promises to the file system: operations bracketed by  *)
(* begin_op() and end_op() write blocks in memory, and from time to time,  *)
(* when no operation is in progress, everything written so far becomes     *)
(* durable in one step.  A crash falls back to the last durable state.     *)
(***************************************************************************)
CONSTANTS Procs, Blocks, Values

VARIABLES durable,  \* what the disk will hold after the next recovery
          mem,      \* what the file system reads
          active    \* the processes between begin_op() and end_op()

vars == <<durable, mem, active>>

Init == /\ durable \in [Blocks -> Values]
        /\ mem = durable
        /\ active = {}

Begin(p) == /\ p \notin active
            /\ active' = active \cup {p}
            /\ UNCHANGED <<durable, mem>>

Write(p, b, v) == /\ p \in active
                  /\ mem' = [mem EXCEPT ![b] = v]
                  /\ UNCHANGED <<durable, active>>

End(p) == /\ p \in active
          /\ active' = active \ {p}
          /\ UNCHANGED <<durable, mem>>

Commit == /\ active = {}
          /\ durable' = mem
          /\ UNCHANGED <<mem, active>>

Crash == /\ mem' = durable
         /\ active' = {}
         /\ UNCHANGED durable

Next == \/ \E p \in Procs : Begin(p) \/ End(p)
        \/ \E p \in Procs, b \in Blocks, v \in Values : Write(p, b, v)
        \/ Commit
        \/ Crash

Spec == Init /\ [][Next]_vars
=============================================================================
