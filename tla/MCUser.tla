-------------------------------- MODULE MCUser --------------------------------
(***************************************************************************)
(* What the kernel gives to user programs: the descriptors and pipes on    *)
(* which several programs work together, and their memory. Two models that *)
(* share no state; in a behaviour one of them moves. The shell runs        *)
(* command lines that use every form of command, and its parser every text *)
(* of up to four tokens; two processes have two-level page tables.         *)
(***************************************************************************)
EXTENDS Programs, Memory

MCLines == {<<"text", "|", "xargs">>,
            <<"one", "|", "cat", "|", "cat">>,
            <<"(", "one", ";", "two", ">", "f", ")", "|", "cat">>,
            <<"one", "&", ";", "cat", "<", "f", "|", "two">>,
            <<"one", "|", "|">>, <<"(", "one">>}
MCTexts == UNION {[1..n -> {"a", "|", ";", "&", "(", ")", "<", ">"}] : n \in 0..4}

MCDeltas == {-9, -1, 2}

VARIABLE part
both == <<part, progvars, memvars>>
RunPrograms == part = "programs" /\ ProgNext /\ UNCHANGED <<part, memvars>>
MCInit == /\ part \in {"programs", "memory"} /\ ProgInit /\ MemInit
          /\ part = "memory" => prog = <<"parse", << >>>>
MCNext == RunPrograms \/ (part = "memory" /\ MemNext /\ UNCHANGED <<part, progvars>>)
MCSpec == MCInit /\ [][MCNext]_both /\ WF_both(RunPrograms)
=============================================================================
