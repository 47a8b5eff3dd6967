----------------------------- MODULE ProcProofs -----------------------------
(***************************************************************************)
(* Proofs about Proc, for any size of the process table, any number of     *)
(* pids and any arguments of kill().                                       *)
(***************************************************************************)
EXTENDS Proc, WellFoundedInduction, TLAPS

\* What the thread of a slot may be doing, by the state of the slot; init never
\* gets past the panic in exit().
Threads ==
  /\ \A s \in Slots :
       /\ state[s] \in {"UNUSED", "USED"} => pc[s] = "none"
       /\ state[s] = "ZOMBIE" <=> pc[s] = "sched" \/ (pc[s] = "none" /\ state[s] \notin {"UNUSED", "USED"})
       /\ state[s] = "SLEEPING" => pc[s] = "wait"
  /\ pc[initproc] \notin {"none", "zombie", "sched"}

\* Every slot in use has a pid of its own, which allocpid() has handed out; the
\* others have neither pid nor parent.
PidsInv ==
  /\ PidsUnique
  /\ \A s \in Slots : /\ pid[s] = 0 <=> state[s] = "UNUSED"
                      /\ state[s] = "UNUSED" => parent[s] = 0

\* The slot that fork() is setting up is nobody else's.
Forks ==
  \A p \in Slots :
    /\ pc[p] = "alloc" => np[p] \in Slots
    /\ pc[p] \in {"forkparent", "forkrun"} =>
         /\ np[p] \in Slots /\ state[np[p]] = "USED"
         /\ \A q \in Slots : pc[q] \in {"forkparent", "forkrun"} /\ np[q] = np[p] => q = p
    /\ pc[p] = "forkparent" => parent[np[p]] = 0
    /\ pc[p] = "forkrun" => parent[np[p]] = p

\* A parent has not given its children away yet, and who runs has one.
Parents ==
  /\ \A s \in Slots : parent[s] # 0 => pc[parent[s]] \notin {"none", "zombie", "sched"}
  /\ \A s \in Slots \ {initproc} : state[s] \notin {"UNUSED", "USED"} => parent[s] # 0

\* wait_lock is held across a step in two places.
LockInv == \A p \in Slots : pc[p] \in {"waitsleep", "zombie"} <=> waitLock = p

\* Who sleeps in wait(), or is about to, has children and no zombie among them;
\* the parent of a process about to become one is awake.
Sleepers ==
  \A p \in Slots :
    /\ state[p] = "SLEEPING" \/ pc[p] = "waitsleep" =>
         /\ \E s \in Slots : parent[s] = p
         /\ \A s \in Slots : parent[s] = p => state[s] # "ZOMBIE"
    /\ pc[p] = "zombie" => state[parent[p]] # "SLEEPING"

\* What wait() has returned, and what it will.
Reports ==
  /\ \A w \in waited : w[2] # 0 /\ w[2] < nextpid
  /\ WaitReportsExit
  /\ \A s \in Slots : state[s] = "ZOMBIE" => <<pid[s], xstate[s]>> \in exited
  /\ \A s \in Slots : s # initproc /\ pc[s] \in {"exit", "zombie"} => <<pid[s], status[s]>> \in exited

IInv == TypeOK /\ Threads /\ PidsInv /\ Forks /\ Parents /\ LockInv /\ Sleepers /\ Reports

\* What is killed was meant, free slots included.
KInv == \A s \in Slots : killed[s] => pid[s] \in wanted

-----------------------------------------------------------------------------
(* Consequences of the definitions.                                        *)

\* The loops over the table find the first slot there is.
LEMMA MinFacts ==
  ASSUME NEW S \in SUBSET Nat, S # {}
  PROVE  Min(S) \in S
<1> DEFINE R == OpToRel(<, Nat)
<1>1. IsWellFoundedOn(R, Nat)
  BY Zenon, NatLessThanWellFounded
<1>2. \A x, y \in Nat : <<x, y>> \in R <=> x < y
  BY Zenon DEF OpToRel
<1> HIDE DEF R
<1>3. PICK x \in S : \A y \in S : <<y, x>> \notin R
  BY Zenon, <1>1, WFMin
<1>4. ASSUME NEW y \in S PROVE x <= y
  <2>1. x \in Nat /\ y \in Nat /\ ~(y < x)
    BY Zenon, <1>2, <1>3
  <2> QED
    BY <2>1
<1> QED
  BY Zenon, <1>4 DEF Min

\* The table has a slot for init, and 0 is not a slot.
LEMMA SlotFacts ==
  initproc \in Slots /\ 0 \notin Slots /\ Slots \subseteq Nat /\ Slots \subseteq 0..NPROC
  BY ProcAssumption DEF Slots, initproc

\* A thread that is not on its way out, and not in wait(), belongs to a process
\* that can run.
LEMMA Running ==
  ASSUME IInv, NEW p \in Slots, pc[p] \notin {"none", "sched", "wait"}
  PROVE  state[p] = "RUNNABLE"
<1>1. state[p] \in States
  BY Zenon DEF IInv, TypeOK
<1> QED
  BY Zenon, <1>1 DEF IInv, Threads, States

\* A step that moves no child, lets nobody fall asleep and makes no zombie.
LEMMA SleepersFrame ==
  ASSUME IInv, parent' = parent,
         \A s \in Slots : /\ state'[s] = "SLEEPING" => state[s] = "SLEEPING"
                          /\ state'[s] = "ZOMBIE" => state[s] = "ZOMBIE"
                          /\ pc'[s] \in {"waitsleep", "zombie"} => pc'[s] = pc[s]
  PROVE  Sleepers'
<1> SUFFICES ASSUME NEW p \in Slots
             PROVE  /\ state'[p] = "SLEEPING" \/ pc'[p] = "waitsleep" =>
                         /\ \E s \in Slots : parent[s] = p
                         /\ \A s \in Slots : parent[s] = p => state'[s] # "ZOMBIE"
                    /\ pc'[p] = "zombie" => state'[parent[p]] # "SLEEPING"
  BY DEF Sleepers
<1>1. state'[p] = "SLEEPING" \/ pc'[p] = "waitsleep" =>
        /\ \E s \in Slots : parent[s] = p
        /\ \A s \in Slots : parent[s] = p => state'[s] # "ZOMBIE"
  BY Zenon DEF IInv, Sleepers
<1>2. ASSUME pc[p] = "zombie" PROVE parent[p] \in Slots
  <2>1. state[p] = "RUNNABLE" /\ p # initproc
    BY Zenon, <1>2, Running DEF IInv, Threads
  <2>2. parent[p] # 0
    BY Zenon, <2>1 DEF IInv, Parents
  <2> QED
    BY <2>2 DEF IInv, TypeOK, Slots
<1>3. pc'[p] = "zombie" => state'[parent[p]] # "SLEEPING"
  BY Zenon, <1>2 DEF IInv, Sleepers
<1> QED
  BY Zenon, <1>1, <1>3

\* A step that starts no fork() and leaves the slots that are being set up alone.
LEMMA ForksFrame ==
  ASSUME IInv,
         \A q \in Slots : pc'[q] \in {"alloc", "forkparent", "forkrun"} =>
           pc'[q] = pc[q] /\ np'[q] = np[q],
         \A s \in Slots :
           state[s] = "USED" /\ (\E q \in Slots : pc'[q] \in {"forkparent", "forkrun"} /\ np[q] = s) =>
             state'[s] = "USED" /\ parent'[s] = parent[s]
  PROVE  Forks'
<1>1. ASSUME NEW p \in Slots, pc'[p] \in {"forkparent", "forkrun"}
      PROVE  /\ pc'[p] = pc[p] /\ np'[p] = np[p] /\ np[p] \in Slots
             /\ state'[np[p]] = "USED" /\ parent'[np[p]] = parent[np[p]]
  <2>1. pc'[p] = pc[p] /\ np'[p] = np[p]
    BY Zenon, <1>1
  <2>2. np[p] \in Slots /\ state[np[p]] = "USED"
    BY Zenon, <1>1, <2>1 DEF IInv, Forks
  <2> QED
    BY Zenon, <1>1, <2>1, <2>2
<1>2. ASSUME NEW p \in Slots, pc'[p] \in {"forkparent", "forkrun"},
             NEW q \in Slots, pc'[q] \in {"forkparent", "forkrun"}, np'[q] = np'[p]
      PROVE  q = p
  BY <1>1, <1>2 DEF IInv, Forks
<1>3. \A p \in Slots : pc'[p] = "alloc" => np'[p] \in Slots
  BY Zenon DEF IInv, Forks
<1>4. \A p \in Slots : /\ pc'[p] = "forkparent" => parent'[np'[p]] = 0
                       /\ pc'[p] = "forkrun" => parent'[np'[p]] = p
  BY <1>1 DEF IInv, Forks
<1> QED
  BY <1>1, <1>2, <1>3, <1>4 DEF Forks

\* A step of p that leaves the table, wait_lock and what wait() has returned as
\* they are.
LEMMA MoveKeeps ==
  ASSUME IInv, TypeOK', NEW p \in Slots, state[p] = "RUNNABLE",
         UNCHANGED <<state, pid, parent, xstate, waitLock, waited>>,
         nextpid' \in {nextpid, nextpid + 1}, exited \subseteq exited',
         \A q \in Slots : q # p => pc'[q] = pc[q] /\ np'[q] = np[q] /\ status'[q] = status[q],
         pc[p] \in {"user", "alloc", "wait", "exit"},
         pc'[p] \in {"user", "alloc", "wait", "exit"},
         pc'[p] = "alloc" => np'[p] \in Slots,
         pc'[p] = "exit" /\ p # initproc => <<pid[p], status'[p]>> \in exited'
  PROVE  IInv'
<1>1. Threads'
  <2>1. initproc \in Slots
    BY Zenon, SlotFacts
  <2>2. pc'[initproc] \notin {"none", "zombie", "sched"}
    BY Zenon, <2>1 DEF IInv, Threads
  <2>3. ASSUME NEW s \in Slots
        PROVE  /\ state[s] \in {"UNUSED", "USED"} => pc'[s] = "none"
               /\ state[s] = "ZOMBIE" <=> pc'[s] = "sched" \/ (pc'[s] = "none" /\ state[s] \notin {"UNUSED", "USED"})
               /\ state[s] = "SLEEPING" => pc'[s] = "wait"
    <3>1. CASE s = p
      BY Zenon, <3>1
    <3>2. CASE s # p
      BY Zenon, <3>2 DEF IInv, Threads
    <3> QED
      BY Zenon, <3>1, <3>2
  <2> QED
    BY Zenon, <2>2, <2>3 DEF Threads
<1>2. PidsInv'
  <2>1. nextpid \in Nat /\ \A s \in Slots : pid[s] \in Nat
    BY ProcAssumption DEF IInv, TypeOK, Pids
  <2> QED
    BY <2>1 DEF IInv, PidsInv, PidsUnique
<1>3. Forks'
  BY DEF IInv, Forks
<1>4. Parents'
  <2>1. ASSUME NEW s \in Slots, parent[s] # 0
        PROVE  pc'[parent[s]] \notin {"none", "zombie", "sched"}
    <3>1. parent[s] \in Slots
      BY <2>1 DEF IInv, TypeOK, Slots
    <3> QED
      BY Zenon, <2>1, <3>1 DEF IInv, Parents
  <2> QED
    BY Zenon, <2>1 DEF IInv, Parents
<1>5. LockInv'
  BY Zenon DEF IInv, LockInv
<1>6. Sleepers'
  BY DEF IInv, Sleepers
<1>7. Reports'
  <2>1. \A w \in waited : w[2] # 0 /\ w[2] < nextpid'
    <3>1. nextpid \in Nat /\ \A w \in waited : w[2] \in Nat
      BY ProcAssumption DEF IInv, TypeOK, Pids
    <3> QED
      BY <3>1 DEF IInv, Reports
  <2>2. WaitReportsExit'
    BY Zenon DEF IInv, Reports, WaitReportsExit
  <2> QED
    BY Zenon, <2>1, <2>2 DEF IInv, Reports
<1> QED
  BY Zenon, <1>1, <1>2, <1>3, <1>4, <1>5, <1>6, <1>7 DEF IInv

-----------------------------------------------------------------------------
(* Where a system call starts, and the steps that change little.           *)

\* The invariant holds after userinit().
LEMMA InitInv == Init => IInv
<1> SUFFICES ASSUME Init PROVE IInv
  BY Zenon
<1>1. /\ NPROC \in Nat \ {0} /\ MaxPid \in Nat \ {0} /\ 2 \in 1..(MaxPid + 1) /\ 0 \in 0..NPROC
      /\ 0 \in Pids /\ 1 \in Pids /\ 0 \in Statuses /\ initproc \in Slots /\ 0 \notin Slots
  BY ProcAssumption DEF Pids, Statuses, initproc, Slots
<1>2. TypeOK
  BY Zenon, <1>1 DEF Init, TypeOK, States, PCs
<1>3. Threads
  BY Zenon, <1>1 DEF Init, Threads
<1>4. PidsInv
  BY <1>1 DEF Init, PidsInv, PidsUnique
<1>5. Forks /\ Parents /\ LockInv /\ Sleepers
  BY Zenon, <1>1 DEF Init, Forks, Parents, LockInv, Sleepers
<1>6. Reports
  BY Zenon, <1>1 DEF Init, Reports, WaitReportsExit
<1> QED
  BY Zenon, <1>2, <1>3, <1>4, <1>5, <1>6 DEF IInv

\* fork() and wait() are called.
LEMMA CallKeeps ==
  ASSUME IInv, NEW p \in Slots, CallFork(p) \/ CallWait(p)
  PROVE  IInv'
<1>1. /\ pc[p] = "user"
      /\ \/ pc' = [pc EXCEPT ![p] = "alloc"] /\ np' = [np EXCEPT ![p] = 1]
         \/ pc' = [pc EXCEPT ![p] = "wait"] /\ np' = np
      /\ UNCHANGED <<state, pid, parent, killed, xstate, nextpid, waitLock, status, shell, panicked,
                     wanted, exited, waited>>
  BY Zenon DEF CallFork, CallWait, Enter, Goto, table, user, history
<1>2. state[p] = "RUNNABLE"
  BY Zenon, <1>1, Running
<1>3. 1 \in Slots /\ 1 \in 0..NPROC
  BY ProcAssumption DEF Slots
<1>4. TypeOK'
  BY Zenon, <1>1, <1>3 DEF IInv, TypeOK, PCs
<1>5. \A q \in Slots : q # p => pc'[q] = pc[q] /\ np'[q] = np[q]
  BY Zenon, <1>1 DEF IInv, TypeOK
<1>6. pc'[p] \in {"alloc", "wait"} /\ (pc'[p] = "alloc" => np'[p] \in Slots)
  BY Zenon, <1>1, <1>3 DEF IInv, TypeOK
<1> QED
  BY Zenon, <1>1, <1>2, <1>4, <1>5, <1>6, MoveKeeps

\* allocproc() passes over a slot, or fork() fails at the end of the table.
LEMMA AllocSkipKeeps ==
  ASSUME IInv, NEW p \in Slots, AllocSkip(p)
  PROVE  IInv'
<1>1. /\ pc[p] = "alloc"
      /\ \/ np[p] < NPROC /\ np' = [np EXCEPT ![p] = np[p] + 1] /\ pc' = pc
         \/ np' = [np EXCEPT ![p] = 0] /\ pc' = [pc EXCEPT ![p] = "user"] /\ p # initproc
         \/ np' = [np EXCEPT ![p] = 0] /\ pc' = [pc EXCEPT ![p] = "exit"] /\ p = initproc
      /\ UNCHANGED <<state, pid, parent, killed, xstate, nextpid, waitLock, status, shell, panicked,
                     wanted, exited, waited>>
  BY Zenon DEF AllocSkip, More, Goto, table, user, history
<1>2. state[p] = "RUNNABLE"
  BY Zenon, <1>1, Running
<1>3. np[p] \in Slots /\ (np[p] < NPROC => np[p] + 1 \in Slots /\ np[p] + 1 \in 0..NPROC)
  BY <1>1, ProcAssumption DEF IInv, Forks, Slots
<1>4. TypeOK'
  BY <1>1, <1>3, ProcAssumption DEF IInv, TypeOK, PCs
<1>5. \A q \in Slots : q # p => pc'[q] = pc[q] /\ np'[q] = np[q]
  BY Zenon, <1>1 DEF IInv, TypeOK
<1>6. /\ pc'[p] \in {"alloc", "user", "exit"} /\ (pc'[p] = "alloc" => np'[p] \in Slots)
      /\ pc'[p] = "exit" => p = initproc
  BY Zenon, <1>1, <1>3 DEF IInv, TypeOK
<1> QED
  BY Zenon, <1>1, <1>2, <1>4, <1>5, <1>6, MoveKeeps

\* allocproc() runs out of memory.
LEMMA AllocFailKeeps ==
  ASSUME IInv, NEW p \in Slots, AllocFail(p)
  PROVE  IInv'
<1>1. /\ pc[p] = "alloc" /\ nextpid <= MaxPid /\ nextpid' = nextpid + 1
      /\ killed' = [killed EXCEPT ![np[p]] = FALSE]
      /\ np' = [np EXCEPT ![p] = 0]
      /\ pc' = [pc EXCEPT ![p] = IF p = initproc THEN "exit" ELSE "user"]
      /\ UNCHANGED <<state, pid, parent, xstate, waitLock, status, shell, panicked, wanted, exited, waited>>
  BY Zenon DEF AllocFail, Goto, user, history
<1>2. state[p] = "RUNNABLE"
  BY Zenon, <1>1, Running
<1>3. nextpid' \in 1..(MaxPid + 1) /\ 0 \in 0..NPROC
  BY <1>1, ProcAssumption DEF IInv, TypeOK
<1>4. TypeOK'
  BY Zenon, <1>1, <1>3 DEF IInv, TypeOK, PCs
<1>5. \A q \in Slots : q # p => pc'[q] = pc[q] /\ np'[q] = np[q]
  BY Zenon, <1>1 DEF IInv, TypeOK
<1>6. pc'[p] \in {"user", "exit"} /\ (pc'[p] = "exit" => p = initproc)
  BY Zenon, <1>1 DEF IInv, TypeOK
<1> QED
  BY Zenon, <1>1, <1>2, <1>4, <1>5, <1>6, MoveKeeps

\* wait() returns -1.
LEMMA WaitReturnKeeps ==
  ASSUME IInv, NEW p \in Slots, WaitFault(p) \/ WaitFail(p)
  PROVE  IInv'
<1>1. /\ pc[p] = "wait" /\ state[p] = "RUNNABLE"
      /\ \/ pc' = [pc EXCEPT ![p] = "user"]
         \/ pc' = [pc EXCEPT ![p] = "exit"] /\ p = initproc
      /\ UNCHANGED <<state, pid, parent, killed, xstate, nextpid, waitLock, np, status, shell, panicked,
                     wanted, exited, waited>>
  BY Zenon DEF WaitFault, WaitFail, Goto, table, user, history
<1>2. TypeOK'
  BY Zenon, <1>1 DEF IInv, TypeOK, PCs
<1>3. \A q \in Slots : q # p => pc'[q] = pc[q]
  BY Zenon, <1>1 DEF IInv, TypeOK
<1>4. pc'[p] \in {"user", "exit"} /\ (pc'[p] = "exit" => p = initproc)
  BY Zenon, <1>1 DEF IInv, TypeOK
<1> QED
  BY Zenon, <1>1, <1>2, <1>3, <1>4, MoveKeeps

\* exit() is called, and recorded.
LEMMA CallExitKeeps ==
  ASSUME IInv, NEW p \in Slots, CallExit(p)
  PROVE  IInv'
<1> DEFINE st == IF killed[p] THEN -1 ELSE 0
<1>1. /\ pc[p] = "user" /\ pc' = [pc EXCEPT ![p] = "exit"]
      /\ status' = [status EXCEPT ![p] = st]
      /\ exited' = exited \cup {<<pid[p], status'[p]>>}
      /\ UNCHANGED <<state, pid, parent, killed, xstate, nextpid, waitLock, np, shell, panicked, wanted, waited>>
  BY Zenon DEF CallExit, Goto, table
<1>2. state[p] = "RUNNABLE"
  BY Zenon, <1>1, Running
<1>3. st \in Statuses
  BY Zenon DEF Statuses
<1> HIDE DEF st
<1>4. /\ status' \in [Slots -> Statuses] /\ pc' \in [Slots -> PCs] /\ pc'[p] = "exit"
      /\ \A q \in Slots : q # p => pc'[q] = pc[q] /\ status'[q] = status[q]
  BY Zenon, <1>1, <1>3 DEF IInv, TypeOK, PCs
<1>5. exited' \subseteq Pids \X Statuses
  <2>1. <<pid[p], status'[p]>> \in Pids \X Statuses
    BY Zenon, <1>4 DEF IInv, TypeOK
  <2> QED
    BY Zenon, <2>1, <1>1 DEF IInv, TypeOK
<1>6. TypeOK'
  BY Zenon, <1>1, <1>4, <1>5 DEF IInv, TypeOK
<1>7. <<pid[p], status'[p]>> \in exited' /\ exited \subseteq exited'
  BY <1>1
<1> QED
  BY Zenon, <1>1, <1>2, <1>4, <1>6, <1>7, MoveKeeps

\* panic("init exiting") changes nothing but panicked.
LEMMA StutterKeeps ==
  ASSUME IInv, UNCHANGED vars \/ \E p \in Slots : ExitPanic(p)
  PROVE  IInv'
<1>1. /\ UNCHANGED <<state, pid, parent, killed, xstate, nextpid, waitLock, pc, np, status, shell,
                     wanted, exited, waited>>
      /\ panicked' \in {panicked, TRUE}
  BY Zenon DEF vars, ExitPanic, table, user, history
<1>2. TypeOK'
  BY Zenon, <1>1 DEF IInv, TypeOK
<1>3. Threads' /\ PidsInv' /\ Forks'
  BY <1>1 DEF IInv, Threads, PidsInv, PidsUnique, Forks
<1>4. Parents' /\ LockInv' /\ Sleepers' /\ Reports'
  BY <1>1 DEF IInv, Parents, LockInv, Sleepers, Reports, WaitReportsExit
<1> QED
  BY Zenon, <1>2, <1>3, <1>4 DEF IInv

-----------------------------------------------------------------------------
(* fork()                                                                  *)

\* allocproc() hands out a fresh pid and a slot that nobody else has.
LEMMA AllocFoundKeeps ==
  ASSUME IInv, NEW p \in Slots, AllocFound(p)
  PROVE  IInv'
<1> DEFINE k == np[p]
<1>1. /\ pc[p] = "alloc" /\ state[k] = "UNUSED" /\ nextpid <= MaxPid
      /\ pid' = [pid EXCEPT ![k] = nextpid] /\ nextpid' = nextpid + 1
      /\ state' = [state EXCEPT ![k] = "USED"] /\ pc' = [pc EXCEPT ![p] = "forkparent"]
      /\ UNCHANGED <<parent, killed, xstate, waitLock, np, status, shell, panicked, wanted, exited, waited>>
  BY Zenon DEF AllocFound, NextPid, Goto, user, history
<1>2. k \in Slots /\ state[p] = "RUNNABLE"
  BY Zenon, <1>1, Running DEF IInv, Forks
<1>3. nextpid \in Nat /\ nextpid \in Pids /\ nextpid # 0 /\ nextpid' \in 1..(MaxPid + 1)
  BY <1>1, ProcAssumption DEF IInv, TypeOK, Pids
<1>4. TypeOK'
  BY Zenon, <1>1, <1>2, <1>3 DEF IInv, TypeOK, States, PCs
<1>5. /\ pid'[k] = nextpid /\ state'[k] = "USED" /\ pc'[p] = "forkparent" /\ pc[k] = "none" /\ parent[k] = 0
      /\ \A s \in Slots : s # k => pid'[s] = pid[s] /\ state'[s] = state[s]
      /\ \A s \in Slots : s # p => pc'[s] = pc[s]
  BY Zenon, <1>1, <1>2 DEF IInv, TypeOK, Threads, PidsInv
<1> HIDE DEF k
<1>6. k # p
  BY Zenon, <1>1, <1>5
<1>7. Threads'
  BY <1>1, <1>2, <1>5, <1>6, SlotFacts DEF IInv, Threads
<1>8. PidsInv'
  <2>1. \A s \in Slots : pid[s] \in Nat /\ pid[s] < nextpid
    BY ProcAssumption DEF IInv, TypeOK, Pids, PidsInv, PidsUnique
  <2>2. \A s \in Slots : pid'[s] < nextpid'
    BY <2>1, <1>1, <1>3, <1>5
  <2>3. \A s, t \in Slots : pid'[s] = pid'[t] /\ pid'[s] # 0 => s = t
    BY <2>1, <1>3, <1>5 DEF IInv, PidsInv, PidsUnique
  <2> QED
    BY <2>2, <2>3, <1>1, <1>3, <1>5 DEF IInv, PidsInv, PidsUnique
<1>9. Forks'
  <2>1. \A q \in Slots : pc[q] \in {"forkparent", "forkrun"} => np[q] # k
    BY Zenon, <1>1 DEF IInv, Forks, k
  <2>2. np[p] = k
    BY Zenon DEF k
  <2> QED
    BY <2>1, <2>2, <1>1, <1>2, <1>5 DEF IInv, Forks
<1>10. Parents'
  BY <1>1, <1>2, <1>5 DEF IInv, Parents, TypeOK, Slots
<1>11. LockInv'
  BY Zenon, <1>1, <1>2, <1>5 DEF IInv, LockInv
<1>12. Sleepers'
  <2>1. \A s \in Slots : (state'[s] = "SLEEPING" <=> state[s] = "SLEEPING") /\ (state'[s] = "ZOMBIE" <=> state[s] = "ZOMBIE")
    BY Zenon, <1>1, <1>2, <1>5 DEF k
  <2>2. \A s \in Slots : pc'[s] \in {"waitsleep", "zombie"} => pc'[s] = pc[s]
    BY Zenon, <1>5
  <2> QED
    BY Zenon, <1>1, <2>1, <2>2, SleepersFrame
<1>13. Reports'
  <2>1. \A w \in waited : w[2] \in Nat
    BY ProcAssumption DEF IInv, TypeOK, Pids
  <2>2. \A w \in waited : w[2] # 0 /\ w[2] < nextpid' /\ w[2] # nextpid
    BY <2>1, <1>1, <1>3 DEF IInv, Reports
  <2>3. \A w \in waited, s \in Slots : pid'[s] # w[2]
    <3>1. \A w \in waited, s \in Slots : pid[s] # w[2]
      BY Zenon DEF IInv, Reports, WaitReportsExit
    <3> QED
      BY <2>2, <3>1, <1>5
  <2>4. WaitReportsExit'
    BY Zenon, <2>3, <1>1 DEF IInv, Reports, WaitReportsExit
  <2> QED
    BY SMTT(60), <2>2, <2>4, <1>1, <1>5 DEF IInv, Reports
<1> QED
  BY Zenon, <1>4, <1>7, <1>8, <1>9, <1>10, <1>11, <1>12, <1>13 DEF IInv

\* fork() gives the new slot its parent, under wait_lock.
LEMMA ForkParentKeeps ==
  ASSUME IInv, NEW p \in Slots, ForkParent(p)
  PROVE  IInv'
<1> DEFINE k == np[p]
<1>1. /\ pc[p] = "forkparent" /\ waitLock = 0
      /\ parent' = [parent EXCEPT ![k] = p] /\ pc' = [pc EXCEPT ![p] = "forkrun"]
      /\ UNCHANGED <<state, pid, killed, xstate, nextpid, waitLock, np, status, shell, panicked, wanted,
                     exited, waited>>
  BY Zenon DEF ForkParent, Goto, user, history
<1>2. k \in Slots /\ state[k] = "USED" /\ parent[k] = 0 /\ pc[k] = "none" /\ state[p] = "RUNNABLE"
  BY Zenon, <1>1, Running DEF IInv, Forks, Threads
<1>3. TypeOK'
  BY Zenon, <1>1, <1>2, SlotFacts DEF IInv, TypeOK, PCs
<1>4. /\ parent'[k] = p /\ pc'[p] = "forkrun"
      /\ \A s \in Slots : s # k => parent'[s] = parent[s]
      /\ \A s \in Slots : s # p => pc'[s] = pc[s]
  BY Zenon, <1>1, <1>2 DEF IInv, TypeOK
<1>5. \A q \in Slots : q # p /\ pc[q] \in {"forkparent", "forkrun"} => np[q] # k
  BY Zenon, <1>1 DEF IInv, Forks, k
<1>6. np[p] = k
  BY Zenon
<1> HIDE DEF k
<1>7. Threads' /\ PidsInv'
  BY <1>1, <1>2, <1>4, SlotFacts DEF IInv, Threads, PidsInv, PidsUnique
<1>8. Forks'
  BY <1>1, <1>2, <1>4, <1>5, <1>6 DEF IInv, Forks
<1>9. Parents'
  BY <1>1, <1>2, <1>4, SlotFacts DEF IInv, Parents, TypeOK, Slots
<1>10. LockInv'
  BY Zenon, <1>1, <1>4 DEF IInv, LockInv
<1>11. Sleepers'
  BY <1>1, <1>2, <1>4, SlotFacts DEF IInv, Sleepers
<1>12. Reports'
  BY Zenon, <1>1, <1>4 DEF IInv, Reports, WaitReportsExit
<1> QED
  BY Zenon, <1>3, <1>7, <1>8, <1>9, <1>10, <1>11, <1>12 DEF IInv

\* fork() starts the child, whose parent is in fork() and so alive.
LEMMA ForkRunKeeps ==
  ASSUME IInv, NEW p \in Slots, ForkRun(p)
  PROVE  IInv'
<1> DEFINE k == np[p]
<1>1. /\ pc[p] = "forkrun"
      /\ state' = [state EXCEPT ![k] = "RUNNABLE"]
      /\ pc' = [pc EXCEPT ![p] = "user", ![k] = "user"]
      /\ shell' = IF p = initproc THEN pid[k] ELSE shell
      /\ np' = [np EXCEPT ![p] = 0]
      /\ UNCHANGED <<pid, parent, killed, xstate, nextpid, waitLock, status, panicked, wanted, exited, waited>>
  BY Zenon DEF ForkRun, history
<1>2. k \in Slots /\ state[k] = "USED" /\ parent[k] = p /\ pc[k] = "none" /\ state[p] = "RUNNABLE"
  BY Zenon, <1>1, Running DEF IInv, Forks, Threads
<1>3. TypeOK'
  <2>1. shell' \in Pids /\ 0 \in 0..NPROC
    BY <1>1, <1>2, ProcAssumption DEF IInv, TypeOK
  <2> QED
    BY Zenon, <2>1, <1>1, <1>2 DEF IInv, TypeOK, PCs, States
<1>4. /\ state'[k] = "RUNNABLE" /\ pc'[k] = "user" /\ pc'[p] = "user"
      /\ \A s \in Slots : s # k => state'[s] = state[s]
      /\ \A s \in Slots : s # p => np'[s] = np[s]
      /\ \A s \in Slots : s \notin {p, k} => pc'[s] = pc[s]
  BY Zenon, <1>1, <1>2 DEF IInv, TypeOK
<1>5. \A q \in Slots : q # p /\ pc[q] \in {"forkparent", "forkrun"} => np[q] # k
  BY Zenon, <1>1 DEF IInv, Forks, k
<1> HIDE DEF k
<1>6. Threads'
  BY <1>2, <1>4, SlotFacts DEF IInv, Threads
<1>7. PidsInv'
  BY <1>1, <1>2, <1>4 DEF IInv, PidsInv, PidsUnique
<1>8. Forks'
  BY ZenonT(60), <1>1, <1>4, <1>5, ForksFrame
<1>9. Parents'
  BY SMTT(60), <1>1, <1>2, <1>4, SlotFacts DEF IInv, Parents, TypeOK, Slots
<1>10. LockInv'
  BY Zenon, <1>1, <1>2, <1>4 DEF IInv, LockInv
<1>11. Sleepers'
  <2>1. \A s \in Slots : /\ state'[s] = "SLEEPING" <=> state[s] = "SLEEPING"
                         /\ state'[s] = "ZOMBIE" <=> state[s] = "ZOMBIE"
    BY Zenon, <1>2, <1>4
  <2>2. \A s \in Slots : pc'[s] \in {"waitsleep", "zombie"} => pc'[s] = pc[s]
    BY Zenon, <1>4
  <2> QED
    BY Zenon, <1>1, <2>1, <2>2, SleepersFrame
<1>12. Reports'
  BY ZenonT(60), <1>1, <1>2, <1>4 DEF IInv, Reports, WaitReportsExit
<1> QED
  BY Zenon, <1>3, <1>6, <1>7, <1>8, <1>9, <1>10, <1>11, <1>12 DEF IInv

-----------------------------------------------------------------------------
(* wait()                                                                  *)

\* wait() frees a zombie: nobody is on its stack, nobody's parent is gone with it.
LEMMA WaitReapKeeps ==
  ASSUME IInv, NEW p \in Slots, WaitReap(p)
  PROVE  IInv'
<1> DEFINE z == Min(Zombies(p))
           w == <<pid[p], pid[z], xstate[z]>>
<1>1. /\ pc[p] = "wait" /\ state[p] = "RUNNABLE" /\ waitLock = 0 /\ pc[z] # "sched"
      /\ state' = [state EXCEPT ![z] = "UNUSED"] /\ pid' = [pid EXCEPT ![z] = 0]
      /\ parent' = [parent EXCEPT ![z] = 0] /\ killed' = [killed EXCEPT ![z] = FALSE]
      /\ xstate' = [xstate EXCEPT ![z] = 0] /\ waited' = waited \cup {w}
      /\ shell' \in {0, shell} /\ pc' = [pc EXCEPT ![p] = "user"]
      /\ UNCHANGED <<nextpid, waitLock, np, status, panicked, wanted, exited>>
  BY Zenon DEF WaitReap, LockFree, FreeProc, Goto
<1>2. z \in Zombies(p)
  <2>1. Zombies(p) \in SUBSET Nat /\ Zombies(p) # {}
    BY Zenon, SlotFacts DEF WaitReap, Zombies, Children
  <2> QED
    BY Zenon, <2>1, MinFacts
<1>3. z \in Slots /\ parent[z] = p /\ state[z] = "ZOMBIE"
  BY Zenon, <1>2 DEF Zombies, Children
<1> HIDE DEF z
<1>4. pc[z] = "none" /\ z # initproc /\ z # p
  BY Zenon, <1>1, <1>3 DEF IInv, Threads
<1>5. TypeOK'
  <2>1. 0 \in Pids /\ 0 \in Statuses /\ 0 \in 0..NPROC
    BY ProcAssumption DEF Pids, Statuses
  <2>2. w \in Pids \X Pids \X Statuses
    BY Zenon, <1>3 DEF IInv, TypeOK
  <2>3. waited' \subseteq Pids \X Pids \X Statuses
    BY Zenon, <1>1, <2>2 DEF IInv, TypeOK
  <2>4. state' \in [Slots -> States] /\ pc' \in [Slots -> PCs] /\ shell' \in Pids
    BY Zenon, <2>1, <1>1 DEF IInv, TypeOK, States, PCs
  <2>5. /\ pid' \in [Slots -> Pids] /\ parent' \in [Slots -> 0..NPROC]
        /\ killed' \in [Slots -> BOOLEAN] /\ xstate' \in [Slots -> Statuses]
    BY Zenon, <2>1, <1>1 DEF IInv, TypeOK
  <2> QED
    BY Zenon, <1>1, <2>3, <2>4, <2>5 DEF IInv, TypeOK
<1>6. /\ state'[z] = "UNUSED" /\ pid'[z] = 0 /\ parent'[z] = 0 /\ pc'[p] = "user"
      /\ \A s \in Slots : s # z => /\ state'[s] = state[s] /\ pid'[s] = pid[s]
                                   /\ parent'[s] = parent[s] /\ xstate'[s] = xstate[s]
      /\ \A s \in Slots : s # p => pc'[s] = pc[s]
  BY Zenon, <1>1, <1>3 DEF IInv, TypeOK
<1>7. pid[z] # 0 /\ pid[z] < nextpid /\ \A s \in Slots : s # z => pid[s] # pid[z]
  BY Zenon, <1>3 DEF IInv, PidsInv, PidsUnique
<1>8. Threads'
  BY <1>1, <1>4, <1>6, SlotFacts DEF IInv, Threads
<1>9. PidsInv'
  <2>1. nextpid > 0
    BY ProcAssumption DEF IInv, TypeOK
  <2> QED
    BY <2>1, <1>1, <1>6 DEF IInv, PidsInv, PidsUnique
<1>10. Forks'
  BY Zenon, <1>1, <1>3, <1>6, ForksFrame
<1>11. Parents'
  <2>1. ASSUME NEW s \in Slots, parent'[s] # 0
        PROVE  pc'[parent'[s]] \notin {"none", "zombie", "sched"}
    <3>1. parent'[s] = parent[s] /\ parent[s] # 0 /\ parent[s] \in Slots
      BY <2>1, <1>6 DEF IInv, TypeOK, Slots
    <3> QED
      BY Zenon, <3>1, <1>6 DEF IInv, Parents
  <2> QED
    BY <2>1, <1>6 DEF IInv, Parents
<1>12. LockInv'
  BY Zenon, <1>1, <1>6 DEF IInv, LockInv
<1>13. Sleepers'
  <2>1. \A q \in Slots : pc[q] \notin {"waitsleep", "zombie"}
    BY Zenon, <1>1, SlotFacts DEF IInv, LockInv
  <2>2. \A q \in Slots : pc'[q] \notin {"waitsleep", "zombie"}
    BY Zenon, <2>1, <1>6
  <2>3. ASSUME NEW q \in Slots, state'[q] = "SLEEPING"
        PROVE  /\ \E s \in Slots : parent'[s] = q
               /\ \A s \in Slots : parent'[s] = q => state'[s] # "ZOMBIE"
    <3>1. state[q] = "SLEEPING" /\ q # p /\ q # 0
      BY <2>3, <1>1, <1>6, SlotFacts
    <3>2. /\ \E s \in Slots : parent[s] = q
          /\ \A s \in Slots : parent[s] = q => state[s] # "ZOMBIE"
      BY Zenon, <3>1 DEF IInv, Sleepers
    <3> QED
      BY <3>1, <3>2, <1>3, <1>6
  <2> QED
    BY Zenon, <2>2, <2>3 DEF Sleepers
<1>14. Reports'
  <2>1. w[2] = pid[z] /\ w[3] = xstate[z]
    BY Zenon
  <2> HIDE DEF w
  <2>2. <<w[2], w[3]>> \in exited /\ w[2] # 0 /\ w[2] < nextpid /\ \A s \in Slots : pid'[s] # w[2]
    BY <2>1, <1>3, <1>6, <1>7 DEF IInv, Reports
  <2>3. ASSUME NEW v \in waited
        PROVE  /\ <<v[2], v[3]>> \in exited /\ v[2] # 0 /\ v[2] < nextpid /\ v[2] # w[2]
               /\ \A s \in Slots : pid'[s] # v[2]
               /\ \A u \in waited : u[2] = v[2] => u = v
    BY <2>1, <1>3, <1>6 DEF IInv, Reports, WaitReportsExit
  <2>4. WaitReportsExit'
    BY Zenon, <2>2, <2>3, <1>1 DEF WaitReportsExit
  <2>5. \A v \in waited' : v[2] # 0 /\ v[2] < nextpid'
    BY Zenon, <2>2, <2>3, <1>1
  <2> QED
    BY <2>4, <2>5, <1>1, <1>4, <1>6 DEF IInv, Reports
<1> QED
  BY Zenon, <1>5, <1>8, <1>9, <1>10, <1>11, <1>12, <1>13, <1>14 DEF IInv

\* wait() decides to sleep with wait_lock held.
LEMMA WaitScanKeeps ==
  ASSUME IInv, NEW p \in Slots, WaitScan(p)
  PROVE  IInv'
<1>1. /\ pc[p] = "wait" /\ state[p] = "RUNNABLE" /\ waitLock = 0 /\ waitLock' = p
      /\ pc' = [pc EXCEPT ![p] = "waitsleep"]
      /\ UNCHANGED <<state, pid, parent, killed, xstate, nextpid, np, status, shell, panicked, wanted,
                     exited, waited>>
  BY Zenon DEF WaitScan, Goto, table, user, history
<1>2. /\ \E s \in Slots : parent[s] = p
      /\ \A s \in Slots : parent[s] = p => state[s] # "ZOMBIE"
  BY Zenon DEF WaitScan, Zombies, Children
<1>3. TypeOK'
  BY Zenon, <1>1, SlotFacts DEF IInv, TypeOK, PCs
<1>4. pc'[p] = "waitsleep" /\ \A s \in Slots : s # p => pc'[s] = pc[s]
  BY Zenon, <1>1 DEF IInv, TypeOK
<1>5. Threads' /\ PidsInv'
  BY <1>1, <1>4, SlotFacts DEF IInv, Threads, PidsInv, PidsUnique
<1>6. Forks'
  BY Zenon, <1>1, <1>4, ForksFrame
<1>7. Parents'
  BY <1>1, <1>4 DEF IInv, Parents, TypeOK, Slots
<1>8. LockInv'
  BY Zenon, <1>1, <1>4, SlotFacts DEF IInv, LockInv
<1>9. Sleepers'
  BY <1>1, <1>2, <1>4 DEF IInv, Sleepers
<1>10. Reports'
  BY Zenon, <1>1, <1>4 DEF IInv, Reports, WaitReportsExit
<1> QED
  BY Zenon, <1>3, <1>5, <1>6, <1>7, <1>8, <1>9, <1>10 DEF IInv

\* Between the scan and sleep() no child can have become a zombie.
LEMMA WaitSleepKeeps ==
  ASSUME IInv, NEW p \in Slots, WaitSleep(p)
  PROVE  IInv'
<1>1. /\ pc[p] = "waitsleep" /\ waitLock' = 0
      /\ state' = [state EXCEPT ![p] = "SLEEPING"] /\ pc' = [pc EXCEPT ![p] = "wait"]
      /\ UNCHANGED <<pid, parent, killed, xstate, nextpid, np, status, shell, panicked, wanted, exited, waited>>
  BY Zenon DEF WaitSleep, Goto, user, history
<1>2. state[p] = "RUNNABLE" /\ waitLock = p
  BY Zenon, <1>1, Running DEF IInv, LockInv
<1>3. TypeOK'
  BY <1>1, ProcAssumption DEF IInv, TypeOK, PCs, States
<1>4. /\ pc'[p] = "wait" /\ state'[p] = "SLEEPING"
      /\ \A s \in Slots : s # p => pc'[s] = pc[s] /\ state'[s] = state[s]
  BY Zenon, <1>1 DEF IInv, TypeOK
<1>5. Threads'
  BY Zenon, <1>2, <1>4, SlotFacts DEF IInv, Threads
<1>6. PidsInv'
  BY <1>1, <1>2, <1>4 DEF IInv, PidsInv, PidsUnique
<1>7. Forks'
  BY Zenon, <1>1, <1>2, <1>4, ForksFrame
<1>8. Parents'
  BY <1>1, <1>2, <1>4 DEF IInv, Parents, TypeOK, Slots
<1>9. LockInv'
  BY Zenon, <1>1, <1>2, <1>4, SlotFacts DEF IInv, LockInv
<1>10. Sleepers'
  <2>1. \A q \in Slots : pc'[q] \notin {"waitsleep", "zombie"}
    BY Zenon, <1>2, <1>4 DEF IInv, LockInv
  <2>2. /\ \E s \in Slots : parent[s] = p
        /\ \A s \in Slots : parent[s] = p => state[s] # "ZOMBIE"
    BY Zenon, <1>1 DEF IInv, Sleepers
  <2> QED
    BY <2>1, <2>2, <1>1, <1>4 DEF IInv, Sleepers
<1>11. Reports'
  BY Zenon, <1>1, <1>4 DEF IInv, Reports, WaitReportsExit
<1> QED
  BY Zenon, <1>3, <1>5, <1>6, <1>7, <1>8, <1>9, <1>10, <1>11 DEF IInv

-----------------------------------------------------------------------------
(* exit() and kill()                                                       *)

\* exit() gives its children to init, and wakes whoever may now have a zombie to reap.
LEMMA ExitNotifyKeeps ==
  ASSUME IInv, NEW p \in Slots, ExitNotify(p)
  PROVE  IInv'
<1>1. /\ pc[p] = "exit" /\ p # initproc /\ waitLock = 0 /\ waitLock' = p
      /\ parent' = [s \in Slots |-> IF parent[s] = p THEN initproc ELSE parent[s]]
      /\ state' = [s \in Slots |->
                     IF s \in Woken(p) /\ state[s] = "SLEEPING" THEN "RUNNABLE" ELSE state[s]]
      /\ pc' = [pc EXCEPT ![p] = "zombie"]
      /\ UNCHANGED <<pid, killed, xstate, nextpid, np, status, shell, panicked, wanted, exited, waited>>
  BY Zenon DEF ExitNotify, ExitLock, Heir, Wakeup, Goto, user, history
<1>2. state[p] = "RUNNABLE" /\ initproc \in Slots /\ initproc # 0 /\ 0 \notin Slots
  BY Zenon, <1>1, Running, SlotFacts
<1>3. TypeOK'
  <2>1. state' \in [Slots -> States]
    BY Zenon, <1>1 DEF IInv, TypeOK, States
  <2>2. parent' \in [Slots -> 0..NPROC]
    BY Zenon, <1>1, <1>2, SlotFacts DEF IInv, TypeOK
  <2>3. waitLock' \in 0..NPROC /\ pc' \in [Slots -> PCs]
    BY Zenon, <1>1, SlotFacts DEF IInv, TypeOK, PCs
  <2> QED
    BY Zenon, <1>1, <2>1, <2>2, <2>3 DEF IInv, TypeOK
<1>4. /\ pc'[p] = "zombie" /\ \A s \in Slots : s # p => pc'[s] = pc[s]
      /\ \A s \in Slots : /\ parent[s] = p => parent'[s] = initproc
                          /\ parent[s] # p => parent'[s] = parent[s]
      /\ \A s \in Slots : \/ state'[s] = state[s]
                          \/ state[s] = "SLEEPING" /\ state'[s] = "RUNNABLE"
      /\ \A s \in Slots : s \in Woken(p) => state'[s] # "SLEEPING"
  BY Zenon, <1>1 DEF IInv, TypeOK
<1>5. Threads'
  BY <1>1, <1>2, <1>4 DEF IInv, Threads
<1>6. PidsInv'
  BY <1>1, <1>2, <1>4 DEF IInv, PidsInv, PidsUnique
<1>7. Forks'
  <2>1. ASSUME NEW q \in Slots, pc'[q] \in {"forkparent", "forkrun"}
        PROVE  q # p /\ parent[np[q]] # p
    BY <2>1, <1>2, <1>4 DEF IInv, Forks
  <2>2. \A s \in Slots : state[s] = "USED" => state'[s] = "USED"
    BY Zenon, <1>4
  <2>3. \A q \in Slots : pc'[q] \in {"alloc", "forkparent", "forkrun"} => pc'[q] = pc[q] /\ np'[q] = np[q]
    BY Zenon, <1>1, <1>4
  <2> QED
    BY <2>1, <2>2, <2>3, <1>4, ForksFrame
<1>8. Parents'
  <2>1. ASSUME NEW s \in Slots, parent'[s] # 0
        PROVE  pc'[parent'[s]] \notin {"none", "zombie", "sched"}
    <3>1. CASE parent[s] = p
      BY <3>1, <1>1, <1>2, <1>4 DEF IInv, Threads
    <3>2. CASE parent[s] # p
      <4>1. parent'[s] = parent[s] /\ parent[s] # 0 /\ parent[s] \in Slots
        BY <2>1, <3>2, <1>4 DEF IInv, TypeOK, Slots
      <4> QED
        BY <4>1, <3>2, <1>4 DEF IInv, Parents
    <3> QED
      BY Zenon, <3>1, <3>2
  <2>2. ASSUME NEW s \in Slots \ {initproc}, state'[s] \notin {"UNUSED", "USED"}
        PROVE  parent'[s] # 0
    BY Zenon, <2>2, <1>2, <1>4 DEF IInv, Parents
  <2> QED
    BY Zenon, <2>1, <2>2 DEF Parents
<1>9. LockInv'
  BY Zenon, <1>1, <1>2, <1>4 DEF IInv, LockInv
<1>10. Sleepers'
  <2>1. \A q \in Slots : pc[q] \notin {"waitsleep", "zombie"}
    BY Zenon, <1>1, <1>2 DEF IInv, LockInv
  <2>2. \A q \in Slots : pc'[q] # "waitsleep" /\ (pc'[q] = "zombie" => q = p)
    BY Zenon, <2>1, <1>4
  <2>3. ASSUME NEW q \in Slots, state'[q] = "SLEEPING"
        PROVE  /\ \E s \in Slots : parent'[s] = q
               /\ \A s \in Slots : parent'[s] = q => state'[s] # "ZOMBIE"
    <3>1. state[q] = "SLEEPING" /\ q # p /\ q \notin Woken(p)
      BY Zenon, <2>3, <1>2, <1>4
    <3>2. /\ \E s \in Slots : parent[s] = q
          /\ \A s \in Slots : parent[s] = q => state[s] # "ZOMBIE"
      BY Zenon, <3>1 DEF IInv, Sleepers
    <3>3. \A s \in Slots : parent'[s] = q => parent[s] = q
      <4> SUFFICES ASSUME NEW s \in Slots, parent[s] = p, q = initproc PROVE FALSE
        BY Zenon, <1>4
      <4>1. Children(p) # {}
        BY Zenon DEF Children
      <4> QED
        BY Zenon, <4>1, <3>1 DEF Woken
    <3> QED
      BY <3>1, <3>2, <3>3, <1>4
  <2>4. state'[parent'[p]] # "SLEEPING"
    <3>1. parent[p] \in Slots
      BY <1>1, <1>2 DEF IInv, Parents, TypeOK, Slots
    <3>2. CASE parent[p] = p
      <4>1. Children(p) # {}
        BY Zenon, <3>2 DEF Children
      <4> QED
        BY Zenon, <4>1, <3>2, <1>2, <1>4 DEF Woken
    <3>3. CASE parent[p] # p
      BY Zenon, <3>1, <3>3, <1>4 DEF Woken
    <3> QED
      BY Zenon, <3>2, <3>3
  <2> QED
    BY Zenon, <2>2, <2>3, <2>4 DEF Sleepers
<1>11. Reports'
  BY <1>1, <1>4 DEF IInv, Reports, WaitReportsExit
<1> QED
  BY Zenon, <1>3, <1>5, <1>6, <1>7, <1>8, <1>9, <1>10, <1>11 DEF IInv

\* exit() becomes a zombie with wait_lock held since the wakeup, so its parent is awake.
LEMMA ExitZombieKeeps ==
  ASSUME IInv, NEW p \in Slots, ExitZombie(p)
  PROVE  IInv'
<1>1. /\ pc[p] = "zombie" /\ waitLock' = 0
      /\ state' = [state EXCEPT ![p] = "ZOMBIE"] /\ xstate' = [xstate EXCEPT ![p] = status[p]]
      /\ pc' = [pc EXCEPT ![p] = "sched"]
      /\ UNCHANGED <<pid, parent, killed, nextpid, np, status, shell, panicked, wanted, exited, waited>>
  BY Zenon DEF ExitZombie, Goto, user, history
<1>2. /\ state[p] = "RUNNABLE" /\ waitLock = p /\ p # initproc
      /\ \A s \in Slots : parent[s] # p
  BY Zenon, <1>1, Running, SlotFacts DEF IInv, LockInv, Threads, Parents
<1>3. TypeOK'
  BY <1>1, ProcAssumption DEF IInv, TypeOK, PCs, States
<1>4. /\ pc'[p] = "sched" /\ state'[p] = "ZOMBIE" /\ xstate'[p] = status[p]
      /\ \A s \in Slots : s # p => pc'[s] = pc[s] /\ state'[s] = state[s] /\ xstate'[s] = xstate[s]
  BY Zenon, <1>1 DEF IInv, TypeOK
<1>5. Threads'
  BY ZenonT(60), <1>2, <1>4, SlotFacts DEF IInv, Threads
<1>6. PidsInv'
  BY <1>1, <1>2, <1>4 DEF IInv, PidsInv, PidsUnique
<1>7. Forks'
  BY Zenon, <1>1, <1>2, <1>4, ForksFrame
<1>8. Parents'
  BY <1>1, <1>2, <1>4 DEF IInv, Parents, TypeOK, Slots
<1>9. LockInv'
  BY Zenon, <1>1, <1>2, <1>4, SlotFacts DEF IInv, LockInv
<1>10. Sleepers'
  <2>1. \A q \in Slots : pc'[q] \notin {"waitsleep", "zombie"}
    BY Zenon, <1>2, <1>4 DEF IInv, LockInv
  <2>2. state[parent[p]] # "SLEEPING"
    BY Zenon, <1>1 DEF IInv, Sleepers
  <2> QED
    BY <2>1, <2>2, <1>1, <1>4 DEF IInv, Sleepers
<1>11. Reports'
  BY <1>1, <1>2, <1>4 DEF IInv, Reports, WaitReportsExit
<1> QED
  BY Zenon, <1>3, <1>5, <1>6, <1>7, <1>8, <1>9, <1>10, <1>11 DEF IInv

\* The thread of a zombie leaves its stack.
LEMMA ExitSchedKeeps ==
  ASSUME IInv, NEW p \in Slots, ExitSched(p)
  PROVE  IInv'
<1>1. /\ pc[p] = "sched" /\ pc' = [pc EXCEPT ![p] = "none"]
      /\ UNCHANGED <<state, pid, parent, killed, xstate, nextpid, waitLock, np, status, shell, panicked,
                     wanted, exited, waited>>
  BY Zenon DEF ExitSched, Goto, table, user, history
<1>2. state[p] = "ZOMBIE" /\ p # initproc /\ \A s \in Slots : parent[s] # p
  BY Zenon, <1>1, SlotFacts DEF IInv, Threads, Parents
<1>3. TypeOK'
  BY Zenon, <1>1 DEF IInv, TypeOK, PCs
<1>4. pc'[p] = "none" /\ \A s \in Slots : s # p => pc'[s] = pc[s]
  BY Zenon, <1>1 DEF IInv, TypeOK
<1>5. Threads' /\ PidsInv'
  BY <1>1, <1>2, <1>4, SlotFacts DEF IInv, Threads, PidsInv, PidsUnique
<1>6. Forks'
  BY Zenon, <1>1, <1>4, ForksFrame
<1>7. Parents'
  BY <1>1, <1>2, <1>4 DEF IInv, Parents, TypeOK, Slots
<1>8. LockInv'
  BY Zenon, <1>1, <1>4 DEF IInv, LockInv
<1>9. Sleepers'
  BY Zenon, <1>1, <1>4, SleepersFrame
<1>10. Reports'
  BY Zenon, <1>1, <1>4 DEF IInv, Reports, WaitReportsExit
<1> QED
  BY Zenon, <1>3, <1>5, <1>6, <1>7, <1>8, <1>9, <1>10 DEF IInv

\* kill(target) finds the slot with that pid.
LEMMA KillFinds ==
  ASSUME TypeOK, NEW p \in Slots, NEW target \in KillPids, Kill(p, target)
  PROVE  \E s \in Slots :
           /\ pid[s] = target /\ killed' = [killed EXCEPT ![s] = TRUE]
           /\ state' = [state EXCEPT ![s] = IF @ = "SLEEPING" THEN "RUNNABLE" ELSE @]
<1> DEFINE S == {q \in Slots : pid[q] = target}
<1>1. S \in SUBSET Nat /\ S # {}
  BY Zenon, SlotFacts DEF Kill
<1>2. Min(S) \in S
  BY Zenon, <1>1, MinFacts
<1> QED
  BY Zenon, <1>2 DEF Kill

\* kill() marks a process and wakes it from wait().
LEMMA KillKeeps ==
  ASSUME IInv, NEW p \in Slots, NEW target \in KillPids, Kill(p, target)
  PROVE  IInv'
<1>1. PICK k \in Slots :
        /\ pid[k] = target /\ killed' = [killed EXCEPT ![k] = TRUE]
        /\ state' = [state EXCEPT ![k] = IF @ = "SLEEPING" THEN "RUNNABLE" ELSE @]
  BY Zenon, KillFinds DEF IInv
<1>2. /\ wanted' = wanted \cup {target}
      /\ UNCHANGED <<pid, parent, xstate, nextpid, waitLock, pc, np, status, shell, panicked, exited, waited>>
  BY Zenon DEF Kill, user
<1>3. TypeOK'
  BY Zenon, <1>1, <1>2 DEF IInv, TypeOK, States
<1>4. \A s \in Slots : \/ state'[s] = state[s]
                       \/ state[s] = "SLEEPING" /\ state'[s] = "RUNNABLE"
  BY Zenon, <1>1 DEF IInv, TypeOK
<1>5. Threads' /\ PidsInv'
  BY <1>2, <1>4 DEF IInv, Threads, PidsInv, PidsUnique
<1>6. Forks'
  BY Zenon, <1>2, <1>4, ForksFrame
<1>7. Parents' /\ LockInv'
  BY Zenon, <1>2, <1>4 DEF IInv, Parents, LockInv
<1>8. Sleepers'
  BY Zenon, <1>2, <1>4, SleepersFrame
<1>9. Reports'
  BY Zenon, <1>2, <1>4 DEF IInv, Reports, WaitReportsExit
<1> QED
  BY Zenon, <1>3, <1>5, <1>6, <1>7, <1>8, <1>9 DEF IInv

-----------------------------------------------------------------------------
(* The theorems.                                                           *)

\* The invariant holds in every reachable state of fork(), exit(), wait() and
\* kill() (proc.c).
THEOREM Invariance == Spec => []IInv
<1>1. ASSUME IInv, NEW p \in Slots, Kernel(p) PROVE IInv'
  BY Zenon, <1>1, AllocSkipKeeps, AllocFailKeeps, AllocFoundKeeps, ForkParentKeeps, ForkRunKeeps, WaitReapKeeps,
     WaitReturnKeeps, WaitScanKeeps, WaitSleepKeeps, StutterKeeps, ExitNotifyKeeps, ExitZombieKeeps,
     ExitSchedKeeps DEF Kernel
<1>2. ASSUME IInv, NEW p \in Slots, User(p) PROVE IInv'
  BY Zenon, <1>2, CallKeeps, CallExitKeeps, KillKeeps DEF User
<1>3. IInv /\ [Next]_vars => IInv'
  BY Zenon, <1>1, <1>2, StutterKeeps DEF Next, Stopped
<1> QED
  BY <1>3, InitInv, PTL DEF Spec

\* The process table stays consistent whatever fork(), exit(), wait() and
\* kill() do at the same time: pids are unique and not handed out again, every
\* process has a parent that can wait for it, and a free slot has no thread.
THEOREM TableStaysExact == Spec => []TableExact
<1>1. IInv => TableExact
  <2> SUFFICES ASSUME IInv PROVE TableExact
    BY Zenon
  <2>1. TypeOK /\ PidsUnique /\ NoThreadOnFreeSlot
    BY Zenon DEF IInv, PidsInv, Threads, NoThreadOnFreeSlot
  <2>2. ASSUME NEW s \in Slots \ {initproc}, state[s] \notin {"UNUSED", "USED"}
        PROVE  parent[s] # 0 /\ state[parent[s]] \in {"RUNNABLE", "SLEEPING"}
    <3>1. parent[s] # 0 /\ parent[s] \in Slots
      BY <2>2 DEF IInv, Parents, TypeOK, Slots
    <3>2. pc[parent[s]] \notin {"none", "zombie", "sched"} /\ state[parent[s]] \in States
      BY Zenon, <3>1 DEF IInv, Parents, TypeOK
    <3> QED
      BY Zenon, <3>1, <3>2 DEF IInv, Threads, States
  <2> QED
    BY Zenon, <2>1, <2>2 DEF TableExact, NoOrphans
<1> QED
  BY <1>1, Invariance, PTL

\* No parent sleeps in wait() through the exit() of a child, its own or one that
\* reparent() gave it.
THEOREM ExitsAreSeen == Spec => []NoMissedExit
<1>1. IInv => NoMissedExit
  BY Zenon DEF IInv, Sleepers, NoMissedExit, Children, Zombies
<1> QED
  BY <1>1, Invariance, PTL

\* wait() returns the pid and the status of a process that called exit(), each
\* one once.
THEOREM WaitIsExact == Spec => []WaitReportsExit
<1>1. IInv => WaitReportsExit
  BY Zenon DEF IInv, Reports
<1> QED
  BY <1>1, Invariance, PTL

\* If nobody calls kill(0), which would match the free slots, kill() hits only
\* processes whose pid it was given.
THEOREM KillHitsItsPid ==
  ASSUME 0 \notin KillPids
  PROVE  Spec => []KilledByPid
<1>1. Init => KInv
  BY Zenon DEF Init, KInv
<1>2. ASSUME IInv, KInv, UNCHANGED <<killed, pid, wanted>> PROVE KInv'
  BY Zenon, <1>2 DEF KInv
<1>3. ASSUME IInv, KInv, NEW p \in Slots, AllocFail(p) PROVE KInv'
  <2>1. killed' = [killed EXCEPT ![np[p]] = FALSE] /\ UNCHANGED <<pid, wanted>>
    BY Zenon, <1>3 DEF AllocFail, history
  <2> QED
    BY Zenon, <1>3, <2>1 DEF KInv, IInv, TypeOK
<1>4. ASSUME IInv, KInv, NEW p \in Slots, AllocFound(p) PROVE KInv'
  <2>1. /\ pc[p] = "alloc" /\ state[np[p]] = "UNUSED" /\ pid' = [pid EXCEPT ![np[p]] = nextpid]
        /\ UNCHANGED <<killed, wanted>>
    BY Zenon, <1>4 DEF AllocFound, history
  <2>2. np[p] \in Slots /\ pid[np[p]] = 0 /\ 0 \notin wanted
    BY Zenon, <1>4, <2>1 DEF IInv, Forks, PidsInv, TypeOK
  <2>3. ~killed[np[p]] /\ \A s \in Slots : s # np[p] => pid'[s] = pid[s]
    BY Zenon, <1>4, <2>1, <2>2 DEF KInv, IInv, TypeOK
  <2> QED
    BY <1>4, <2>1, <2>3 DEF KInv
<1>5. ASSUME IInv, KInv, NEW p \in Slots, WaitReap(p) PROVE KInv'
  <2> DEFINE z == Min(Zombies(p))
  <2>1. /\ killed' = [killed EXCEPT ![z] = FALSE] /\ pid' = [pid EXCEPT ![z] = 0] /\ wanted' = wanted
    BY Zenon, <1>5 DEF WaitReap, FreeProc
  <2> HIDE DEF z
  <2> QED
    BY Zenon, <1>5, <2>1 DEF KInv, IInv, TypeOK
<1>6. ASSUME IInv, KInv, NEW p \in Slots, NEW target \in KillPids, Kill(p, target) PROVE KInv'
  <2>1. PICK k \in Slots : pid[k] = target /\ killed' = [killed EXCEPT ![k] = TRUE]
    BY Zenon, <1>6, KillFinds DEF IInv
  <2>2. wanted' = wanted \cup {target} /\ pid' = pid
    BY Zenon, <1>6 DEF Kill
  <2> QED
    BY Zenon, <1>6, <2>1, <2>2 DEF KInv, IInv, TypeOK
<1>7. ASSUME IInv, KInv, NEW p \in Slots, Kernel(p) PROVE KInv'
  BY Zenon, <1>2, <1>3, <1>4, <1>5, <1>7
     DEF Kernel, AllocSkip, ForkParent, ForkRun, WaitFault, WaitFail, WaitScan, WaitSleep, ExitPanic,
         ExitNotify, ExitZombie, ExitSched, table, history
<1>8. ASSUME IInv, KInv, NEW p \in Slots, User(p) PROVE KInv'
  BY Zenon, <1>2, <1>6, <1>8 DEF User, CallFork, CallWait, CallExit, table, history
<1>9. IInv /\ KInv /\ [Next]_vars => KInv'
  BY Zenon, <1>2, <1>7, <1>8 DEF Next, Stopped, vars, table, history
<1>10. KInv => KilledByPid
  BY Zenon DEF KInv, KilledByPid
<1> QED
  BY <1>1, <1>9, <1>10, Invariance, PTL DEF Spec
=============================================================================
