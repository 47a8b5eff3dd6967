-------------------------------- MODULE Proc --------------------------------
(***************************************************************************)
(* The life of a process: allocproc(), fork(), exit(), wait(), reparent()  *)
(* and kill() of kernel/proc.c on a table of NPROC slots, with the checks  *)
(* of p->killed in usertrap() and the loop of user/init.c that reaps the   *)
(* orphans.  The other processes call whatever they like.                  *)
(*                                                                         *)
(* A step is a section between two points where no lock is held, or where  *)
(* a kill() can come in: kill() takes p->lock only, never wait_lock.       *)
(* RUNNABLE stands for RUNNABLE and RUNNING, which Sched tells apart; the  *)
(* user memory and the files that fork() copies and exit() closes do not   *)
(* appear.                                                                 *)
(***************************************************************************)
EXTENDS Integers, FiniteSets, FiniteSetsExt

CONSTANTS NPROC,     \* slots of the table
          MaxPid,    \* bound on nextpid
          KillPids,  \* the arguments of kill()
          OutOfMemory  \* may kalloc() fail?

ASSUME ProcAssumption ==
  /\ NPROC \in Nat \ {0} /\ MaxPid \in Nat \ {0} /\ KillPids \subseteq Nat
  /\ OutOfMemory \in BOOLEAN

Slots == 1..NPROC
initproc == 1

VARIABLES
  state, pid, parent, killed, xstate,  \* struct proc (parent 0: none)
  nextpid,
  waitLock,    \* the slot whose thread holds wait_lock, or 0
  pc,          \* where the slot's kernel thread is
  np,          \* the slot fork() is looking at or setting up
  status,      \* argument of exit()
  shell,       \* pid of user/init.c: the shell it waits for, or 0
  panicked,    \* panic("init exiting")
  wanted,      \* history: the pids kill() was called with
  exited,      \* history: <<pid, status>> of every exit()
  waited       \* history: <<parent's pid, pid, status>> of every wait()

table == <<state, pid, parent, killed, xstate>>
user == <<status, shell>>
history == <<wanted, exited, waited>>
vars == <<table, nextpid, waitLock, pc, np, status, shell, panicked, history>>

States == {"UNUSED", "USED", "SLEEPING", "RUNNABLE", "ZOMBIE"}
PCs == {"none", "user", "alloc", "forkparent", "forkrun", "wait", "waitsleep",
        "exit", "zombie", "sched"}
Pids == 0..MaxPid
Statuses == {0, -1}

TypeOK ==
  /\ state \in [Slots -> States] /\ pid \in [Slots -> Pids]
  /\ parent \in [Slots -> 0..NPROC] /\ killed \in [Slots -> BOOLEAN]
  /\ xstate \in [Slots -> Statuses]
  /\ nextpid \in 1..(MaxPid + 1) /\ waitLock \in 0..NPROC
  /\ pc \in [Slots -> PCs] /\ np \in [Slots -> 0..NPROC]
  /\ status \in [Slots -> Statuses] /\ shell \in Pids /\ panicked \in BOOLEAN
  /\ wanted \subseteq KillPids /\ exited \subseteq Pids \X Statuses
  /\ waited \subseteq Pids \X Pids \X Statuses

\* userinit() has run.
Init ==
  /\ state = [s \in Slots |-> IF s = initproc THEN "RUNNABLE" ELSE "UNUSED"]
  /\ pid = [s \in Slots |-> IF s = initproc THEN 1 ELSE 0]
  /\ parent = [s \in Slots |-> 0] /\ killed = [s \in Slots |-> FALSE]
  /\ xstate = [s \in Slots |-> 0]
  /\ nextpid = 2 /\ waitLock = 0
  /\ pc = [s \in Slots |-> IF s = initproc THEN "user" ELSE "none"]
  /\ np = [s \in Slots |-> 0] /\ status = [s \in Slots |-> 0]
  /\ shell = 0 /\ panicked = FALSE
  /\ wanted = {} /\ exited = {} /\ waited = {}

-----------------------------------------------------------------------------

\* p->lock is held across a step only by a thread that leaves its stack for
\* good, from exit() until the scheduler releases it.
LockFree(s) == pc[s] # "sched"

Goto(p, label) == pc' = [pc EXCEPT ![p] = label]

\* wakeup(s): only the process in slot s sleeps on that address, in wait().
Wakeup(chans) ==
  state' = [s \in Slots |->
              IF s \in chans /\ state[s] = "SLEEPING" THEN "RUNNABLE" ELSE state[s]]

\* A system call of p starts; usertrap() turns a killed process away.
Enter(p, label) ==
  /\ pc[p] = "user" /\ ~killed[p]
  /\ Goto(p, label)

\* A process other than init calls what it likes, init what user/init.c says:
\* fork() when it has no shell, otherwise wait().
CallFork(p) ==
  /\ p = initproc => shell = 0
  /\ Enter(p, "alloc")
  /\ np' = [np EXCEPT ![p] = 1]
  /\ UNCHANGED <<table, nextpid, waitLock, user, panicked, history>>

\* p < &proc[NPROC] after p++
More(k) == k < NPROC

\* allocproc() passes over a slot in use; fork() returns -1 at the end of the
\* table, and init exits with 1.
AllocSkip(p) ==
  /\ pc[p] = "alloc" /\ LockFree(np[p])
  /\ state[np[p]] # "UNUSED"
  /\ IF More(np[p])
       THEN np' = [np EXCEPT ![p] = @ + 1] /\ UNCHANGED pc
       ELSE /\ np' = [np EXCEPT ![p] = 0]
            /\ Goto(p, IF p = initproc THEN "exit" ELSE "user")
  /\ UNCHANGED <<table, nextpid, waitLock, user, panicked, history>>

\* allocproc() finds a slot, but kalloc(), proc_pagetable() or uvmcopy() fails:
\* freeproc() clears the slot, the pid is used up.
AllocFail(p) ==
  /\ OutOfMemory
  /\ pc[p] = "alloc" /\ state[np[p]] = "UNUSED" /\ nextpid <= MaxPid
  /\ nextpid' = nextpid + 1
  /\ killed' = [killed EXCEPT ![np[p]] = FALSE]
  /\ np' = [np EXCEPT ![p] = 0]
  /\ Goto(p, IF p = initproc THEN "exit" ELSE "user")
  /\ UNCHANGED <<state, pid, parent, xstate, waitLock, user, panicked, history>>

\* allocpid()
NextPid == nextpid + 1

\* allocproc() and the rest of fork() up to release(&np->lock).
AllocFound(p) ==
  /\ pc[p] = "alloc" /\ state[np[p]] = "UNUSED" /\ nextpid <= MaxPid
  /\ pid' = [pid EXCEPT ![np[p]] = nextpid] /\ nextpid' = NextPid
  /\ state' = [state EXCEPT ![np[p]] = "USED"]
  /\ Goto(p, "forkparent")
  /\ UNCHANGED <<parent, killed, xstate, waitLock, np, user, panicked, history>>

\* np->parent = p, under wait_lock.
ForkParent(p) ==
  /\ pc[p] = "forkparent" /\ waitLock = 0
  /\ parent' = [parent EXCEPT ![np[p]] = p]
  /\ Goto(p, "forkrun")
  /\ UNCHANGED <<state, pid, killed, xstate, nextpid, waitLock, np, user, panicked, history>>

\* The child becomes RUNNABLE; fork() returns its pid.
ForkRun(p) ==
  /\ pc[p] = "forkrun"
  /\ state' = [state EXCEPT ![np[p]] = "RUNNABLE"]
  /\ pc' = [pc EXCEPT ![p] = "user", ![np[p]] = "user"]
  /\ shell' = IF p = initproc THEN pid[np[p]] ELSE shell
  /\ np' = [np EXCEPT ![p] = 0]
  /\ UNCHANGED <<pid, parent, killed, xstate, nextpid, waitLock, status, panicked, history>>

-----------------------------------------------------------------------------

Children(p) == {s \in Slots : parent[s] = p}
Zombies(p) == {s \in Children(p) : state[s] = "ZOMBIE"}

CallWait(p) ==
  /\ p = initproc => shell # 0
  /\ Enter(p, "wait")
  /\ UNCHANGED <<table, nextpid, waitLock, np, user, panicked, history>>

FreeProc_KeepPid(s) ==
  /\ state' = [state EXCEPT ![s] = "UNUSED"] /\ UNCHANGED pid
  /\ parent' = [parent EXCEPT ![s] = 0] /\ killed' = [killed EXCEPT ![s] = FALSE]
  /\ xstate' = [xstate EXCEPT ![s] = 0]

FreeProc_KeepKilled(s) ==
  /\ state' = [state EXCEPT ![s] = "UNUSED"] /\ pid' = [pid EXCEPT ![s] = 0]
  /\ parent' = [parent EXCEPT ![s] = 0] /\ UNCHANGED killed
  /\ xstate' = [xstate EXCEPT ![s] = 0]

\* freeproc(s)
FreeProc(s) ==
  /\ state' = [state EXCEPT ![s] = "UNUSED"] /\ pid' = [pid EXCEPT ![s] = 0]
  /\ parent' = [parent EXCEPT ![s] = 0] /\ killed' = [killed EXCEPT ![s] = FALSE]
  /\ xstate' = [xstate EXCEPT ![s] = 0]

\* The scan of wait() under wait_lock finds a zombie, the first in the table.
WaitReap(p) ==
  /\ pc[p] = "wait" /\ state[p] = "RUNNABLE" /\ waitLock = 0
  /\ Zombies(p) # {}
  /\ LET s == Min(Zombies(p))
     IN /\ LockFree(s)
        /\ FreeProc(s)
        /\ waited' = waited \cup {<<pid[p], pid[s], xstate[s]>>}
        /\ shell' = IF p = initproc /\ pid[s] = shell THEN 0 ELSE shell
  /\ Goto(p, "user")
  /\ UNCHANGED <<nextpid, waitLock, np, status, panicked, wanted, exited>>

\* It finds one but cannot copy the status out: -1, the zombie stays.  Init
\* passes no address.
WaitFault(p) ==
  /\ p # initproc
  /\ pc[p] = "wait" /\ state[p] = "RUNNABLE" /\ waitLock = 0
  /\ Zombies(p) # {} /\ LockFree(Min(Zombies(p)))
  /\ Goto(p, "user")
  /\ UNCHANGED <<table, nextpid, waitLock, np, user, panicked, history>>

\* It finds none: -1 if p has no children or is killed (init then exits with 1).
WaitFail(p) ==
  /\ pc[p] = "wait" /\ state[p] = "RUNNABLE" /\ waitLock = 0
  /\ Zombies(p) = {} /\ (Children(p) = {} \/ killed[p])
  /\ Goto(p, IF p = initproc THEN "exit" ELSE "user")
  /\ UNCHANGED <<table, nextpid, waitLock, np, user, panicked, history>>

\* It finds none and goes on to sleep(p, &wait_lock), which a kill() may precede.
WaitScan(p) ==
  /\ pc[p] = "wait" /\ state[p] = "RUNNABLE" /\ waitLock = 0
  /\ Zombies(p) = {} /\ Children(p) # {} /\ ~killed[p]
  /\ waitLock' = p
  /\ Goto(p, "waitsleep")
  /\ UNCHANGED <<table, nextpid, np, user, panicked, history>>

\* sleep() gives up wait_lock; when woken, p scans again.
WaitSleep(p) ==
  /\ pc[p] = "waitsleep"
  /\ state' = [state EXCEPT ![p] = "SLEEPING"]
  /\ waitLock' = 0
  /\ Goto(p, "wait")
  /\ UNCHANGED <<pid, parent, killed, xstate, nextpid, np, user, panicked, history>>

-----------------------------------------------------------------------------

\* exit(0) by the program, or exit(-1) in usertrap() because p is killed (or has
\* faulted).  Init never calls it by itself.
CallExit(p) ==
  /\ pc[p] = "user"
  /\ p = initproc => killed[p]
  /\ Goto(p, "exit")
  /\ status' = [status EXCEPT ![p] = IF killed[p] THEN -1 ELSE 0]
  /\ exited' = exited \cup {<<pid[p], status'[p]>>}
  /\ UNCHANGED <<table, nextpid, waitLock, np, shell, panicked, wanted, waited>>

\* panic("init exiting")
ExitPanic(p) ==
  /\ pc[p] = "exit" /\ p = initproc
  /\ panicked' = TRUE
  /\ UNCHANGED <<table, nextpid, waitLock, pc, np, user, history>>

ExitLock_None(p) == UNCHANGED waitLock
ExitLock(p) == waitLock' = p

Heir_None(p) == 0

\* The new parent of p's children.
Heir(p) == initproc

Woken_NoInit(p) == {parent[p]}

\* The sleepers that reparent() and exit() wake up.
Woken(p) == {parent[p]} \cup (IF Children(p) # {} THEN {initproc} ELSE {})

\* wait_lock, reparent(p) with its wakeup(initproc), wakeup(p->parent).
ExitNotify(p) ==
  /\ pc[p] = "exit" /\ p # initproc /\ waitLock = 0
  /\ ExitLock(p)
  /\ parent' = [s \in Slots |-> IF parent[s] = p THEN Heir(p) ELSE parent[s]]
  /\ Wakeup(Woken(p))
  /\ Goto(p, "zombie")
  /\ UNCHANGED <<pid, killed, xstate, nextpid, np, user, panicked, history>>

\* ZOMBIE, under p->lock; release(&wait_lock).
ExitZombie(p) ==
  /\ pc[p] = "zombie"
  /\ state' = [state EXCEPT ![p] = "ZOMBIE"]
  /\ xstate' = [xstate EXCEPT ![p] = status[p]]
  /\ waitLock' = 0
  /\ Goto(p, "sched")
  /\ UNCHANGED <<pid, parent, killed, nextpid, np, user, panicked, history>>

\* sched(): off the stack, the scheduler releases p->lock.
ExitSched(p) ==
  /\ pc[p] = "sched"
  /\ Goto(p, "none")
  /\ UNCHANGED <<table, nextpid, waitLock, np, user, panicked, history>>

\* kill(target) by p: the first slot with that pid, which may be p itself.
Kill(p, target) ==
  /\ pc[p] = "user" /\ ~killed[p] /\ p # initproc
  /\ target \in {pid[s] : s \in Slots}
  /\ LET s == Min({q \in Slots : pid[q] = target})
     IN /\ LockFree(s)
        /\ killed' = [killed EXCEPT ![s] = TRUE]
        /\ state' = [state EXCEPT ![s] = IF @ = "SLEEPING" THEN "RUNNABLE" ELSE @]
  /\ wanted' = wanted \cup {target}
  /\ UNCHANGED <<pid, parent, xstate, nextpid, waitLock, pc, np, user, panicked,
                 exited, waited>>

-----------------------------------------------------------------------------

\* What a process does in the kernel once it is there.
Kernel(p) ==
  \/ AllocSkip(p) \/ AllocFail(p) \/ AllocFound(p) \/ ForkParent(p) \/ ForkRun(p)
  \/ WaitReap(p) \/ WaitFault(p) \/ WaitFail(p) \/ WaitScan(p) \/ WaitSleep(p)
  \/ ExitPanic(p) \/ ExitNotify(p) \/ ExitZombie(p) \/ ExitSched(p)

\* What a program asks for.
User(p) ==
  \/ CallFork(p) \/ CallWait(p) \/ CallExit(p)
  \/ \E target \in KillPids : Kill(p, target)

\* After a panic nothing happens; with no pids left the instance ends.
Stopped == (panicked \/ nextpid > MaxPid) /\ UNCHANGED vars

Next ==
  \/ ~panicked /\ \E p \in Slots : Kernel(p) \/ User(p)
  \/ Stopped

Spec == Init /\ [][Next]_vars

\* The kernel is scheduled fairly; init runs its loop; a killed process traps
\* into the kernel sooner or later (there is a timer).  Any other program may
\* compute for ever.
Driven(p) == /\ ~panicked
             /\ \/ Kernel(p)
                \/ killed[p] /\ CallExit(p)
                \/ p = initproc /\ (CallFork(p) \/ CallWait(p))
LiveSpec == Spec /\ \A p \in Slots : WF_vars(Driven(p))

-----------------------------------------------------------------------------

\* No two slots have the same pid, and none is handed out again: allocpid()
\* stays ahead of the table although fork() holds only the child's lock.
PidsUnique ==
  /\ \A s, t \in Slots : pid[s] = pid[t] /\ pid[s] # 0 => s = t
  /\ \A s \in Slots : pid[s] < nextpid

\* A process that can run has a parent that can still wait for it, init in the
\* end: whenever wait_lock is free, no process is left with a parent that has
\* exited, so none stays a zombie for want of somebody to reap it.
NoOrphans ==
  waitLock = 0 =>
    \A s \in Slots \ {initproc} : state[s] \notin {"UNUSED", "USED"} =>
      /\ parent[s] # 0
      /\ state[parent[s]] \in {"RUNNABLE", "SLEEPING"}

\* A process asleep in wait() has a child to wait for, and none that has exited
\* already: neither exit() nor the hand-over to init loses a wakeup.
NoMissedExit ==
  waitLock = 0 =>
    \A p \in Slots : state[p] = "SLEEPING" => Children(p) # {} /\ Zombies(p) = {}

\* wait() frees a slot only when its last thread has left the kernel stack and
\* every allocated slot has at most the thread its state calls for.
NoThreadOnFreeSlot ==
  \A s \in Slots : state[s] \in {"UNUSED", "USED"} => pc[s] = "none"

\* The process table stays consistent under fork(), exit(), wait() and kill():
\* pids, parents and threads are what the state of each slot calls for.
TableExact == TypeOK /\ PidsUnique /\ NoOrphans /\ NoThreadOnFreeSlot

\* wait() returns the pid and the status of a process that called exit(), and
\* each one once: a process that has been waited for is out of the table.
WaitReportsExit ==
  \A w \in waited :
    /\ <<w[2], w[3]>> \in exited
    /\ \A s \in Slots : pid[s] # w[2]
    /\ \A v \in waited : v[2] = w[2] => v = w

\* "Kill the process with the given pid": a process that is killed is one
\* whose pid was given to kill().
KilledByPid ==
  \A s \in Slots : killed[s] /\ pid[s] # 0 => pid[s] \in wanted

\* A zombie whose parent is init, by birth or by reparent(), is reaped, unless
\* the system stops (panics, or has no pid left for the shell init wants to start).
OrphansReaped ==
  \A s \in Slots \ {initproc} :
    state[s] = "ZOMBIE" /\ parent[s] = initproc
      ~> state[s] = "UNUSED" \/ panicked \/ (pc[initproc] = "alloc" /\ nextpid > MaxPid)

\* A killed process exits.
KillTakesEffect ==
  \A s \in Slots : killed[s] ~> state[s] \in {"ZOMBIE", "UNUSED"} \/ panicked \/ nextpid > MaxPid
=============================================================================
