-------------------------------- MODULE Sched --------------------------------
(***************************************************************************)
(* Processes, CPUs and the context switch: sleep(), wakeup(), kill(),      *)
(* yield(), sched(), scheduler() and forkret() of kernel/proc.c, the timer *)
(* interrupt of kernel/trap.c, and as their client the sleep lock of       *)
(* kernel/sleeplock.c, which blocks and wakes processes with them.         *)
(*                                                                         *)
(* A CPU executes either on the scheduler's stack or on the kernel stack   *)
(* of one process; swtch() moves it from one to the other.  p->lock is     *)
(* handed over across swtch(): one side acquires it, the other releases    *)
(* it.  A step is the code between two points where another CPU can act,   *)
(* that is between two operations on a spin lock (SpinLock shows that they *)
(* exclude each other); a whole acquire ... release of p->lock that makes  *)
(* no call in between is one step.                                         *)
(***************************************************************************)
EXTENDS Naturals, FiniteSets

CONSTANTS CPUs,      \* the harts
          NPROC,     \* the size of the process table
          MaxKills   \* bound on the number of kill() calls

ASSUME NPROCAssumption == NPROC \in Nat \ {0}
ASSUME CPUsAssumption == 0 \notin CPUs
ASSUME MaxKillsAssumption == MaxKills \in Nat

Procs == 1..NPROC

VARIABLES
  state, chan, killed,  \* p->state; is p->chan the sleep lock?; p->killed
  plock,                \* the CPU that holds p->lock, or 0
  proc,                 \* c->proc, or 0
  on,                   \* whose kernel stack the CPU is on, 0: the scheduler's
  scan,                 \* p of the for loop of scheduler()
  noff, intena, sie,    \* c->noff, c->intena, interrupts enabled
  tint,                 \* intena, the local of sched(), on p's kernel stack
  pc, ret,              \* where the process is; where a timer interrupt found it
  wk,                   \* p of the for loop of wakeup()
  lk,                   \* the CPU that holds the spin lock inside the sleep lock
  locked, pid,          \* lk->locked and lk->pid of the sleep lock
  kills, panicked

cpuvars == <<proc, on, scan>>
intrvars == <<noff, intena, sie>>
lockvars == <<lk, locked, pid>>
vars == <<state, chan, killed, plock, proc, on, scan, noff, intena, sie, tint,
          pc, ret, wk, lk, locked, pid, kills, panicked>>

PCs == {"forkret", "idle", "test", "sleep", "asleep", "waking", "relock",
        "cs", "clear", "wakeup", "timer", "yield", "resume", "trapret"}

\* Where the process holds no spin lock and interrupts are enabled.
Interruptible == {"idle", "relock", "cs"}

TypeOK ==
  /\ state \in [Procs -> {"RUNNABLE", "RUNNING", "SLEEPING"}]
  /\ chan \in [Procs -> BOOLEAN] /\ killed \in [Procs -> BOOLEAN]
  /\ plock \in [Procs -> CPUs \cup {0}]
  /\ proc \in [CPUs -> Procs \cup {0}]
  /\ on \in [CPUs -> Procs \cup {0}]
  /\ scan \in [CPUs -> Procs]
  /\ noff \in [CPUs -> Nat] /\ intena \in [CPUs -> BOOLEAN] /\ sie \in [CPUs -> BOOLEAN]
  /\ tint \in [Procs -> BOOLEAN]
  /\ pc \in [Procs -> PCs] /\ ret \in [Procs -> Interruptible]
  /\ wk \in [Procs -> 1..(NPROC + 1)]
  /\ lk \in CPUs \cup {0} /\ locked \in BOOLEAN /\ pid \in Procs \cup {0}
  /\ kills \in 0..MaxKills /\ panicked \in BOOLEAN

\* Every process has been created and will start in forkret(); every CPU is
\* about to enter the loop of scheduler().
Init ==
  /\ state = [p \in Procs |-> "RUNNABLE"]
  /\ chan = [p \in Procs |-> FALSE] /\ killed = [p \in Procs |-> FALSE]
  /\ plock = [p \in Procs |-> 0]
  /\ proc = [c \in CPUs |-> 0] /\ on = [c \in CPUs |-> 0] /\ scan = [c \in CPUs |-> 1]
  /\ noff = [c \in CPUs |-> 0] /\ intena = [c \in CPUs |-> FALSE]
  /\ sie = [c \in CPUs |-> TRUE]
  /\ tint = [p \in Procs |-> FALSE]
  /\ pc = [p \in Procs |-> "forkret"] /\ ret = [p \in Procs |-> "idle"]
  /\ wk = [p \in Procs |-> 1]
  /\ lk = 0 /\ locked = FALSE /\ pid = 0
  /\ kills = 0 /\ panicked = FALSE

-----------------------------------------------------------------------------
(* What acquire() and release() of a spin lock do to the CPU's interrupts. *)

push_off(c) ==
  /\ intena' = [intena EXCEPT ![c] = IF noff[c] = 0 THEN sie[c] ELSE @]
  /\ sie' = [sie EXCEPT ![c] = FALSE]
  /\ noff' = [noff EXCEPT ![c] = @ + 1]

pop_off(c) ==
  /\ sie' = [sie EXCEPT ![c] = (noff[c] = 1 /\ intena[c])]
  /\ noff' = [noff EXCEPT ![c] = @ - 1]
  /\ UNCHANGED intena

At(c, label) == on[c] # 0 /\ pc[on[c]] = label
Goto(p, label) == pc' = [pc EXCEPT ![p] = label]

-----------------------------------------------------------------------------
(* scheduler().  Its loop variable p is scan[c]; intr_on() at the top of   *)
(* the outer loop is done when scan wraps around.                          *)

NextScan_OffByOne(c) == IF scan[c] + 1 >= NPROC THEN 1 ELSE scan[c] + 1

NextScan(c) == IF scan[c] = NPROC THEN 1 ELSE scan[c] + 1

\* acquire(&p->lock), p is not RUNNABLE, release(&p->lock).
SchedulerSkip(c) ==
  /\ on[c] = 0 /\ proc[c] = 0
  /\ plock[scan[c]] = 0 /\ state[scan[c]] # "RUNNABLE"
  /\ scan' = [scan EXCEPT ![c] = NextScan(c)]
  /\ intena' = [intena EXCEPT ![c] = sie[c]]
  /\ sie' = [sie EXCEPT ![c] = @ \/ scan[c] = NPROC]
  /\ UNCHANGED <<state, chan, killed, plock, proc, on, noff, tint, pc, ret, wk,
                 lockvars, kills, panicked>>

Pick_NoLock(c) == state[scan[c]] = "RUNNABLE"

\* acquire(&p->lock) succeeds and p is RUNNABLE.
Pick(c) == plock[scan[c]] = 0 /\ state[scan[c]] = "RUNNABLE"

\* acquire(&p->lock), p is RUNNABLE: swtch() to it with p->lock held.
SchedulerRun(c) ==
  /\ on[c] = 0 /\ proc[c] = 0
  /\ Pick(c)
  /\ plock' = [plock EXCEPT ![scan[c]] = c]
  /\ push_off(c)
  /\ state' = [state EXCEPT ![scan[c]] = "RUNNING"]
  /\ proc' = [proc EXCEPT ![c] = scan[c]]
  /\ on' = [on EXCEPT ![c] = scan[c]]
  /\ UNCHANGED <<chan, killed, scan, tint, pc, ret, wk, lockvars, kills, panicked>>

\* swtch() has come back: c->proc = 0, release(&p->lock).
SchedulerBack(c) ==
  /\ on[c] = 0 /\ proc[c] # 0
  /\ panicked' = (panicked \/ plock[scan[c]] # c)
  /\ proc' = [proc EXCEPT ![c] = 0]
  /\ plock' = [plock EXCEPT ![scan[c]] = 0]
  /\ noff' = [noff EXCEPT ![c] = @ - 1]
  /\ sie' = [sie EXCEPT ![c] = (noff[c] = 1 /\ intena[c]) \/ scan[c] = NPROC]
  /\ scan' = [scan EXCEPT ![c] = NextScan(c)]
  /\ UNCHANGED <<state, chan, killed, on, intena, tint, pc, ret, wk, lockvars, kills>>

-----------------------------------------------------------------------------
(* The process side of a context switch.                                   *)

\* The four panics of sched().
SchedPanics(c, p) ==
  plock[p] # c \/ noff[c] # 1 \/ state[p] = "RUNNING" \/ sie[c]

\* sched() up to and including swtch() to the scheduler's stack.
sched(c, from, to) ==
  LET p == on[c] IN
  /\ At(c, from)
  /\ panicked' = (panicked \/ SchedPanics(c, p))
  /\ tint' = [tint EXCEPT ![p] = intena[c]]
  /\ on' = [on EXCEPT ![c] = 0]
  /\ Goto(p, to)
  /\ UNCHANGED <<state, chan, killed, plock, proc, scan, intrvars, ret, wk, lockvars, kills>>

resume_KeepCpuIntena(c) ==
  LET p == on[c] IN
  /\ panicked' = (panicked \/ plock[p] # c)
  /\ plock' = [plock EXCEPT ![p] = 0]
  /\ noff' = [noff EXCEPT ![c] = @ - 1]
  /\ sie' = [sie EXCEPT ![c] = (noff[c] = 1 /\ intena[c])]
  /\ UNCHANGED intena

\* The end of sched(), which restores intena, and the release(&p->lock) that
\* both callers of sched() do next.
resume(c) ==
  LET p == on[c] IN
  /\ panicked' = (panicked \/ plock[p] # c)
  /\ plock' = [plock EXCEPT ![p] = 0]
  /\ noff' = [noff EXCEPT ![c] = @ - 1]
  /\ intena' = [intena EXCEPT ![c] = tint[p]]
  /\ sie' = [sie EXCEPT ![c] = (noff[c] = 1 /\ tint[p])]

\* forkret(): release(&p->lock), then usertrapret() enters user space, where
\* interrupts are enabled.
ForkRet(c) ==
  LET p == on[c] IN
  /\ At(c, "forkret")
  /\ panicked' = (panicked \/ plock[p] # c)
  /\ plock' = [plock EXCEPT ![p] = 0]
  /\ noff' = [noff EXCEPT ![c] = @ - 1]
  /\ sie' = [sie EXCEPT ![c] = TRUE]
  /\ Goto(p, "idle")
  /\ UNCHANGED <<state, chan, killed, cpuvars, intena, tint, ret, wk, lockvars, kills>>

\* A timer interrupt enters usertrap() or kerneltrap() with interrupts off.
Timer(c) ==
  LET p == on[c] IN
  /\ on[c] # 0 /\ sie[c] /\ pc[p] \in Interruptible
  /\ sie' = [sie EXCEPT ![c] = FALSE]
  /\ ret' = [ret EXCEPT ![p] = pc[p]]
  /\ Goto(p, "timer")
  /\ UNCHANGED <<state, chan, killed, plock, cpuvars, noff, intena, tint, wk, lockvars,
                 kills, panicked>>

\* yield() up to its call of sched().
yield(c) ==
  LET p == on[c] IN
  /\ At(c, "timer")
  /\ plock[p] = 0
  /\ plock' = [plock EXCEPT ![p] = c]
  /\ push_off(c)
  /\ state' = [state EXCEPT ![p] = "RUNNABLE"]
  /\ Goto(p, "yield")
  /\ UNCHANGED <<chan, killed, cpuvars, tint, ret, wk, lockvars, kills, panicked>>

YieldSched(c) == sched(c, "yield", "resume")

\* The end of yield().
YieldReturn(c) ==
  LET p == on[c] IN
  /\ At(c, "resume")
  /\ resume(c)
  /\ Goto(p, "trapret")
  /\ UNCHANGED <<state, chan, killed, cpuvars, tint, ret, wk, lockvars, kills>>

\* The end of the trap: sstatus is restored, the interrupted code goes on.
TrapReturn(c) ==
  LET p == on[c] IN
  /\ At(c, "trapret")
  /\ sie' = [sie EXCEPT ![c] = TRUE]
  /\ Goto(p, ret[p])
  /\ UNCHANGED <<state, chan, killed, plock, cpuvars, noff, intena, tint, ret, wk,
                 lockvars, kills, panicked>>

-----------------------------------------------------------------------------
(* acquiresleep(), with sleep() inlined.                                   *)

\* acquire(&lk->lk)
AcquireSleep(c) ==
  LET p == on[c] IN
  /\ At(c, "idle") /\ lk = 0
  /\ lk' = c
  /\ push_off(c)
  /\ Goto(p, "test")
  /\ UNCHANGED <<state, chan, killed, plock, cpuvars, tint, ret, wk, locked, pid, kills, panicked>>

Free_Untested == TRUE

\* The loop condition of acquiresleep().
Free == ~locked

\* lk->locked is 0: take it, release(&lk->lk).
AcquireSleepDone(c) ==
  LET p == on[c] IN
  /\ At(c, "test") /\ Free
  /\ locked' = TRUE /\ pid' = p
  /\ lk' = 0 /\ pop_off(c)
  /\ Goto(p, "cs")
  /\ UNCHANGED <<state, chan, killed, plock, cpuvars, tint, ret, wk, kills, panicked>>

\* lk->locked is 1: sleep(lk, &lk->lk) begins with acquire(&p->lock).
SleepEnter(c) ==
  LET p == on[c] IN
  /\ At(c, "test") /\ ~Free
  /\ plock[p] = 0
  /\ plock' = [plock EXCEPT ![p] = c]
  /\ push_off(c)
  /\ Goto(p, "sleep")
  /\ UNCHANGED <<state, chan, killed, cpuvars, tint, ret, wk, lockvars, kills, panicked>>

SleepUnlock(c) == lk' = 0 /\ pop_off(c)

\* sleep(): release(lk), set p->chan and p->state.
SleepSet(c) ==
  LET p == on[c] IN
  /\ At(c, "sleep")
  /\ SleepUnlock(c)
  /\ chan' = [chan EXCEPT ![p] = TRUE]
  /\ state' = [state EXCEPT ![p] = "SLEEPING"]
  /\ Goto(p, "asleep")
  /\ UNCHANGED <<killed, plock, cpuvars, tint, ret, wk, locked, pid, kills, panicked>>

SleepSched(c) == sched(c, "asleep", "waking")

\* Running again: p->chan = 0, release(&p->lock).
SleepWake(c) ==
  LET p == on[c] IN
  /\ At(c, "waking")
  /\ chan' = [chan EXCEPT ![p] = FALSE]
  /\ resume(c)
  /\ Goto(p, "relock")
  /\ UNCHANGED <<state, killed, cpuvars, tint, ret, wk, lockvars, kills>>

\* acquire(lk), and back to the loop of acquiresleep().
SleepReturn(c) ==
  LET p == on[c] IN
  /\ At(c, "relock") /\ lk = 0
  /\ lk' = c
  /\ push_off(c)
  /\ Goto(p, "test")
  /\ UNCHANGED <<state, chan, killed, plock, cpuvars, tint, ret, wk, locked, pid, kills, panicked>>

-----------------------------------------------------------------------------
(* releasesleep(), with wakeup() inlined, and kill().                      *)

\* acquire(&lk->lk)
ReleaseSleep(c) ==
  LET p == on[c] IN
  /\ At(c, "cs") /\ lk = 0
  /\ lk' = c
  /\ push_off(c)
  /\ Goto(p, "clear")
  /\ UNCHANGED <<state, chan, killed, plock, cpuvars, tint, ret, wk, locked, pid, kills, panicked>>

\* p = proc, where wakeup()'s loop starts.
FirstProc == 1

\* lk->locked = 0, lk->pid = 0, and the start of wakeup()'s loop.
ReleaseSleepClear(c) ==
  LET p == on[c] IN
  /\ At(c, "clear")
  /\ locked' = FALSE /\ pid' = 0
  /\ wk' = [wk EXCEPT ![p] = FirstProc]
  /\ Goto(p, "wakeup")
  /\ UNCHANGED <<state, chan, killed, plock, cpuvars, intrvars, tint, ret, lk, kills, panicked>>

MustWake_SkipLast(p, q) == q # p /\ q < NPROC /\ state[q] = "SLEEPING" /\ chan[q]

MustWake(p, q) == q # p /\ state[q] = "SLEEPING" /\ chan[q]

\* One iteration of wakeup()'s loop: acquire, test and set, release.
Wakeup(c) ==
  LET p == on[c]
      q == wk[on[c]] IN
  /\ At(c, "wakeup") /\ q <= NPROC
  /\ q # p => plock[q] = 0
  /\ state' = IF MustWake(p, q)
                THEN [state EXCEPT ![q] = "RUNNABLE"] ELSE state
  /\ wk' = [wk EXCEPT ![p] = q + 1]
  /\ UNCHANGED <<chan, killed, plock, cpuvars, intrvars, tint, pc, ret, lockvars, kills, panicked>>

\* wakeup() returns, release(&lk->lk).
ReleaseSleepDone(c) ==
  LET p == on[c] IN
  /\ At(c, "wakeup") /\ wk[p] > NPROC
  /\ lk' = 0 /\ pop_off(c)
  /\ Goto(p, "idle")
  /\ UNCHANGED <<state, chan, killed, plock, cpuvars, tint, ret, wk, locked, pid, kills, panicked>>

KillWakes(q) == state[q] = "SLEEPING"

\* kill() of process q by the process on CPU c.  The iterations of its loop
\* that do not find the pid have no effect.
kill(c, q) ==
  /\ At(c, "idle") /\ kills < MaxKills
  /\ plock[q] = 0
  /\ killed' = [killed EXCEPT ![q] = TRUE]
  /\ state' = IF KillWakes(q) THEN [state EXCEPT ![q] = "RUNNABLE"] ELSE state
  /\ intena' = [intena EXCEPT ![c] = sie[c]]
  /\ kills' = kills + 1
  /\ UNCHANGED <<chan, plock, cpuvars, noff, sie, tint, pc, ret, wk, lockvars, panicked>>

-----------------------------------------------------------------------------

Scheduler(c) == SchedulerSkip(c) \/ SchedulerRun(c) \/ SchedulerBack(c)

\* The steps a process takes once it is on a CPU without having a choice.
Forced(c) ==
  \/ ForkRet(c) \/ yield(c) \/ YieldSched(c) \/ YieldReturn(c) \/ TrapReturn(c)
  \/ AcquireSleepDone(c) \/ SleepEnter(c) \/ SleepSet(c) \/ SleepSched(c)
  \/ SleepWake(c) \/ SleepReturn(c)
  \/ ReleaseSleepClear(c) \/ Wakeup(c) \/ ReleaseSleepDone(c)

Next ==
  \E c \in CPUs :
    \/ Scheduler(c) \/ Forced(c) \/ Timer(c)
    \/ AcquireSleep(c) \/ ReleaseSleep(c)
    \/ \E q \in Procs : kill(c, q)

Spec == Init /\ [][Next]_vars

\* Every CPU executes; the timer goes on ticking, and an interrupt that is
\* pending is taken when interrupts are enabled; a process that is scheduled
\* again and again gets past the instruction it is at, and gives the sleep
\* lock back.
Fairness ==
  \A c \in CPUs :
    /\ WF_vars(Scheduler(c)) /\ WF_vars(Forced(c)) /\ SF_vars(Timer(c))
    /\ \A p \in Procs : SF_vars(on[c] = p /\ ReleaseSleep(c))

LiveSpec == Spec /\ Fairness

-----------------------------------------------------------------------------

\* p->lock, held from before p->state changes until the scheduler is off p's
\* kernel stack, keeps every other CPU from running p on the stack it is still
\* using: no kernel stack is in use by two CPUs.
OneCpuPerStack ==
  \A c, d \in CPUs : on[c] # 0 /\ on[c] = on[d] => c = d

\* myproc() and p->state are right: the CPU on p's stack has c->proc = p, and
\* while p->lock is free p is RUNNING exactly when some CPU is on its stack.
RunningExact ==
  /\ \A c \in CPUs : on[c] # 0 => proc[c] = on[c]
  /\ \A p \in Procs : plock[p] = 0 =>
       (state[p] = "RUNNING" <=> \E c \in CPUs : on[c] = p)

\* sched() never panics and nobody releases a p->lock its CPU does not hold,
\* although p->lock is acquired and released on different stacks.
NoPanic == ~panicked

\* The hand-over of p->lock across swtch() is safe: one CPU per kernel stack,
\* p->state right whenever p->lock is free, no panic in sched() or release().
HandOverSafe == TypeOK /\ OneCpuPerStack /\ RunningExact /\ NoPanic

\* No lost wakeup: when the sleep lock is free and nobody is working on it,
\* nobody is left asleep waiting for it (sleep()'s hand-over from lk to
\* p->lock against wakeup()'s scan under lk).
NoLostWakeup ==
  lk = 0 /\ ~locked => \A p \in Procs : ~(state[p] = "SLEEPING" /\ chan[p])

Holder(p) == pc[p] \in {"cs", "clear"} \/
             (pc[p] \in {"timer", "yield", "resume", "trapret"} /\ ret[p] = "cs")

\* At most one process is between acquiresleep() and releasesleep(), across
\* preemption and migration, and holdingsleep() is true of exactly that one.
SleepMutex ==
  \A p \in Procs : Holder(p) <=> locked /\ pid = p

\* The interrupt state belongs to the thread, not to the CPU: a process finds
\* interrupts enabled where it left them enabled and off inside a trap handler,
\* on whichever CPU it continues.
InterruptsFollowThread ==
  \A c \in CPUs : on[c] # 0 /\ noff[c] = 0 =>
    sie[c] = (pc[on[c]] \notin {"timer", "trapret"})

\* Round-robin scheduling with preemption starves nobody.
NoStarvation == \A p \in Procs : state[p] = "RUNNABLE" ~> state[p] = "RUNNING"

\* A process asleep for the lock is woken and runs again, provided holders give
\* the lock back.
SleeperRuns == \A p \in Procs : state[p] = "SLEEPING" ~> state[p] = "RUNNING"
=============================================================================
