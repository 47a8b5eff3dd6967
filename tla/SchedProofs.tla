----------------------------- MODULE SchedProofs -----------------------------
(***************************************************************************)
(* Proofs about Sched: an inductive invariant, for any number of CPUs,     *)
(* processes and kill() calls, kept by scheduler(), sched(), yield(),      *)
(* forkret(), the timer interrupt, the sleep locks, sleep(), wakeup() and  *)
(* kill(), and the safety properties that follow from it.                  *)
(***************************************************************************)
EXTENDS Sched, TLAPS

HasPLock == {"forkret", "resume", "waking", "sleep", "asleep", "yield"}
HasLk == {"test", "sleep", "clear", "wakeup"}

\* How many spin locks a process holds on its CPU.
Depth(l) == IF l = "sleep" THEN 2 ELSE IF l \in HasPLock \cup HasLk THEN 1 ELSE 0

\* p->state of a process on a CPU.
StateAt(l) == IF l = "asleep" THEN "SLEEPING" ELSE IF l = "yield" THEN "RUNNABLE" ELSE "RUNNING"

\* CPU c is on the kernel stack of p.
OnStack(c, p) ==
  /\ plock[p] = IF pc[p] \in HasPLock THEN c ELSE 0
  /\ noff[c] = Depth(pc[p])
  /\ sie[c] <=> pc[p] \in Interruptible
  /\ lk = c <=> pc[p] \in HasLk
  /\ pc[p] \in HasLk \cup {"asleep"} => intena[c]
  /\ pc[p] = "yield" => ~intena[c]
  /\ state[p] = StateAt(pc[p])

\* CPU c is on the scheduler's stack, having left p's: p->lock is still held.
Leaving(c, p) ==
  /\ plock[p] = c /\ noff[c] = 1 /\ lk # c
  /\ pc[p] \in {"resume", "waking"} /\ state[p] # "RUNNING"

CpuInv ==
  \A c \in CPUs :
    /\ proc[c] = 0 => on[c] = 0 /\ noff[c] = 0 /\ lk # c
    /\ proc[c] # 0 => /\ scan[c] = proc[c] /\ on[c] \in {0, proc[c]}
                      /\ IF on[c] = 0 THEN Leaving(c, proc[c]) ELSE OnStack(c, on[c])
                      /\ \A d \in CPUs : proc[d] = proc[c] => d = c

ProcInv ==
  \A p \in Procs :
    /\ plock[p] # 0 => proc[plock[p]] = p
    /\ (\A c \in CPUs : on[c] # p) => state[p] # "RUNNING" /\ pc[p] \in {"forkret", "resume", "waking"}
    /\ chan[p] <=> pc[p] \in {"asleep", "waking"}
    /\ state[p] = "SLEEPING" => chan[p]
    /\ pc[p] = "resume" => ~tint[p]
    /\ pc[p] = "waking" => tint[p]

\* Whoever sleeps for the free lock is still to be woken by the process that
\* has given it back.
Pending(p) == lk # 0 /\ pc[on[lk]] = "wakeup" /\ wk[on[lk]] <= p

LockInv ==
  /\ SleepMutex
  /\ \A p \in Procs : pc[p] = "sleep" => locked
  /\ ~locked => \A p \in Procs : state[p] = "SLEEPING" => Pending(p)

IInv == TypeOK /\ ~panicked /\ CpuInv /\ ProcInv /\ LockInv

-----------------------------------------------------------------------------
(* Consequences of the definitions.                                        *)

\* The process on CPU c.
LEMMA Current ==
  ASSUME IInv, NEW c \in CPUs, on[c] # 0
  PROVE  /\ on[c] \in Procs /\ proc[c] = on[c] /\ scan[c] = on[c] /\ OnStack(c, on[c])
         /\ \A d \in CPUs : d # c => on[d] # on[c] /\ proc[d] # on[c]
<1>1. on[c] \in Procs /\ 0 \notin Procs
  BY DEF IInv, TypeOK, Procs
<1>2. proc[c] = on[c] /\ scan[c] = on[c] /\ OnStack(c, on[c])
  BY Zenon DEF IInv, CpuInv
<1>3. \A d \in CPUs : d # c => proc[d] # on[c]
  BY Zenon, <1>1, <1>2 DEF IInv, CpuInv
<1>4. \A d \in CPUs : on[d] # 0 => proc[d] = on[d]
  BY Zenon DEF IInv, CpuInv
<1> QED
  BY Zenon, <1>1, <1>2, <1>3, <1>4

\* The holder of the spin lock of the sleep lock is on a CPU.
LEMMA LkHolder ==
  ASSUME IInv, lk # 0
  PROVE  lk \in CPUs /\ on[lk] # 0 /\ on[lk] \in Procs /\ pc[on[lk]] \in HasLk
<1>1. lk \in CPUs
  BY Zenon DEF IInv, TypeOK
<1>2. on[lk] # 0
  BY Zenon, <1>1 DEF IInv, CpuInv, Leaving
<1> QED
  BY Zenon, <1>1, <1>2, Current DEF OnStack

\* What push_off() does to the interrupt state of CPU c, and to no other.
LEMMA PushOff ==
  ASSUME TypeOK, NEW c \in CPUs, push_off(c)
  PROVE  /\ noff' \in [CPUs -> Nat] /\ intena' \in [CPUs -> BOOLEAN] /\ sie' \in [CPUs -> BOOLEAN]
         /\ noff'[c] = noff[c] + 1 /\ ~sie'[c]
         /\ noff[c] = 0 => (intena'[c] <=> sie[c])
         /\ noff[c] # 0 => (intena'[c] <=> intena[c])
         /\ \A d \in CPUs : d # c => /\ noff'[d] = noff[d]
                                     /\ intena'[d] = intena[d] /\ sie'[d] = sie[d]
  BY DEF TypeOK, push_off

\* What pop_off() does inside at least one push_off().
LEMMA PopOff ==
  ASSUME TypeOK, NEW c \in CPUs, pop_off(c), noff[c] >= 1
  PROVE  /\ noff' \in [CPUs -> Nat] /\ intena' \in [CPUs -> BOOLEAN] /\ sie' \in [CPUs -> BOOLEAN]
         /\ noff'[c] = noff[c] - 1 /\ (sie'[c] <=> noff[c] = 1 /\ intena[c]) /\ intena' = intena
         /\ \A d \in CPUs : d # c => noff'[d] = noff[d] /\ sie'[d] = sie[d]
<1>1. noff[c] - 1 \in Nat
  BY DEF TypeOK
<1>2. noff' \in [CPUs -> Nat] /\ noff'[c] = noff[c] - 1
      /\ \A d \in CPUs : d # c => noff'[d] = noff[d]
  BY Zenon, <1>1 DEF TypeOK, pop_off
<1>3. sie' \in [CPUs -> BOOLEAN] /\ (sie'[c] <=> noff[c] = 1 /\ intena[c])
      /\ \A d \in CPUs : d # c => sie'[d] = sie[d]
  BY Zenon DEF TypeOK, pop_off
<1> QED
  BY Zenon, <1>2, <1>3 DEF TypeOK, pop_off

\* A step of the process on CPU c, which may wake others.
Local(c, p) ==
  /\ UNCHANGED <<on, proc, scan>>
  /\ \A q \in Procs : q # p =>
       /\ pc'[q] = pc[q] /\ chan'[q] = chan[q] /\ plock'[q] = plock[q] /\ tint'[q] = tint[q]
       /\ \/ state'[q] = state[q]
          \/ state[q] = "SLEEPING" /\ plock[q] = 0 /\ state'[q] = "RUNNABLE"
  /\ \A d \in CPUs : d # c =>
       /\ noff'[d] = noff[d] /\ (sie'[d] <=> sie[d]) /\ (intena'[d] <=> intena[d])
       /\ lk' = d <=> lk = d
  /\ chan'[p] <=> pc'[p] \in {"asleep", "waking"}
  /\ pc'[p] \notin {"resume", "waking"}

\* A step on CPU c that stays on its stack keeps what is known of all the others.
LEMMA LocalKeeps ==
  ASSUME IInv, NEW c \in CPUs, on[c] # 0, Local(c, on[c]), OnStack(c, on[c])'
  PROVE  CpuInv' /\ ProcInv'
<1> DEFINE p == on[c]
<1>1. /\ p \in Procs /\ proc[c] = p /\ scan[c] = p /\ OnStack(c, p)
      /\ \A d \in CPUs : d # c => on[d] # p /\ proc[d] # p
  BY Zenon, Current
<1>2. UNCHANGED <<on, proc, scan>> /\ 0 \notin CPUs /\ 0 \notin Procs
  BY CPUsAssumption DEF Local, Procs
<1> HIDE DEF p
<1>3. ASSUME NEW d \in CPUs, d # c, on[d] # 0
      PROVE  OnStack(d, on[d])'
  <2>1. on[d] \in Procs /\ OnStack(d, on[d]) /\ on[d] # p
    BY Zenon, <1>1, <1>3, Current
  <2>2. state[on[d]] = "SLEEPING" => plock[on[d]] = d /\ d # 0
    BY Zenon, <1>2, <2>1 DEF OnStack, StateAt, HasPLock
  <2>3. state'[on[d]] = state[on[d]] /\ pc'[on[d]] = pc[on[d]] /\ plock'[on[d]] = plock[on[d]]
    BY Zenon, <2>1, <2>2 DEF Local, p
  <2> QED
    BY <1>2, <1>3, <2>1, <2>3 DEF OnStack, Local
<1>4. ASSUME NEW d \in CPUs, d # c, on[d] = 0, proc[d] # 0
      PROVE  Leaving(d, proc[d])'
  <2>1. proc[d] \in Procs /\ Leaving(d, proc[d]) /\ proc[d] # p /\ d # 0
    BY Zenon, <1>1, <1>2, <1>4 DEF IInv, CpuInv, TypeOK
  <2> QED
    BY <1>2, <1>4, <2>1 DEF Leaving, Local, p
<1>5. CpuInv'
  <2> SUFFICES ASSUME NEW d \in CPUs
               PROVE  /\ proc'[d] = 0 => on'[d] = 0 /\ noff'[d] = 0 /\ lk' # d
                      /\ proc'[d] # 0 => /\ scan'[d] = proc'[d] /\ on'[d] \in {0, proc'[d]}
                                         /\ IF on'[d] = 0 THEN Leaving(d, proc[d])' ELSE OnStack(d, on[d])'
                                         /\ \A e \in CPUs : proc'[e] = proc'[d] => e = d
    BY Zenon DEF CpuInv
  <2>1. /\ proc[d] = 0 => on[d] = 0 /\ noff[d] = 0 /\ lk # d
        /\ proc[d] # 0 => /\ scan[d] = proc[d] /\ on[d] \in {0, proc[d]}
                          /\ \A e \in CPUs : proc[e] = proc[d] => e = d
    BY Zenon DEF IInv, CpuInv
  <2>2. CASE d = c
    BY Zenon, <1>1, <1>2, <2>1, <2>2 DEF p
  <2>3. CASE d # c
    BY <1>2, <1>3, <1>4, <2>1, <2>3 DEF Local
  <2> QED
    BY Zenon, <2>2, <2>3
<1>6. ProcInv'
  <2> SUFFICES ASSUME NEW q \in Procs
               PROVE  /\ plock'[q] # 0 => proc'[plock'[q]] = q
                      /\ (\A d \in CPUs : on'[d] # q) =>
                           state'[q] # "RUNNING" /\ pc'[q] \in {"forkret", "resume", "waking"}
                      /\ chan'[q] <=> pc'[q] \in {"asleep", "waking"}
                      /\ state'[q] = "SLEEPING" => chan'[q]
                      /\ pc'[q] = "resume" => ~tint'[q]
                      /\ pc'[q] = "waking" => tint'[q]
    BY Zenon DEF ProcInv
  <2>1. CASE q = p
    <3>1. plock'[p] \in {0, c} /\ (state'[p] = "SLEEPING" => pc'[p] = "asleep")
      BY Zenon, <1>2 DEF OnStack, StateAt, p
    <3>2. on'[c] = p /\ proc'[c] = p
      BY Zenon, <1>1, <1>2 DEF p
    <3> QED
      BY Zenon, <2>1, <3>1, <3>2 DEF Local, p
  <2>2. CASE q # p
    BY <1>2, <2>2 DEF IInv, ProcInv, Local, p
  <2> QED
    BY Zenon, <2>1, <2>2
<1> QED
  BY Zenon, <1>5, <1>6

\* What keeps the sleep lock's invariant when nobody takes or clears the lock.
LEMMA LockFrame ==
  ASSUME IInv, UNCHANGED <<locked, pid>>,
         \A q \in Procs : /\ Holder(q)' <=> Holder(q)
                          /\ pc'[q] = "sleep" => pc[q] = "sleep" \/ locked
                          /\ ~locked /\ state'[q] = "SLEEPING" => state[q] = "SLEEPING" /\ (Pending(q) => Pending(q)')
  PROVE  LockInv'
  BY Zenon DEF IInv, LockInv, SleepMutex

\* Who does not hold the spin lock of the sleep lock takes nobody off wakeup()'s list.
LEMMA PendingFrame ==
  ASSUME IInv, NEW c \in CPUs, lk # c, lk' = lk,
         \A d \in CPUs : d # c => on'[d] = on[d],
         \A q \in Procs : q # on[c] => pc'[q] = pc[q] /\ wk'[q] = wk[q]
  PROVE  \A q \in Procs : Pending(q) => Pending(q)'
<1> SUFFICES ASSUME lk # 0, NEW q \in Procs, Pending(q) PROVE Pending(q)'
  BY Zenon DEF Pending
<1>1. lk \in CPUs /\ on[lk] # 0 /\ on[lk] \in Procs
  BY Zenon, LkHolder
<1>2. on[lk] # on[c]
  BY Zenon, <1>1, Current
<1>3. on'[lk] = on[lk] /\ pc'[on[lk]] = pc[on[lk]] /\ wk'[on[lk]] = wk[on[lk]]
  BY Zenon, <1>1, <1>2
<1> QED
  BY Zenon, <1>3 DEF Pending

-----------------------------------------------------------------------------
(* The scheduler.                                                          *)

\* The invariant holds when the CPUs enter scheduler().
LEMMA InitInv == Init => IInv
<1> SUFFICES ASSUME Init PROVE IInv
  BY Zenon
<1>1. 0 \notin CPUs /\ 1 \in Procs /\ NPROC \in Nat /\ 1 \in 1..(NPROC + 1) /\ 0 \in 0..MaxKills
  BY CPUsAssumption, NPROCAssumption, MaxKillsAssumption DEF Procs
<1>2. TypeOK
  BY Zenon, <1>1 DEF Init, TypeOK, PCs, Interruptible
<1>3. CpuInv
  BY Zenon, <1>1 DEF Init, CpuInv
<1>4. ProcInv
  BY Zenon DEF Init, ProcInv
<1>5. LockInv
  <2>1. \A p \in Procs : pc[p] = "forkret" /\ state[p] = "RUNNABLE" /\ ~locked
    BY Zenon DEF Init
  <2> QED
    BY Zenon, <2>1 DEF LockInv, SleepMutex, Holder
<1> QED
  BY Zenon, <1>2, <1>3, <1>4, <1>5 DEF Init, IInv

\* The frame of a step of the scheduler on c that leaves the processes alone.
LEMMA SkipKeeps ==
  ASSUME IInv, NEW c \in CPUs, SchedulerSkip(c)
  PROVE  IInv'
<1>1. /\ on[c] = 0 /\ proc[c] = 0
      /\ UNCHANGED <<state, chan, killed, plock, proc, on, noff, tint, pc, ret, wk, lk, locked, pid,
                     kills, panicked>>
      /\ \A d \in CPUs : d # c => scan'[d] = scan[d] /\ sie'[d] = sie[d] /\ intena'[d] = intena[d]
  BY Zenon DEF SchedulerSkip, lockvars, IInv, TypeOK
<1>2. TypeOK'
  <2>1. NextScan(c) \in Procs
    BY SMTT(60), NPROCAssumption DEF NextScan, Procs, IInv, TypeOK
  <2>2. /\ scan' \in [CPUs -> Procs] /\ intena' \in [CPUs -> BOOLEAN]
    BY Zenon, <2>1 DEF SchedulerSkip, IInv, TypeOK
  <2>3. sie' \in [CPUs -> BOOLEAN]
    BY Zenon DEF SchedulerSkip, IInv, TypeOK
  <2> QED
    BY Zenon, <1>1, <2>2, <2>3 DEF IInv, TypeOK
<1>3. ASSUME NEW d \in CPUs, on[d] # 0 PROVE OnStack(d, on[d])'
  BY Zenon, <1>1, <1>3, Current DEF OnStack
<1>4. CpuInv'
  BY <1>1, <1>3 DEF IInv, CpuInv, Leaving
<1>5. ProcInv'
  BY Zenon, <1>1 DEF IInv, ProcInv
<1>6. LockInv'
  BY Zenon, <1>1 DEF IInv, LockInv, SleepMutex, Holder, Pending
<1> QED
  BY Zenon, <1>1, <1>2, <1>4, <1>5, <1>6 DEF IInv

\* scheduler() finds a RUNNABLE process, which is on no stack, and switches to it.
LEMMA RunKeeps ==
  ASSUME IInv, NEW c \in CPUs, SchedulerRun(c)
  PROVE  IInv'
<1> DEFINE p == scan[c]
<1>1. /\ on[c] = 0 /\ proc[c] = 0 /\ plock[p] = 0 /\ state[p] = "RUNNABLE"
      /\ plock' = [plock EXCEPT ![p] = c] /\ state' = [state EXCEPT ![p] = "RUNNING"]
      /\ proc' = [proc EXCEPT ![c] = p] /\ on' = [on EXCEPT ![c] = p]
      /\ push_off(c)
      /\ UNCHANGED <<chan, killed, scan, tint, pc, ret, wk, lk, locked, pid, kills, panicked>>
  BY Zenon DEF SchedulerRun, Pick, lockvars
<1>2. p \in Procs /\ 0 \notin Procs /\ 0 \notin CPUs
  BY CPUsAssumption DEF IInv, TypeOK, Procs
<1>3. noff[c] = 0 /\ lk # c
  BY Zenon, <1>1 DEF IInv, CpuInv
<1>4. /\ noff' \in [CPUs -> Nat] /\ intena' \in [CPUs -> BOOLEAN] /\ sie' \in [CPUs -> BOOLEAN]
      /\ noff'[c] = 1 /\ ~sie'[c]
      /\ \A d \in CPUs : d # c => noff'[d] = noff[d] /\ intena'[d] = intena[d] /\ sie'[d] = sie[d]
  BY <1>1, <1>3, PushOff DEF IInv
<1>5. TypeOK'
  BY Zenon, <1>1, <1>2, <1>4 DEF IInv, TypeOK
<1> HIDE DEF p
<1>6. /\ plock'[p] = c /\ state'[p] = "RUNNING"
      /\ \A q \in Procs : q # p => plock'[q] = plock[q] /\ state'[q] = state[q]
      /\ proc'[c] = p /\ on'[c] = p
      /\ \A d \in CPUs : d # c => proc'[d] = proc[d] /\ on'[d] = on[d]
  BY Zenon, <1>1, <1>2 DEF IInv, TypeOK
<1>7. \A d \in CPUs : proc[d] # p
  <2> SUFFICES ASSUME NEW d \in CPUs, proc[d] = p PROVE FALSE
    BY Zenon
  <2>1. CASE on[d] = 0
    BY <2>1, <1>1, <1>2 DEF IInv, CpuInv, Leaving
  <2>2. CASE on[d] # 0
    <3>1. OnStack(d, p)
      BY Zenon, <2>2, <1>2 DEF IInv, CpuInv
    <3> QED
      BY Zenon, <3>1, <1>1, <1>2 DEF OnStack, StateAt, HasPLock
  <2> QED
    BY Zenon, <2>1, <2>2
<1>8. \A d \in CPUs : on[d] # p
  BY Zenon, <1>2, <1>7, Current
<1>9. pc[p] \in {"forkret", "resume", "waking"}
  BY Zenon, <1>2, <1>8 DEF IInv, ProcInv
<1>10. OnStack(c, on[c])'
  <2>1. /\ pc[p] \in HasPLock /\ pc[p] \notin HasLk \cup {"asleep", "yield"} \cup Interruptible
        /\ Depth(pc[p]) = 1 /\ StateAt(pc[p]) = "RUNNING"
    BY Zenon, <1>9 DEF HasPLock, HasLk, Depth, StateAt, Interruptible
  <2> QED
    BY Zenon, <1>1, <1>3, <1>4, <1>6, <2>1 DEF OnStack
<1>11. ASSUME NEW d \in CPUs, d # c, on[d] # 0 PROVE OnStack(d, on[d])'
  <2>1. on[d] \in Procs /\ OnStack(d, on[d]) /\ on[d] # p
    BY Zenon, <1>11, <1>8, Current
  <2> QED
    BY <1>1, <1>4, <1>6, <1>11, <2>1 DEF OnStack
<1>12. CpuInv'
  <2> SUFFICES ASSUME NEW d \in CPUs
               PROVE  /\ proc'[d] = 0 => on'[d] = 0 /\ noff'[d] = 0 /\ lk' # d
                      /\ proc'[d] # 0 => /\ scan'[d] = proc'[d] /\ on'[d] \in {0, proc'[d]}
                                         /\ IF on'[d] = 0 THEN Leaving(d, proc[d])' ELSE OnStack(d, on[d])'
                                         /\ \A e \in CPUs : proc'[e] = proc'[d] => e = d
    BY Zenon DEF CpuInv
  <2>1. CASE d = c
    BY <2>1, <1>1, <1>2, <1>6, <1>7, <1>10 DEF p
  <2>2. CASE d # c
    <3>1. /\ proc[d] = 0 => on[d] = 0 /\ noff[d] = 0 /\ lk # d
          /\ proc[d] # 0 => /\ scan[d] = proc[d] /\ on[d] \in {0, proc[d]}
                            /\ IF on[d] = 0 THEN Leaving(d, proc[d]) ELSE OnStack(d, on[d])
                            /\ \A e \in CPUs : proc[e] = proc[d] => e = d
      BY Zenon DEF IInv, CpuInv
    <3>2. proc[d] # 0 /\ on[d] = 0 => Leaving(d, proc[d])'
      <4> SUFFICES ASSUME proc[d] # 0, on[d] = 0 PROVE Leaving(d, proc[d])'
        BY Zenon
      <4>1. proc[d] \in Procs /\ proc[d] # p /\ Leaving(d, proc[d])
        BY Zenon, <1>7, <3>1 DEF IInv, TypeOK
      <4> QED
        BY <4>1, <2>2, <1>1, <1>4, <1>6 DEF Leaving
    <3> QED
      BY <2>2, <3>1, <3>2, <1>1, <1>4, <1>6, <1>7, <1>11
  <2> QED
    BY Zenon, <2>1, <2>2
<1>13. ProcInv'
  <2> SUFFICES ASSUME NEW q \in Procs
               PROVE  /\ plock'[q] # 0 => proc'[plock'[q]] = q
                      /\ (\A d \in CPUs : on'[d] # q) =>
                           state'[q] # "RUNNING" /\ pc'[q] \in {"forkret", "resume", "waking"}
                      /\ chan'[q] <=> pc'[q] \in {"asleep", "waking"}
                      /\ state'[q] = "SLEEPING" => chan'[q]
                      /\ pc'[q] = "resume" => ~tint'[q]
                      /\ pc'[q] = "waking" => tint'[q]
    BY Zenon DEF ProcInv
  <2>1. CASE q = p
    BY <2>1, <1>1, <1>2, <1>6 DEF IInv, ProcInv
  <2>2. CASE q # p
    <3>1. plock[q] # 0 => plock[q] # c
      BY <1>1, <2>2 DEF IInv, ProcInv, Procs
    <3>2. plock[q] # 0 => plock[q] \in CPUs
      BY Zenon DEF IInv, TypeOK
    <3>3. plock'[q] # 0 => proc'[plock'[q]] = q
      BY <2>2, <3>1, <3>2, <1>6 DEF IInv, ProcInv
    <3>4. (\A d \in CPUs : on'[d] # q) => \A d \in CPUs : on[d] # q
      BY <1>1, <1>2, <1>6
    <3> QED
      BY <2>2, <3>3, <3>4, <1>1, <1>6 DEF IInv, ProcInv
  <2> QED
    BY Zenon, <2>1, <2>2
<1>14. LockInv'
  <2>1. \A q \in Procs : Pending(q) => Pending(q)'
    BY Zenon, <1>1, <1>3, <1>6, PendingFrame
  <2>2. \A q \in Procs : Holder(q)' <=> Holder(q)
    BY Zenon, <1>1 DEF Holder
  <2>3. \A q \in Procs : state'[q] = "SLEEPING" => state[q] = "SLEEPING"
    BY Zenon, <1>6
  <2> QED
    BY Zenon, <2>1, <2>2, <2>3, <1>1, LockFrame
<1> QED
  BY Zenon, <1>1, <1>5, <1>12, <1>13, <1>14 DEF IInv

\* scheduler() gives back the p->lock that the process it comes from had acquired.
LEMMA BackKeeps ==
  ASSUME IInv, NEW c \in CPUs, SchedulerBack(c)
  PROVE  IInv'
<1> DEFINE p == proc[c]
<1>1. /\ on[c] = 0 /\ p # 0 /\ p \in Procs /\ scan[c] = p /\ Leaving(c, p)
      /\ \A d \in CPUs : d # c => proc[d] # p
      /\ 0 \notin CPUs /\ 0 \notin Procs
  BY CPUsAssumption DEF SchedulerBack, IInv, CpuInv, TypeOK, Procs
<1>2. /\ plock' = [plock EXCEPT ![p] = 0] /\ proc' = [proc EXCEPT ![c] = 0]
      /\ noff' = [noff EXCEPT ![c] = @ - 1]
      /\ panicked' = (panicked \/ plock[p] # c)
      /\ UNCHANGED <<state, chan, killed, on, intena, tint, pc, ret, wk, lk, locked, pid, kills>>
  BY Zenon, <1>1 DEF SchedulerBack, lockvars
<1>3. ~panicked'
  BY Zenon, <1>1, <1>2 DEF Leaving, IInv
<1>4. \A d \in CPUs : d # c => scan'[d] = scan[d] /\ sie'[d] = sie[d]
  BY Zenon DEF SchedulerBack, IInv, TypeOK
<1>5. TypeOK'
  <2>1. NextScan(c) \in Procs
    BY SMTT(60), NPROCAssumption DEF NextScan, Procs, IInv, TypeOK
  <2>2. scan' \in [CPUs -> Procs]
    BY Zenon, <2>1 DEF SchedulerBack, IInv, TypeOK
  <2>3. sie' \in [CPUs -> BOOLEAN]
    BY Zenon DEF SchedulerBack, IInv, TypeOK
  <2>4. noff' \in [CPUs -> Nat]
    <3>1. noff[c] = 1
      BY Zenon, <1>1 DEF Leaving
    <3> QED
      BY <3>1, <1>2 DEF IInv, TypeOK
  <2>5. plock' \in [Procs -> CPUs \cup {0}] /\ proc' \in [CPUs -> Procs \cup {0}]
    BY Zenon, <1>2 DEF IInv, TypeOK
  <2> QED
    BY Zenon, <1>2, <1>3, <2>2, <2>3, <2>4, <2>5 DEF IInv, TypeOK
<1> HIDE DEF p
<1>6. /\ plock'[p] = 0 /\ \A q \in Procs : q # p => plock'[q] = plock[q]
      /\ proc'[c] = 0 /\ noff'[c] = 0
      /\ \A d \in CPUs : d # c => proc'[d] = proc[d] /\ noff'[d] = noff[d]
  BY SMTT(60), <1>1, <1>2 DEF IInv, TypeOK, Leaving
<1>7. ASSUME NEW d \in CPUs, d # c, on[d] # 0 PROVE OnStack(d, on[d])'
  <2>1. on[d] \in Procs /\ OnStack(d, on[d]) /\ on[d] # p
    BY Zenon, <1>1, <1>7, Current
  <2> QED
    BY <1>2, <1>4, <1>6, <1>7, <2>1 DEF OnStack
<1>8. ASSUME NEW d \in CPUs, d # c, proc[d] # 0, on[d] = 0 PROVE Leaving(d, proc[d])'
  <2>1. proc[d] \in Procs /\ proc[d] # p /\ Leaving(d, proc[d])
    BY Zenon, <1>1, <1>8 DEF IInv, CpuInv, TypeOK
  <2> QED
    BY Zenon, <2>1, <1>2, <1>6, <1>8 DEF Leaving
<1>9. CpuInv'
  <2> SUFFICES ASSUME NEW d \in CPUs
               PROVE  /\ proc'[d] = 0 => on'[d] = 0 /\ noff'[d] = 0 /\ lk' # d
                      /\ proc'[d] # 0 => /\ scan'[d] = proc'[d] /\ on'[d] \in {0, proc'[d]}
                                         /\ IF on'[d] = 0 THEN Leaving(d, proc[d])' ELSE OnStack(d, on[d])'
                                         /\ \A e \in CPUs : proc'[e] = proc'[d] => e = d
    BY Zenon DEF CpuInv
  <2>1. CASE d = c
    BY Zenon, <2>1, <1>1, <1>2, <1>6 DEF Leaving
  <2>2. CASE d # c
    <3>1. /\ proc[d] = 0 => on[d] = 0 /\ noff[d] = 0 /\ lk # d
          /\ proc[d] # 0 => /\ scan[d] = proc[d] /\ on[d] \in {0, proc[d]}
                            /\ \A e \in CPUs : proc[e] = proc[d] => e = d
      BY Zenon DEF IInv, CpuInv
    <3> QED
      BY Zenon, <2>2, <3>1, <1>2, <1>4, <1>6, <1>7, <1>8
  <2> QED
    BY Zenon, <2>1, <2>2
<1>10. ProcInv'
  <2>1. \A q \in Procs : q # p /\ plock[q] # 0 => plock[q] # c /\ plock[q] \in CPUs
    BY DEF IInv, ProcInv, TypeOK, p
  <2> QED
    BY <2>1, <1>1, <1>2, <1>6 DEF IInv, ProcInv
<1>11. LockInv'
  BY Zenon, <1>2 DEF IInv, LockInv, SleepMutex, Holder, Pending
<1> QED
  BY Zenon, <1>3, <1>5, <1>9, <1>10, <1>11 DEF IInv

-----------------------------------------------------------------------------
(* sched(): the process leaves the CPU.                                    *)

\* sched() finds nothing to panic about and leaves p->lock to the scheduler.
LEMMA SchedKeeps ==
  ASSUME IInv, NEW c \in CPUs, NEW from, NEW to, sched(c, from, to),
         (from = "yield" /\ to = "resume") \/ (from = "asleep" /\ to = "waking")
  PROVE  IInv'
<1> DEFINE p == on[c]
<1>1. /\ p # 0 /\ pc[p] = from
      /\ panicked' = (panicked \/ SchedPanics(c, p))
      /\ tint' = [tint EXCEPT ![p] = intena[c]]
      /\ on' = [on EXCEPT ![c] = 0] /\ pc' = [pc EXCEPT ![p] = to]
      /\ UNCHANGED <<state, chan, killed, plock, proc, scan, noff, intena, sie, ret, wk, lk,
                     locked, pid, kills>>
  BY Zenon DEF sched, At, Goto, intrvars, lockvars
<1>2. /\ p \in Procs /\ proc[c] = p /\ scan[c] = p /\ OnStack(c, p)
      /\ \A d \in CPUs : d # c => on[d] # p /\ proc[d] # p
      /\ 0 \notin Procs /\ 0 \notin CPUs
  BY <1>1, Current, CPUsAssumption DEF Procs
<1>3. /\ plock[p] = c /\ noff[c] = 1 /\ ~sie[c] /\ lk # c
      /\ from = "yield" => state[p] = "RUNNABLE" /\ ~intena[c]
      /\ from = "asleep" => state[p] = "SLEEPING" /\ intena[c]
  BY Zenon, <1>1, <1>2 DEF OnStack, HasPLock, HasLk, Depth, StateAt, Interruptible
<1>4. ~panicked'
  BY Zenon, <1>1, <1>3 DEF SchedPanics, IInv
<1>5. TypeOK'
  <2>1. to \in PCs
    BY Zenon DEF PCs
  <2> QED
    BY Zenon, <1>1, <1>2, <1>4, <2>1 DEF IInv, TypeOK
<1> HIDE DEF p
<1>6. /\ on'[c] = 0 /\ \A d \in CPUs : d # c => on'[d] = on[d]
      /\ pc'[p] = to /\ tint'[p] = intena[c]
      /\ \A q \in Procs : q # p => pc'[q] = pc[q] /\ tint'[q] = tint[q]
  BY Zenon, <1>1, <1>2 DEF IInv, TypeOK
<1>7. ASSUME NEW d \in CPUs, d # c, on[d] # 0 PROVE OnStack(d, on[d])'
  <2>1. on[d] \in Procs /\ OnStack(d, on[d]) /\ on[d] # p
    BY Zenon, <1>2, <1>7, Current
  <2> QED
    BY <1>1, <1>6, <1>7, <2>1 DEF OnStack
<1>8. ASSUME NEW d \in CPUs, d # c, proc[d] # 0, on[d] = 0 PROVE Leaving(d, proc[d])'
  <2>1. proc[d] \in Procs /\ proc[d] # p /\ Leaving(d, proc[d])
    BY Zenon, <1>2, <1>8 DEF IInv, CpuInv, TypeOK
  <2> QED
    BY Zenon, <2>1, <1>1, <1>6, <1>8 DEF Leaving
<1>9. Leaving(c, proc[c])'
  BY Zenon, <1>1, <1>2, <1>3, <1>6 DEF Leaving
<1>10. CpuInv'
  <2> SUFFICES ASSUME NEW d \in CPUs
               PROVE  /\ proc'[d] = 0 => on'[d] = 0 /\ noff'[d] = 0 /\ lk' # d
                      /\ proc'[d] # 0 => /\ scan'[d] = proc'[d] /\ on'[d] \in {0, proc'[d]}
                                         /\ IF on'[d] = 0 THEN Leaving(d, proc[d])' ELSE OnStack(d, on[d])'
                                         /\ \A e \in CPUs : proc'[e] = proc'[d] => e = d
    BY Zenon DEF CpuInv
  <2>1. /\ proc[d] = 0 => on[d] = 0 /\ noff[d] = 0 /\ lk # d
        /\ proc[d] # 0 => /\ scan[d] = proc[d] /\ on[d] \in {0, proc[d]}
                          /\ \A e \in CPUs : proc[e] = proc[d] => e = d
    BY Zenon DEF IInv, CpuInv
  <2>2. CASE d = c
    BY Zenon, <2>1, <2>2, <1>1, <1>2, <1>6, <1>9
  <2>3. CASE d # c
    BY Zenon, <2>1, <2>3, <1>1, <1>6, <1>7, <1>8
  <2> QED
    BY Zenon, <2>2, <2>3
<1>11. ProcInv'
  <2> SUFFICES ASSUME NEW q \in Procs
               PROVE  /\ plock'[q] # 0 => proc'[plock'[q]] = q
                      /\ (\A d \in CPUs : on'[d] # q) =>
                           state'[q] # "RUNNING" /\ pc'[q] \in {"forkret", "resume", "waking"}
                      /\ chan'[q] <=> pc'[q] \in {"asleep", "waking"}
                      /\ state'[q] = "SLEEPING" => chan'[q]
                      /\ pc'[q] = "resume" => ~tint'[q]
                      /\ pc'[q] = "waking" => tint'[q]
    BY Zenon DEF ProcInv
  <2>1. CASE q = p
    BY Zenon, <2>1, <1>1, <1>2, <1>3, <1>6 DEF IInv, ProcInv
  <2>2. CASE q # p
    <3>1. (\A d \in CPUs : on'[d] # q) => \A d \in CPUs : on[d] # q
      BY Zenon, <2>2, <1>6 DEF p
    <3> QED
      BY <2>2, <3>1, <1>1, <1>6 DEF IInv, ProcInv
  <2> QED
    BY Zenon, <2>1, <2>2
<1>12. LockInv'
  <2>1. \A q \in Procs : Pending(q) => Pending(q)'
    BY Zenon, <1>1, <1>3, <1>6, PendingFrame DEF p
  <2>2. \A q \in Procs : Holder(q)' <=> Holder(q)
    BY Zenon, <1>1, <1>2, <1>6 DEF Holder
  <2>3. \A q \in Procs : pc'[q] = "sleep" => pc[q] = "sleep"
    BY Zenon, <1>6
  <2> QED
    BY Zenon, <1>1, <2>1, <2>2, <2>3, LockFrame
<1> QED
  BY Zenon, <1>4, <1>5, <1>10, <1>11, <1>12 DEF IInv





-----------------------------------------------------------------------------
(* The steps of a process on its CPU.                                      *)

\* Goto changes the label of one process.
LEMMA Moved ==
  ASSUME TypeOK, NEW p \in Procs, NEW l \in PCs, Goto(p, l)
  PROVE  /\ pc' \in [Procs -> PCs] /\ pc'[p] = l
         /\ \A q \in Procs : q # p => pc'[q] = pc[q]
  BY Zenon DEF TypeOK, Goto

\* The process on CPU c does nothing to the sleep lock.
LEMMA LockIdle ==
  ASSUME IInv, NEW c \in CPUs, on[c] # 0, lk # c, UNCHANGED <<on, lk, locked, pid>>,
         \A q \in Procs : q # on[c] => pc'[q] = pc[q] /\ wk'[q] = wk[q] /\ ret'[q] = ret[q],
         Holder(on[c])' <=> Holder(on[c]), pc'[on[c]] # "sleep",
         \A q \in Procs : state'[q] = "SLEEPING" => state[q] = "SLEEPING"
  PROVE  LockInv'
<1>1. \A q \in Procs : Pending(q) => Pending(q)'
  BY Zenon, PendingFrame
<1>2. \A q \in Procs : Holder(q)' <=> Holder(q)
  BY Zenon DEF Holder
<1> QED
  BY Zenon, <1>1, <1>2, LockFrame

\* The process on CPU c acquires the free spin lock of the sleep lock.
LEMMA LockTaken ==
  ASSUME IInv, NEW c \in CPUs, on[c] # 0, lk = 0, UNCHANGED <<on, locked, pid, state>>,
         \A q \in Procs : q # on[c] => pc'[q] = pc[q] /\ ret'[q] = ret[q],
         Holder(on[c])' <=> Holder(on[c]), pc'[on[c]] # "sleep"
  PROVE  LockInv'
<1>1. ~locked => \A q \in Procs : state[q] # "SLEEPING"
  BY Zenon DEF IInv, LockInv, Pending
<1>2. \A q \in Procs : Holder(q)' <=> Holder(q)
  BY Zenon DEF Holder
<1> QED
  BY Zenon, <1>1, <1>2, LockFrame

\* forkret() releases the p->lock that scheduler() acquired.
LEMMA ForkRetKeeps ==
  ASSUME IInv, NEW c \in CPUs, ForkRet(c)
  PROVE  IInv'
<1> DEFINE p == on[c]
<1>1. /\ p # 0 /\ pc[p] = "forkret"
      /\ panicked' = (panicked \/ plock[p] # c)
      /\ plock' = [plock EXCEPT ![p] = 0]
      /\ noff' = [noff EXCEPT ![c] = @ - 1]
      /\ sie' = [sie EXCEPT ![c] = TRUE]
      /\ Goto(p, "idle")
      /\ UNCHANGED <<state, chan, killed, proc, on, scan, intena, tint, ret, wk, lk, locked, pid, kills>>
  BY Zenon DEF ForkRet, At, cpuvars, intrvars, lockvars
<1>2. p \in Procs /\ OnStack(c, p) /\ 0 \notin CPUs
  BY Zenon, <1>1, Current, CPUsAssumption
<1>3. /\ plock[p] = c /\ noff[c] = 1 /\ lk # c /\ state[p] = "RUNNING"
      /\ ~panicked'
  <2>1. plock[p] = c /\ noff[c] = 1 /\ lk # c /\ state[p] = "RUNNING"
    BY Zenon, <1>1, <1>2 DEF OnStack, HasPLock, HasLk, Depth, StateAt, Interruptible
  <2> QED
    BY Zenon, <1>1, <1>2, <2>1 DEF IInv, TypeOK, ProcInv
<1>4. /\ pc' \in [Procs -> PCs] /\ pc'[p] = "idle"
      /\ \A q \in Procs : q # p => pc'[q] = pc[q]
  BY Zenon, <1>1, <1>2, Moved DEF PCs, IInv
<1>5. /\ noff' \in [CPUs -> Nat] /\ intena' \in [CPUs -> BOOLEAN] /\ sie' \in [CPUs -> BOOLEAN]
      /\ noff'[c] = 0 /\ sie'[c]
      /\ \A d \in CPUs : d # c => noff'[d] = noff[d] /\ intena'[d] = intena[d] /\ sie'[d] = sie[d]
  BY <1>1, <1>3 DEF IInv, TypeOK
<1>6. TypeOK'
  BY Zenon, <1>1, <1>2, <1>3, <1>4, <1>5 DEF IInv, TypeOK
<1>7. /\ plock'[p] = 0
      /\ \A q \in Procs : q # p => plock'[q] = plock[q]
  BY Zenon, <1>1, <1>2 DEF IInv, TypeOK
<1> HIDE DEF p
<1>8. OnStack(c, on[c])'
  BY Zenon, <1>1, <1>2, <1>3, <1>4, <1>5, <1>7 DEF OnStack, HasPLock, HasLk, Depth, StateAt, Interruptible, p
<1>9. Local(c, p)
  BY <1>1, <1>2, <1>3, <1>4, <1>5, <1>7 DEF Local, IInv, ProcInv
<1>10. LockInv'
  <2>1. Holder(on[c])' <=> Holder(on[c])
    BY Zenon, <1>1, <1>3, <1>4, <1>7 DEF Holder, p
  <2> QED
    BY Zenon, <1>1, <1>2, <1>3, <1>4, <1>7, <2>1, LockIdle DEF p
<1> QED
  BY Zenon, <1>1, <1>3, <1>6, <1>8, <1>9, <1>10, LocalKeeps DEF IInv, p

\* A timer interrupt is taken only where no spin lock is held.
LEMMA TimerKeeps ==
  ASSUME IInv, NEW c \in CPUs, Timer(c)
  PROVE  IInv'
<1> DEFINE p == on[c]
<1>1. /\ p # 0 /\ pc[p] \in Interruptible
      /\ sie' = [sie EXCEPT ![c] = FALSE]
      /\ ret' = [ret EXCEPT ![p] = pc[p]]
      /\ Goto(p, "timer")
      /\ UNCHANGED <<state, chan, killed, plock, proc, on, scan, noff, intena, tint, wk, lk,
                     locked, pid, kills, panicked>>
  BY Zenon DEF Timer, At, cpuvars, intrvars, lockvars
<1>2. p \in Procs /\ OnStack(c, p) /\ 0 \notin CPUs
  BY Zenon, <1>1, Current, CPUsAssumption
<1>3. plock[p] = 0 /\ noff[c] = 0 /\ lk # c /\ state[p] = "RUNNING"
  BY Zenon, <1>1, <1>2 DEF OnStack, HasPLock, HasLk, Depth, StateAt, Interruptible
<1>4. /\ pc' \in [Procs -> PCs] /\ pc'[p] = "timer"
      /\ \A q \in Procs : q # p => pc'[q] = pc[q]
  BY Zenon, <1>1, <1>2, Moved DEF PCs, IInv
<1>5. /\ sie' \in [CPUs -> BOOLEAN] /\ ~sie'[c]
      /\ \A d \in CPUs : d # c => sie'[d] = sie[d]
  BY Zenon, <1>1, <1>3 DEF IInv, TypeOK
<1>6. TypeOK'
  BY Zenon, <1>1, <1>2, <1>3, <1>4, <1>5 DEF IInv, TypeOK
<1>7. /\ ret'[p] = pc[p]
      /\ \A q \in Procs : q # p => ret'[q] = ret[q]
  BY Zenon, <1>1, <1>2 DEF IInv, TypeOK
<1> HIDE DEF p
<1>8. OnStack(c, on[c])'
  BY Zenon, <1>1, <1>2, <1>3, <1>4, <1>5, <1>7 DEF OnStack, HasPLock, HasLk, Depth, StateAt, Interruptible, p
<1>9. Local(c, p)
  BY Zenon, <1>1, <1>2, <1>3, <1>4, <1>5, <1>7 DEF Local, IInv, ProcInv, Interruptible
<1>10. LockInv'
  <2>1. Holder(on[c])' <=> Holder(on[c])
    BY Zenon, <1>1, <1>3, <1>4, <1>7 DEF Holder, Interruptible, p
  <2> QED
    BY Zenon, <1>1, <1>2, <1>3, <1>4, <1>7, <2>1, LockIdle DEF p
<1> QED
  BY Zenon, <1>1, <1>3, <1>6, <1>8, <1>9, <1>10, LocalKeeps DEF IInv, p

\* yield() makes p RUNNABLE with p->lock held.
LEMMA yieldKeeps ==
  ASSUME IInv, NEW c \in CPUs, yield(c)
  PROVE  IInv'
<1> DEFINE p == on[c]
<1>1. /\ p # 0 /\ pc[p] = "timer"
      /\ plock[p] = 0 /\ plock' = [plock EXCEPT ![p] = c]
      /\ push_off(c)
      /\ state' = [state EXCEPT ![p] = "RUNNABLE"]
      /\ Goto(p, "yield")
      /\ UNCHANGED <<chan, killed, proc, on, scan, tint, ret, wk, lk, locked, pid, kills, panicked>>
  BY Zenon DEF yield, At, cpuvars, intrvars, lockvars
<1>2. p \in Procs /\ OnStack(c, p) /\ 0 \notin CPUs
  BY Zenon, <1>1, Current, CPUsAssumption
<1>3. noff[c] = 0 /\ ~sie[c] /\ lk # c
  BY Zenon, <1>1, <1>2 DEF OnStack, HasPLock, HasLk, Depth, StateAt, Interruptible
<1>4. /\ pc' \in [Procs -> PCs] /\ pc'[p] = "yield"
      /\ \A q \in Procs : q # p => pc'[q] = pc[q]
  BY Zenon, <1>1, <1>2, Moved DEF PCs, IInv
<1>5. /\ noff' \in [CPUs -> Nat] /\ intena' \in [CPUs -> BOOLEAN] /\ sie' \in [CPUs -> BOOLEAN]
      /\ noff'[c] = noff[c] + 1 /\ ~sie'[c]
      /\ noff[c] = 0 => (intena'[c] <=> sie[c])
      /\ noff[c] # 0 => (intena'[c] <=> intena[c])
      /\ \A d \in CPUs : d # c => noff'[d] = noff[d] /\ intena'[d] = intena[d] /\ sie'[d] = sie[d]
  BY Zenon, <1>1, PushOff DEF IInv
<1>6. TypeOK'
  BY Zenon, <1>1, <1>2, <1>3, <1>4, <1>5 DEF IInv, TypeOK
<1>7. /\ plock'[p] = c /\ state'[p] = "RUNNABLE"
      /\ \A q \in Procs : q # p => plock'[q] = plock[q] /\ state'[q] = state[q]
  BY Zenon, <1>1, <1>2 DEF IInv, TypeOK
<1> HIDE DEF p
<1>8. OnStack(c, on[c])'
  BY <1>1, <1>2, <1>3, <1>4, <1>5, <1>7 DEF OnStack, HasPLock, HasLk, Depth, StateAt, Interruptible, p
<1>9. Local(c, p)
  BY Zenon, <1>1, <1>2, <1>3, <1>4, <1>5, <1>7 DEF Local, IInv, ProcInv
<1>10. LockInv'
  <2>1. Holder(on[c])' <=> Holder(on[c])
    BY Zenon, <1>1, <1>3, <1>4, <1>7 DEF Holder, p
  <2> QED
    BY Zenon, <1>1, <1>2, <1>3, <1>4, <1>7, <2>1, LockIdle DEF p
<1> QED
  BY Zenon, <1>1, <1>3, <1>6, <1>8, <1>9, <1>10, LocalKeeps DEF IInv, p

\* The end of yield() leaves interrupts off, as the trap handler had them.
LEMMA YieldReturnKeeps ==
  ASSUME IInv, NEW c \in CPUs, YieldReturn(c)
  PROVE  IInv'
<1> DEFINE p == on[c]
<1>1. /\ p # 0 /\ pc[p] = "resume"
      /\ panicked' = (panicked \/ plock[p] # c)
      /\ plock' = [plock EXCEPT ![p] = 0]
      /\ noff' = [noff EXCEPT ![c] = @ - 1]
      /\ intena' = [intena EXCEPT ![c] = tint[p]]
      /\ sie' = [sie EXCEPT ![c] = (noff[c] = 1 /\ tint[p])]
      /\ Goto(p, "trapret")
      /\ UNCHANGED <<state, chan, killed, proc, on, scan, tint, ret, wk, lk, locked, pid, kills>>
  BY Zenon DEF YieldReturn, At, cpuvars, intrvars, lockvars, resume
<1>2. p \in Procs /\ OnStack(c, p) /\ 0 \notin CPUs
  BY Zenon, <1>1, Current, CPUsAssumption
<1>3. /\ plock[p] = c /\ noff[c] = 1 /\ lk # c /\ state[p] = "RUNNING"
      /\ ~panicked'
      /\ ~tint[p]
  <2>1. plock[p] = c /\ noff[c] = 1 /\ lk # c /\ state[p] = "RUNNING"
    BY Zenon, <1>1, <1>2 DEF OnStack, HasPLock, HasLk, Depth, StateAt, Interruptible
  <2> QED
    BY Zenon, <1>1, <1>2, <2>1 DEF IInv, TypeOK, ProcInv
<1>4. /\ pc' \in [Procs -> PCs] /\ pc'[p] = "trapret"
      /\ \A q \in Procs : q # p => pc'[q] = pc[q]
  BY Zenon, <1>1, <1>2, Moved DEF PCs, IInv
<1>5. /\ noff' \in [CPUs -> Nat] /\ intena' \in [CPUs -> BOOLEAN] /\ sie' \in [CPUs -> BOOLEAN]
      /\ noff'[c] = 0 /\ ~sie'[c]
      /\ \A d \in CPUs : d # c => noff'[d] = noff[d] /\ intena'[d] = intena[d] /\ sie'[d] = sie[d]
  BY <1>1, <1>3 DEF IInv, TypeOK
<1>6. TypeOK'
  BY Zenon, <1>1, <1>2, <1>3, <1>4, <1>5 DEF IInv, TypeOK
<1>7. /\ plock'[p] = 0
      /\ \A q \in Procs : q # p => plock'[q] = plock[q]
  BY Zenon, <1>1, <1>2 DEF IInv, TypeOK
<1> HIDE DEF p
<1>8. OnStack(c, on[c])'
  BY Zenon, <1>1, <1>2, <1>3, <1>4, <1>5, <1>7 DEF OnStack, HasPLock, HasLk, Depth, StateAt, Interruptible, p
<1>9. Local(c, p)
  BY <1>1, <1>2, <1>3, <1>4, <1>5, <1>7 DEF Local, IInv, ProcInv
<1>10. LockInv'
  <2>1. Holder(on[c])' <=> Holder(on[c])
    BY Zenon, <1>1, <1>3, <1>4, <1>7 DEF Holder, p
  <2> QED
    BY Zenon, <1>1, <1>2, <1>3, <1>4, <1>7, <2>1, LockIdle DEF p
<1> QED
  BY Zenon, <1>1, <1>3, <1>6, <1>8, <1>9, <1>10, LocalKeeps DEF IInv, p

\* The trap returns to where interrupts were enabled.
LEMMA TrapReturnKeeps ==
  ASSUME IInv, NEW c \in CPUs, TrapReturn(c)
  PROVE  IInv'
<1> DEFINE p == on[c]
<1>1. /\ p # 0 /\ pc[p] = "trapret"
      /\ sie' = [sie EXCEPT ![c] = TRUE]
      /\ Goto(p, ret[p])
      /\ UNCHANGED <<state, chan, killed, plock, proc, on, scan, noff, intena, tint, ret, wk, lk,
                     locked, pid, kills, panicked>>
  BY Zenon DEF TrapReturn, At, cpuvars, intrvars, lockvars
<1>2. p \in Procs /\ OnStack(c, p) /\ 0 \notin CPUs
  BY Zenon, <1>1, Current, CPUsAssumption
<1>3. /\ plock[p] = 0 /\ noff[c] = 0 /\ lk # c /\ state[p] = "RUNNING"
      /\ ret[p] \in Interruptible
  <2>1. plock[p] = 0 /\ noff[c] = 0 /\ lk # c /\ state[p] = "RUNNING"
    BY Zenon, <1>1, <1>2 DEF OnStack, HasPLock, HasLk, Depth, StateAt, Interruptible
  <2> QED
    BY Zenon, <1>1, <1>2, <2>1 DEF IInv, TypeOK, ProcInv
<1>4. /\ pc' \in [Procs -> PCs] /\ pc'[p] = ret[p]
      /\ \A q \in Procs : q # p => pc'[q] = pc[q]
  BY Zenon, <1>1, <1>2, <1>3, Moved DEF PCs, Interruptible, IInv
<1>5. /\ sie' \in [CPUs -> BOOLEAN] /\ sie'[c]
      /\ \A d \in CPUs : d # c => sie'[d] = sie[d]
  BY Zenon, <1>1, <1>3 DEF IInv, TypeOK
<1>6. TypeOK'
  BY Zenon, <1>1, <1>2, <1>3, <1>4, <1>5 DEF IInv, TypeOK
<1> HIDE DEF p
<1>7. OnStack(c, on[c])'
  BY Zenon, <1>1, <1>2, <1>3, <1>4, <1>5 DEF OnStack, HasPLock, HasLk, Depth, StateAt, Interruptible, p
<1>8. Local(c, p)
  BY Zenon, <1>1, <1>2, <1>3, <1>4, <1>5 DEF Local, IInv, ProcInv, Interruptible
<1>9. LockInv'
  <2>1. Holder(on[c])' <=> Holder(on[c])
    BY Zenon, <1>1, <1>3, <1>4 DEF Holder, Interruptible, p
  <2> QED
    BY Zenon, <1>1, <1>2, <1>3, <1>4, <2>1, LockIdle DEF Interruptible, p
<1> QED
  BY Zenon, <1>1, <1>3, <1>6, <1>7, <1>8, <1>9, LocalKeeps DEF IInv, p

-----------------------------------------------------------------------------
(* Sleeping, waking and killing.                                           *)

\* The end of sleep() leaves interrupts enabled, as its caller had them.
LEMMA SleepWakeKeeps ==
  ASSUME IInv, NEW c \in CPUs, SleepWake(c)
  PROVE  IInv'
<1> DEFINE p == on[c]
<1>1. /\ p # 0 /\ pc[p] = "waking"
      /\ panicked' = (panicked \/ plock[p] # c)
      /\ plock' = [plock EXCEPT ![p] = 0]
      /\ noff' = [noff EXCEPT ![c] = @ - 1]
      /\ intena' = [intena EXCEPT ![c] = tint[p]]
      /\ sie' = [sie EXCEPT ![c] = (noff[c] = 1 /\ tint[p])]
      /\ chan' = [chan EXCEPT ![p] = FALSE]
      /\ Goto(p, "relock")
      /\ UNCHANGED <<state, killed, proc, on, scan, tint, ret, wk, lk, locked, pid, kills>>
  BY Zenon DEF SleepWake, At, cpuvars, intrvars, lockvars, resume
<1>2. p \in Procs /\ OnStack(c, p) /\ 0 \notin CPUs
  BY Zenon, <1>1, Current, CPUsAssumption
<1>3. /\ plock[p] = c /\ noff[c] = 1 /\ lk # c /\ state[p] = "RUNNING"
      /\ ~panicked'
      /\ tint[p]
  <2>1. plock[p] = c /\ noff[c] = 1 /\ lk # c /\ state[p] = "RUNNING"
    BY Zenon, <1>1, <1>2 DEF OnStack, HasPLock, HasLk, Depth, StateAt, Interruptible
  <2> QED
    BY Zenon, <1>1, <1>2, <2>1 DEF IInv, TypeOK, ProcInv
<1>4. /\ pc' \in [Procs -> PCs] /\ pc'[p] = "relock"
      /\ \A q \in Procs : q # p => pc'[q] = pc[q]
  BY Zenon, <1>1, <1>2, Moved DEF PCs, IInv
<1>5. /\ noff' \in [CPUs -> Nat] /\ intena' \in [CPUs -> BOOLEAN] /\ sie' \in [CPUs -> BOOLEAN]
      /\ noff'[c] = 0 /\ sie'[c]
      /\ \A d \in CPUs : d # c => noff'[d] = noff[d] /\ intena'[d] = intena[d] /\ sie'[d] = sie[d]
  BY <1>1, <1>3 DEF IInv, TypeOK
<1>6. TypeOK'
  BY Zenon, <1>1, <1>2, <1>3, <1>4, <1>5 DEF IInv, TypeOK
<1>7. /\ plock'[p] = 0 /\ ~chan'[p]
      /\ \A q \in Procs : q # p => plock'[q] = plock[q] /\ chan'[q] = chan[q]
  BY Zenon, <1>1, <1>2 DEF IInv, TypeOK
<1> HIDE DEF p
<1>8. OnStack(c, on[c])'
  BY Zenon, <1>1, <1>2, <1>3, <1>4, <1>5, <1>7 DEF OnStack, HasPLock, HasLk, Depth, StateAt, Interruptible, p
<1>9. Local(c, p)
  BY <1>1, <1>2, <1>3, <1>4, <1>5, <1>7 DEF Local, IInv, ProcInv
<1>10. LockInv'
  <2>1. Holder(on[c])' <=> Holder(on[c])
    BY Zenon, <1>1, <1>3, <1>4, <1>7 DEF Holder, p
  <2> QED
    BY Zenon, <1>1, <1>2, <1>3, <1>4, <1>7, <2>1, LockIdle DEF p
<1> QED
  BY Zenon, <1>1, <1>3, <1>6, <1>8, <1>9, <1>10, LocalKeeps DEF IInv, p

\* acquiresleep() acquires lk->lk.
LEMMA AcquireSleepKeeps ==
  ASSUME IInv, NEW c \in CPUs, AcquireSleep(c)
  PROVE  IInv'
<1> DEFINE p == on[c]
<1>1. /\ p # 0 /\ pc[p] = "idle"
      /\ lk = 0 /\ lk' = c
      /\ push_off(c)
      /\ Goto(p, "test")
      /\ UNCHANGED <<state, chan, killed, plock, proc, on, scan, tint, ret, wk, locked, pid, kills,
                     panicked>>
  BY Zenon DEF AcquireSleep, At, cpuvars, intrvars, lockvars
<1>2. p \in Procs /\ OnStack(c, p) /\ 0 \notin CPUs
  BY Zenon, <1>1, Current, CPUsAssumption
<1>3. plock[p] = 0 /\ noff[c] = 0 /\ sie[c] /\ state[p] = "RUNNING"
  BY Zenon, <1>1, <1>2 DEF OnStack, HasPLock, HasLk, Depth, StateAt, Interruptible
<1>4. /\ pc' \in [Procs -> PCs] /\ pc'[p] = "test"
      /\ \A q \in Procs : q # p => pc'[q] = pc[q]
  BY Zenon, <1>1, <1>2, Moved DEF PCs, IInv
<1>5. /\ noff' \in [CPUs -> Nat] /\ intena' \in [CPUs -> BOOLEAN] /\ sie' \in [CPUs -> BOOLEAN]
      /\ noff'[c] = noff[c] + 1 /\ ~sie'[c]
      /\ noff[c] = 0 => (intena'[c] <=> sie[c])
      /\ noff[c] # 0 => (intena'[c] <=> intena[c])
      /\ \A d \in CPUs : d # c => noff'[d] = noff[d] /\ intena'[d] = intena[d] /\ sie'[d] = sie[d]
  BY Zenon, <1>1, PushOff DEF IInv
<1>6. TypeOK'
  BY Zenon, <1>1, <1>2, <1>3, <1>4, <1>5 DEF IInv, TypeOK
<1> HIDE DEF p
<1>7. OnStack(c, on[c])'
  BY <1>1, <1>2, <1>3, <1>4, <1>5 DEF OnStack, HasPLock, HasLk, Depth, StateAt, Interruptible, p
<1>8. Local(c, p)
  BY Zenon, <1>1, <1>2, <1>3, <1>4, <1>5 DEF Local, IInv, ProcInv
<1>9. LockInv'
  <2>1. Holder(on[c])' <=> Holder(on[c])
    BY Zenon, <1>1, <1>4 DEF Holder, p
  <2> QED
    BY Zenon, <1>1, <1>4, <2>1, LockTaken DEF p
<1> QED
  BY Zenon, <1>1, <1>3, <1>6, <1>7, <1>8, <1>9, LocalKeeps DEF IInv, p

\* sleep() acquires lk->lk again before it returns.
LEMMA SleepReturnKeeps ==
  ASSUME IInv, NEW c \in CPUs, SleepReturn(c)
  PROVE  IInv'
<1> DEFINE p == on[c]
<1>1. /\ p # 0 /\ pc[p] = "relock"
      /\ lk = 0 /\ lk' = c
      /\ push_off(c)
      /\ Goto(p, "test")
      /\ UNCHANGED <<state, chan, killed, plock, proc, on, scan, tint, ret, wk, locked, pid, kills,
                     panicked>>
  BY Zenon DEF SleepReturn, At, cpuvars, intrvars, lockvars
<1>2. p \in Procs /\ OnStack(c, p) /\ 0 \notin CPUs
  BY Zenon, <1>1, Current, CPUsAssumption
<1>3. plock[p] = 0 /\ noff[c] = 0 /\ sie[c] /\ state[p] = "RUNNING"
  BY Zenon, <1>1, <1>2 DEF OnStack, HasPLock, HasLk, Depth, StateAt, Interruptible
<1>4. /\ pc' \in [Procs -> PCs] /\ pc'[p] = "test"
      /\ \A q \in Procs : q # p => pc'[q] = pc[q]
  BY Zenon, <1>1, <1>2, Moved DEF PCs, IInv
<1>5. /\ noff' \in [CPUs -> Nat] /\ intena' \in [CPUs -> BOOLEAN] /\ sie' \in [CPUs -> BOOLEAN]
      /\ noff'[c] = noff[c] + 1 /\ ~sie'[c]
      /\ noff[c] = 0 => (intena'[c] <=> sie[c])
      /\ noff[c] # 0 => (intena'[c] <=> intena[c])
      /\ \A d \in CPUs : d # c => noff'[d] = noff[d] /\ intena'[d] = intena[d] /\ sie'[d] = sie[d]
  BY Zenon, <1>1, PushOff DEF IInv
<1>6. TypeOK'
  BY Zenon, <1>1, <1>2, <1>3, <1>4, <1>5 DEF IInv, TypeOK
<1> HIDE DEF p
<1>7. OnStack(c, on[c])'
  BY <1>1, <1>2, <1>3, <1>4, <1>5 DEF OnStack, HasPLock, HasLk, Depth, StateAt, Interruptible, p
<1>8. Local(c, p)
  BY Zenon, <1>1, <1>2, <1>3, <1>4, <1>5 DEF Local, IInv, ProcInv
<1>9. LockInv'
  <2>1. Holder(on[c])' <=> Holder(on[c])
    BY Zenon, <1>1, <1>4 DEF Holder, p
  <2> QED
    BY Zenon, <1>1, <1>4, <2>1, LockTaken DEF p
<1> QED
  BY Zenon, <1>1, <1>3, <1>6, <1>7, <1>8, <1>9, LocalKeeps DEF IInv, p

\* releasesleep() acquires lk->lk.
LEMMA ReleaseSleepKeeps ==
  ASSUME IInv, NEW c \in CPUs, ReleaseSleep(c)
  PROVE  IInv'
<1> DEFINE p == on[c]
<1>1. /\ p # 0 /\ pc[p] = "cs"
      /\ lk = 0 /\ lk' = c
      /\ push_off(c)
      /\ Goto(p, "clear")
      /\ UNCHANGED <<state, chan, killed, plock, proc, on, scan, tint, ret, wk, locked, pid, kills,
                     panicked>>
  BY Zenon DEF ReleaseSleep, At, cpuvars, intrvars, lockvars
<1>2. p \in Procs /\ OnStack(c, p) /\ 0 \notin CPUs
  BY Zenon, <1>1, Current, CPUsAssumption
<1>3. plock[p] = 0 /\ noff[c] = 0 /\ sie[c] /\ state[p] = "RUNNING"
  BY Zenon, <1>1, <1>2 DEF OnStack, HasPLock, HasLk, Depth, StateAt, Interruptible
<1>4. /\ pc' \in [Procs -> PCs] /\ pc'[p] = "clear"
      /\ \A q \in Procs : q # p => pc'[q] = pc[q]
  BY Zenon, <1>1, <1>2, Moved DEF PCs, IInv
<1>5. /\ noff' \in [CPUs -> Nat] /\ intena' \in [CPUs -> BOOLEAN] /\ sie' \in [CPUs -> BOOLEAN]
      /\ noff'[c] = noff[c] + 1 /\ ~sie'[c]
      /\ noff[c] = 0 => (intena'[c] <=> sie[c])
      /\ noff[c] # 0 => (intena'[c] <=> intena[c])
      /\ \A d \in CPUs : d # c => noff'[d] = noff[d] /\ intena'[d] = intena[d] /\ sie'[d] = sie[d]
  BY Zenon, <1>1, PushOff DEF IInv
<1>6. TypeOK'
  BY Zenon, <1>1, <1>2, <1>3, <1>4, <1>5 DEF IInv, TypeOK
<1> HIDE DEF p
<1>7. OnStack(c, on[c])'
  BY <1>1, <1>2, <1>3, <1>4, <1>5 DEF OnStack, HasPLock, HasLk, Depth, StateAt, Interruptible, p
<1>8. Local(c, p)
  BY Zenon, <1>1, <1>2, <1>3, <1>4, <1>5 DEF Local, IInv, ProcInv
<1>9. LockInv'
  <2>1. Holder(on[c])' <=> Holder(on[c])
    BY Zenon, <1>1, <1>4 DEF Holder, p
  <2> QED
    BY Zenon, <1>1, <1>4, <2>1, LockTaken DEF p
<1> QED
  BY Zenon, <1>1, <1>3, <1>6, <1>7, <1>8, <1>9, LocalKeeps DEF IInv, p

\* acquiresleep() takes a lock that has no holder.
LEMMA AcquireSleepDoneKeeps ==
  ASSUME IInv, NEW c \in CPUs, AcquireSleepDone(c)
  PROVE  IInv'
<1> DEFINE p == on[c]
<1>1. /\ p # 0 /\ pc[p] = "test"
      /\ Free /\ locked' = TRUE /\ pid' = p
      /\ lk' = 0
      /\ pop_off(c)
      /\ Goto(p, "cs")
      /\ UNCHANGED <<state, chan, killed, plock, proc, on, scan, tint, ret, wk, kills, panicked>>
  BY Zenon DEF AcquireSleepDone, At, cpuvars, intrvars, lockvars
<1>2. p \in Procs /\ OnStack(c, p) /\ 0 \notin CPUs
  BY Zenon, <1>1, Current, CPUsAssumption
<1>3. plock[p] = 0 /\ noff[c] = 1 /\ intena[c] /\ lk = c /\ state[p] = "RUNNING"
  BY Zenon, <1>1, <1>2 DEF OnStack, HasPLock, HasLk, Depth, StateAt, Interruptible
<1>4. /\ pc' \in [Procs -> PCs] /\ pc'[p] = "cs"
      /\ \A q \in Procs : q # p => pc'[q] = pc[q]
  BY Zenon, <1>1, <1>2, Moved DEF PCs, IInv
<1>5. /\ noff' \in [CPUs -> Nat] /\ intena' \in [CPUs -> BOOLEAN] /\ sie' \in [CPUs -> BOOLEAN]
      /\ noff'[c] = noff[c] - 1 /\ (sie'[c] <=> noff[c] = 1 /\ intena[c]) /\ intena' = intena
      /\ \A d \in CPUs : d # c => noff'[d] = noff[d] /\ sie'[d] = sie[d]
  BY <1>1, <1>3, PopOff DEF IInv
<1>6. TypeOK'
  BY Zenon, <1>1, <1>2, <1>3, <1>4, <1>5 DEF IInv, TypeOK
<1> HIDE DEF p
<1>7. OnStack(c, on[c])'
  BY <1>1, <1>2, <1>3, <1>4, <1>5 DEF OnStack, HasPLock, HasLk, Depth, StateAt, Interruptible, p
<1>8. Local(c, p)
  BY Zenon, <1>1, <1>2, <1>3, <1>4, <1>5 DEF Local, IInv, ProcInv
<1>9. LockInv'
  <2>1. ~locked /\ \A q \in Procs : ~Holder(q)
    BY Zenon, <1>1 DEF Free, IInv, LockInv, SleepMutex
  <2>2. \A q \in Procs : q # p => ~Holder(q)'
    BY Zenon, <2>1, <1>1, <1>4 DEF Holder
  <2>3. Holder(on[c])'
    BY Zenon, <1>1, <1>4 DEF Holder, p
  <2>4. \A q \in Procs : Holder(q)' <=> locked' /\ pid' = q
    BY Zenon, <2>2, <2>3, <1>1, <1>2 DEF p
  <2> QED
    BY Zenon, <2>4, <1>1 DEF LockInv, SleepMutex
<1> QED
  BY Zenon, <1>1, <1>3, <1>6, <1>7, <1>8, <1>9, LocalKeeps DEF IInv, p

\* sleep() acquires p->lock while lk->lk is still held.
LEMMA SleepEnterKeeps ==
  ASSUME IInv, NEW c \in CPUs, SleepEnter(c)
  PROVE  IInv'
<1> DEFINE p == on[c]
<1>1. /\ p # 0 /\ pc[p] = "test"
      /\ ~Free
      /\ plock[p] = 0 /\ plock' = [plock EXCEPT ![p] = c]
      /\ push_off(c)
      /\ Goto(p, "sleep")
      /\ UNCHANGED <<state, chan, killed, proc, on, scan, tint, ret, wk, lk, locked, pid, kills,
                     panicked>>
  BY Zenon DEF SleepEnter, At, cpuvars, intrvars, lockvars
<1>2. p \in Procs /\ OnStack(c, p) /\ 0 \notin CPUs
  BY Zenon, <1>1, Current, CPUsAssumption
<1>3. noff[c] = 1 /\ intena[c] /\ lk = c /\ state[p] = "RUNNING"
  BY Zenon, <1>1, <1>2 DEF OnStack, HasPLock, HasLk, Depth, StateAt, Interruptible
<1>4. /\ pc' \in [Procs -> PCs] /\ pc'[p] = "sleep"
      /\ \A q \in Procs : q # p => pc'[q] = pc[q]
  BY Zenon, <1>1, <1>2, Moved DEF PCs, IInv
<1>5. /\ noff' \in [CPUs -> Nat] /\ intena' \in [CPUs -> BOOLEAN] /\ sie' \in [CPUs -> BOOLEAN]
      /\ noff'[c] = noff[c] + 1 /\ ~sie'[c]
      /\ noff[c] = 0 => (intena'[c] <=> sie[c])
      /\ noff[c] # 0 => (intena'[c] <=> intena[c])
      /\ \A d \in CPUs : d # c => noff'[d] = noff[d] /\ intena'[d] = intena[d] /\ sie'[d] = sie[d]
  BY Zenon, <1>1, PushOff DEF IInv
<1>6. TypeOK'
  BY Zenon, <1>1, <1>2, <1>3, <1>4, <1>5 DEF IInv, TypeOK
<1>7. /\ plock'[p] = c
      /\ \A q \in Procs : q # p => plock'[q] = plock[q]
  BY Zenon, <1>1, <1>2 DEF IInv, TypeOK
<1> HIDE DEF p
<1>8. OnStack(c, on[c])'
  BY <1>1, <1>2, <1>3, <1>4, <1>5, <1>7 DEF OnStack, HasPLock, HasLk, Depth, StateAt, Interruptible, p
<1>9. Local(c, p)
  BY Zenon, <1>1, <1>2, <1>3, <1>4, <1>5, <1>7 DEF Local, IInv, ProcInv
<1>10. LockInv'
  <2>1. locked
    BY Zenon, <1>1 DEF Free
  <2>2. \A q \in Procs : Holder(q)' <=> Holder(q)
    BY Zenon, <1>1, <1>4 DEF Holder
  <2> QED
    BY Zenon, <2>1, <2>2, <1>1, LockFrame
<1> QED
  BY Zenon, <1>1, <1>3, <1>6, <1>8, <1>9, <1>10, LocalKeeps DEF IInv, p

\* Who goes to sleep does so while the sleep lock is taken.
LEMMA SleepSetKeeps ==
  ASSUME IInv, NEW c \in CPUs, SleepSet(c)
  PROVE  IInv'
<1> DEFINE p == on[c]
<1>1. /\ p # 0 /\ pc[p] = "sleep"
      /\ lk' = 0
      /\ pop_off(c)
      /\ chan' = [chan EXCEPT ![p] = TRUE]
      /\ state' = [state EXCEPT ![p] = "SLEEPING"]
      /\ Goto(p, "asleep")
      /\ UNCHANGED <<killed, plock, proc, on, scan, tint, ret, wk, locked, pid, kills, panicked>>
  BY Zenon DEF SleepSet, At, cpuvars, intrvars, lockvars, SleepUnlock
<1>2. p \in Procs /\ OnStack(c, p) /\ 0 \notin CPUs
  BY Zenon, <1>1, Current, CPUsAssumption
<1>3. plock[p] = c /\ noff[c] = 2 /\ intena[c] /\ lk = c
  BY Zenon, <1>1, <1>2 DEF OnStack, HasPLock, HasLk, Depth, StateAt, Interruptible
<1>4. /\ pc' \in [Procs -> PCs] /\ pc'[p] = "asleep"
      /\ \A q \in Procs : q # p => pc'[q] = pc[q]
  BY Zenon, <1>1, <1>2, Moved DEF PCs, IInv
<1>5. /\ noff' \in [CPUs -> Nat] /\ intena' \in [CPUs -> BOOLEAN] /\ sie' \in [CPUs -> BOOLEAN]
      /\ noff'[c] = noff[c] - 1 /\ (sie'[c] <=> noff[c] = 1 /\ intena[c]) /\ intena' = intena
      /\ \A d \in CPUs : d # c => noff'[d] = noff[d] /\ sie'[d] = sie[d]
  BY <1>1, <1>3, PopOff DEF IInv
<1>6. TypeOK'
  BY Zenon, <1>1, <1>2, <1>3, <1>4, <1>5 DEF IInv, TypeOK
<1>7. /\ chan'[p] /\ state'[p] = "SLEEPING"
      /\ \A q \in Procs : q # p => chan'[q] = chan[q] /\ state'[q] = state[q]
  BY Zenon, <1>1, <1>2 DEF IInv, TypeOK
<1> HIDE DEF p
<1>8. OnStack(c, on[c])'
  BY <1>1, <1>2, <1>3, <1>4, <1>5, <1>7 DEF OnStack, HasPLock, HasLk, Depth, StateAt, Interruptible, p
<1>9. Local(c, p)
  BY <1>1, <1>2, <1>3, <1>4, <1>5, <1>7 DEF Local, IInv, ProcInv
<1>10. LockInv'
  <2>1. locked
    BY Zenon, <1>1, <1>2 DEF IInv, LockInv
  <2>2. \A q \in Procs : Holder(q)' <=> Holder(q)
    BY Zenon, <1>1, <1>4 DEF Holder
  <2> QED
    BY Zenon, <2>1, <2>2, <1>1, LockFrame
<1> QED
  BY Zenon, <1>1, <1>3, <1>6, <1>8, <1>9, <1>10, LocalKeeps DEF IInv, p

\* When the sleep lock is cleared everybody asleep is on wakeup()'s list.
LEMMA ReleaseSleepClearKeeps ==
  ASSUME IInv, NEW c \in CPUs, ReleaseSleepClear(c)
  PROVE  IInv'
<1> DEFINE p == on[c]
<1>1. /\ p # 0 /\ pc[p] = "clear"
      /\ locked' = FALSE /\ pid' = 0
      /\ wk' = [wk EXCEPT ![p] = 1]
      /\ Goto(p, "wakeup")
      /\ UNCHANGED <<state, chan, killed, plock, proc, on, scan, noff, intena, sie, tint, ret, lk,
                     kills, panicked>>
  BY Zenon DEF ReleaseSleepClear, At, cpuvars, intrvars, lockvars, FirstProc
<1>2. p \in Procs /\ OnStack(c, p) /\ 0 \notin CPUs
  BY Zenon, <1>1, Current, CPUsAssumption
<1>3. plock[p] = 0 /\ noff[c] = 1 /\ intena[c] /\ ~sie[c] /\ lk = c /\ state[p] = "RUNNING"
  BY Zenon, <1>1, <1>2 DEF OnStack, HasPLock, HasLk, Depth, StateAt, Interruptible
<1>4. /\ pc' \in [Procs -> PCs] /\ pc'[p] = "wakeup"
      /\ \A q \in Procs : q # p => pc'[q] = pc[q]
  BY Zenon, <1>1, <1>2, Moved DEF PCs, IInv
<1>5. TypeOK'
  <2>1. wk' \in [Procs -> 1..(NPROC + 1)]
    BY <1>1, <1>2, NPROCAssumption DEF IInv, TypeOK
  <2> QED
    BY Zenon, <2>1, <1>1, <1>4 DEF IInv, TypeOK
<1>6. wk'[p] = 1
  BY Zenon, <1>1, <1>2 DEF IInv, TypeOK
<1> HIDE DEF p
<1>7. OnStack(c, on[c])'
  BY Zenon, <1>1, <1>2, <1>3, <1>4, <1>6 DEF OnStack, HasPLock, HasLk, Depth, StateAt, Interruptible, p
<1>8. Local(c, p)
  BY Zenon, <1>1, <1>2, <1>3, <1>4, <1>6 DEF Local, IInv, ProcInv
<1>9. LockInv'
  <2>1. Holder(on[c])
    BY Zenon, <1>1 DEF Holder, p
  <2>2. locked /\ pid = p /\ \A q \in Procs : q # p => ~Holder(q)
    BY Zenon, <2>1, <1>2 DEF IInv, LockInv, SleepMutex, p
  <2>3. \A q \in Procs : ~Holder(q)'
    BY Zenon, <2>2, <1>1, <1>4 DEF Holder
  <2>4. \A q \in Procs : pc'[q] # "sleep"
    <3> SUFFICES ASSUME NEW q \in Procs, q # p, pc[q] = "sleep" PROVE FALSE
      BY Zenon, <1>4
    <3>1. PICK d \in CPUs : on[d] = q
      BY Zenon DEF IInv, ProcInv
    <3>2. OnStack(d, on[d]) /\ d # c
      BY <3>1, Current DEF p, Procs
    <3> QED
      BY Zenon, <3>1, <3>2, <1>2, <1>3 DEF OnStack, HasLk
  <2>5. \A q \in Procs : Pending(q)'
    BY <1>1, <1>2, <1>3, <1>4, <1>6 DEF Pending, Procs, p
  <2> QED
    BY Zenon, <2>3, <2>4, <2>5, <1>1 DEF LockInv, SleepMutex
<1> QED
  BY Zenon, <1>1, <1>3, <1>5, <1>7, <1>8, <1>9, LocalKeeps DEF IInv, p

\* At the end of wakeup()'s loop nobody is left asleep.
LEMMA ReleaseSleepDoneKeeps ==
  ASSUME IInv, NEW c \in CPUs, ReleaseSleepDone(c)
  PROVE  IInv'
<1> DEFINE p == on[c]
<1>1. /\ p # 0 /\ pc[p] = "wakeup"
      /\ wk[p] > NPROC
      /\ lk' = 0
      /\ pop_off(c)
      /\ Goto(p, "idle")
      /\ UNCHANGED <<state, chan, killed, plock, proc, on, scan, tint, ret, wk, locked, pid, kills,
                     panicked>>
  BY Zenon DEF ReleaseSleepDone, At, cpuvars, intrvars, lockvars
<1>2. p \in Procs /\ OnStack(c, p) /\ 0 \notin CPUs
  BY Zenon, <1>1, Current, CPUsAssumption
<1>3. plock[p] = 0 /\ noff[c] = 1 /\ intena[c] /\ lk = c /\ state[p] = "RUNNING"
  BY Zenon, <1>1, <1>2 DEF OnStack, HasPLock, HasLk, Depth, StateAt, Interruptible
<1>4. /\ pc' \in [Procs -> PCs] /\ pc'[p] = "idle"
      /\ \A q \in Procs : q # p => pc'[q] = pc[q]
  BY Zenon, <1>1, <1>2, Moved DEF PCs, IInv
<1>5. /\ noff' \in [CPUs -> Nat] /\ intena' \in [CPUs -> BOOLEAN] /\ sie' \in [CPUs -> BOOLEAN]
      /\ noff'[c] = noff[c] - 1 /\ (sie'[c] <=> noff[c] = 1 /\ intena[c]) /\ intena' = intena
      /\ \A d \in CPUs : d # c => noff'[d] = noff[d] /\ sie'[d] = sie[d]
  BY <1>1, <1>3, PopOff DEF IInv
<1>6. TypeOK'
  BY Zenon, <1>1, <1>2, <1>3, <1>4, <1>5 DEF IInv, TypeOK
<1> HIDE DEF p
<1>7. OnStack(c, on[c])'
  BY <1>1, <1>2, <1>3, <1>4, <1>5 DEF OnStack, HasPLock, HasLk, Depth, StateAt, Interruptible, p
<1>8. Local(c, p)
  BY Zenon, <1>1, <1>2, <1>3, <1>4, <1>5 DEF Local, IInv, ProcInv
<1>9. LockInv'
  <2>1. \A q \in Procs : ~Pending(q)
    <3> SUFFICES ASSUME NEW q \in Procs, Pending(q) PROVE FALSE
      BY Zenon
    <3>1. wk[p] <= q /\ wk[p] \in Nat /\ q \in Nat /\ q <= NPROC
      BY <1>2, <1>3, NPROCAssumption DEF Pending, Procs, IInv, TypeOK, p
    <3> QED
      BY <3>1, <1>1, NPROCAssumption
  <2>2. \A q \in Procs : Holder(q)' <=> Holder(q)
    BY Zenon, <1>1, <1>4 DEF Holder
  <2>3. ~locked => \A q \in Procs : state[q] # "SLEEPING"
    BY Zenon, <2>1 DEF IInv, LockInv
  <2> QED
    BY Zenon, <2>2, <2>3, <1>1, <1>4, LockFrame
<1> QED
  BY Zenon, <1>1, <1>3, <1>6, <1>7, <1>8, <1>9, LocalKeeps DEF IInv, p

\* One iteration of wakeup() takes nobody off the list without waking them.
LEMMA WakeupKeeps ==
  ASSUME IInv, NEW c \in CPUs, Wakeup(c)
  PROVE  IInv'
<1> DEFINE p == on[c]
           q == wk[p]
<1>1. /\ p # 0 /\ pc[p] = "wakeup" /\ q <= NPROC
      /\ q # p => plock[q] = 0
      /\ state' = IF MustWake(p, q) THEN [state EXCEPT ![q] = "RUNNABLE"] ELSE state
      /\ wk' = [wk EXCEPT ![p] = q + 1]
      /\ UNCHANGED <<chan, killed, plock, proc, on, scan, noff, intena, sie, tint, pc, ret, lk,
                     locked, pid,
                     kills, panicked>>
  BY Zenon DEF Wakeup, At, cpuvars, intrvars, lockvars
<1>2. p \in Procs /\ OnStack(c, p)
  BY Zenon, <1>1, Current
<1>3. q \in Procs /\ q \in Nat
  BY <1>1, <1>2, NPROCAssumption DEF IInv, TypeOK, Procs
<1>4. state[p] = "RUNNING" /\ lk = c
  BY Zenon, <1>1, <1>2 DEF OnStack, StateAt, HasLk
<1>5. /\ state' \in [Procs -> {"RUNNABLE", "RUNNING", "SLEEPING"}]
      /\ MustWake(p, q) => state'[q] = "RUNNABLE"
      /\ ~MustWake(p, q) => state'[q] = state[q]
      /\ \A r \in Procs : r # q => state'[r] = state[r]
  BY Zenon, <1>1, <1>3 DEF IInv, TypeOK
<1>6. wk'[p] = q + 1 /\ wk' \in [Procs -> 1..(NPROC + 1)]
  <2>1. q + 1 \in 1..(NPROC + 1)
    BY <1>1, <1>3, NPROCAssumption
  <2> QED
    BY Zenon, <2>1, <1>1, <1>2 DEF IInv, TypeOK
<1>7. TypeOK'
  BY Zenon, <1>1, <1>5, <1>6 DEF IInv, TypeOK
<1> HIDE DEF p, q
<1>8. MustWake(p, q) => q # p /\ state[q] = "SLEEPING" /\ plock[q] = 0
  BY Zenon, <1>1 DEF MustWake
<1>9. state'[p] = "RUNNING"
  BY Zenon, <1>2, <1>4, <1>5, <1>8
<1>10. OnStack(c, on[c])'
  BY Zenon, <1>1, <1>2, <1>4, <1>9 DEF OnStack, p
<1>11. Local(c, p)
  BY Zenon, <1>1, <1>2, <1>5, <1>8 DEF Local, IInv, ProcInv
<1>12. LockInv'
  <2>1. \A r \in Procs : Holder(r)' <=> Holder(r)
    BY Zenon, <1>1 DEF Holder
  <2>2. ASSUME NEW r \in Procs, state'[r] = "SLEEPING"
        PROVE  state[r] = "SLEEPING" /\ r # q
    <3>1. CASE r = q
      BY Zenon, <3>1, <2>2, <1>4, <1>5, <1>9 DEF MustWake, IInv, ProcInv
    <3> QED
      BY Zenon, <3>1, <2>2, <1>5
  <2>3. ASSUME NEW r \in Procs, r # q, Pending(r)
        PROVE  Pending(r)'
    <3>1. on'[lk'] = p /\ q <= r /\ r \in Nat
      BY <2>3, <1>1, <1>4 DEF Pending, Procs, p, q
    <3>2. q + 1 <= r
      BY <3>1, <2>3, <1>3
    <3> QED
      BY Zenon, <3>1, <3>2, <2>3, <1>1, <1>6 DEF Pending
  <2> QED
    BY Zenon, <2>1, <2>2, <2>3, <1>1, LockFrame
<1> QED
  BY Zenon, <1>1, <1>7, <1>10, <1>11, <1>12, LocalKeeps DEF IInv, p

\* kill() may wake a process at any moment outside its p->lock.
LEMMA KillKeeps ==
  ASSUME IInv, NEW c \in CPUs, NEW q \in Procs, kill(c, q)
  PROVE  IInv'
<1> DEFINE p == on[c]
<1>1. /\ p # 0 /\ pc[p] = "idle" /\ plock[q] = 0 /\ kills < MaxKills
      /\ killed' = [killed EXCEPT ![q] = TRUE]
      /\ state' = IF KillWakes(q) THEN [state EXCEPT ![q] = "RUNNABLE"] ELSE state
      /\ intena' = [intena EXCEPT ![c] = sie[c]]
      /\ kills' = kills + 1
      /\ UNCHANGED <<chan, plock, proc, on, scan, noff, sie, tint, pc, ret, wk, lk, locked, pid,
                     panicked>>
  BY Zenon DEF kill, At, cpuvars, lockvars
<1>2. p \in Procs /\ OnStack(c, p)
  BY Zenon, <1>1, Current
<1>3. state[p] = "RUNNING" /\ lk # c
  BY Zenon, <1>1, <1>2 DEF OnStack, StateAt, HasLk
<1>4. /\ state' \in [Procs -> {"RUNNABLE", "RUNNING", "SLEEPING"}]
      /\ state'[q] = state[q] \/ (state[q] = "SLEEPING" /\ state'[q] = "RUNNABLE")
      /\ \A r \in Procs : r # q => state'[r] = state[r]
  BY Zenon, <1>1 DEF IInv, TypeOK, KillWakes
<1>5. intena' \in [CPUs -> BOOLEAN] /\ \A d \in CPUs : d # c => intena'[d] = intena[d]
  BY Zenon, <1>1 DEF IInv, TypeOK
<1>6. TypeOK'
  <2>1. kills' \in 0..MaxKills
    BY <1>1, MaxKillsAssumption DEF IInv, TypeOK
  <2>2. killed' \in [Procs -> BOOLEAN]
    BY Zenon, <1>1 DEF IInv, TypeOK
  <2> QED
    BY Zenon, <2>1, <2>2, <1>1, <1>4, <1>5 DEF IInv, TypeOK
<1> HIDE DEF p
<1>7. state'[p] = "RUNNING"
  BY Zenon, <1>2, <1>3, <1>4
<1>8. OnStack(c, on[c])'
  BY Zenon, <1>1, <1>2, <1>3, <1>7 DEF OnStack, HasLk, p
<1>9. Local(c, p)
  BY Zenon, <1>1, <1>2, <1>4, <1>5 DEF Local, IInv, ProcInv
<1>10. LockInv'
  <2>1. Holder(on[c])' <=> Holder(on[c])
    BY Zenon, <1>1 DEF Holder, p
  <2> QED
    BY Zenon, <1>1, <1>3, <1>4, <2>1, LockIdle DEF p
<1> QED
  BY Zenon, <1>1, <1>6, <1>8, <1>9, <1>10, LocalKeeps DEF IInv, p

-----------------------------------------------------------------------------
(* The theorems.                                                           *)

\* The invariant holds in every reachable state of the scheduler and of its
\* processes (proc.c, sleeplock.c): who is on which stack, which CPU holds
\* p->lock and lk->lk, how deep push_off() is nested, and who is still to be
\* woken.
THEOREM Invariance == Spec => []IInv
<1>1. IInv /\ UNCHANGED vars => IInv'
  BY DEF vars, IInv, TypeOK, CpuInv, ProcInv, LockInv, OnStack, Leaving, Pending, SleepMutex, Holder
<1>2. ASSUME IInv, NEW c \in CPUs, Scheduler(c) PROVE IInv'
  BY Zenon, <1>2, SkipKeeps, RunKeeps, BackKeeps DEF Scheduler
<1>3. ASSUME IInv, NEW c \in CPUs, YieldSched(c) \/ SleepSched(c) PROVE IInv'
  BY Zenon, <1>3, SchedKeeps DEF YieldSched, SleepSched
<1>4. ASSUME IInv, NEW c \in CPUs, Forced(c) PROVE IInv'
  BY Zenon, <1>3, <1>4, ForkRetKeeps, yieldKeeps, YieldReturnKeeps, TrapReturnKeeps, AcquireSleepDoneKeeps,
     SleepEnterKeeps, SleepSetKeeps, SleepWakeKeeps, SleepReturnKeeps, ReleaseSleepClearKeeps,
     WakeupKeeps, ReleaseSleepDoneKeeps DEF Forced
<1>5. IInv /\ [Next]_vars => IInv'
  BY Zenon, <1>1, <1>2, <1>4, TimerKeeps, AcquireSleepKeeps, ReleaseSleepKeeps, KillKeeps DEF Next
<1> QED
  BY <1>5, InitInv, PTL DEF Spec

\* The hand-over of p->lock across swtch() is safe on any number of CPUs: one
\* CPU per kernel stack, p->state right whenever p->lock is free, no panic in
\* sched() or release().
THEOREM StackHandOver == Spec => []HandOverSafe
<1>1. IInv => HandOverSafe
  <2> SUFFICES ASSUME IInv PROVE HandOverSafe
    BY Zenon
  <2>1. OneCpuPerStack
    BY Zenon, Current DEF OneCpuPerStack
  <2>2. \A c \in CPUs : on[c] # 0 => proc[c] = on[c]
    BY Zenon, Current
  <2>3. ASSUME NEW p \in Procs, plock[p] = 0, NEW c \in CPUs, on[c] = p
        PROVE  state[p] = "RUNNING"
    <3>1. on[c] # 0 /\ c # 0
      BY <2>3, CPUsAssumption DEF Procs
    <3>2. OnStack(c, p)
      BY Zenon, <3>1, <2>3, Current
    <3> QED
      BY Zenon, <3>1, <3>2, <2>3 DEF OnStack, StateAt, HasPLock
  <2>4. RunningExact
    BY Zenon, <2>2, <2>3 DEF RunningExact, IInv, ProcInv
  <2> QED
    BY Zenon, <2>1, <2>4 DEF HandOverSafe, NoPanic, IInv
<1> QED
  BY <1>1, Invariance, PTL

\* No wakeup is lost between sleep() and wakeup(), however many processes race
\* for the sleep lock and whoever is killed meanwhile.
THEOREM WakeupsArrive == Spec => []NoLostWakeup
<1>1. IInv => NoLostWakeup
  BY Zenon DEF NoLostWakeup, IInv, LockInv, Pending
<1> QED
  BY <1>1, Invariance, PTL

\* acquiresleep() and releasesleep() exclude each other across preemption and
\* migration, and lk->pid names the holder.
THEOREM SleepLockExcludes == Spec => []SleepMutex
<1>1. IInv => SleepMutex
  BY Zenon DEF IInv, LockInv
<1> QED
  BY <1>1, Invariance, PTL

\* sched() saves and restores c->intena so that the interrupt state follows the
\* thread from CPU to CPU.
THEOREM IntenaFollowsThread == Spec => []InterruptsFollowThread
<1>1. IInv => InterruptsFollowThread
  <2> SUFFICES ASSUME IInv, NEW c \in CPUs, on[c] # 0, noff[c] = 0
               PROVE  sie[c] = (pc[on[c]] \notin {"timer", "trapret"})
    BY Zenon DEF InterruptsFollowThread
  <2>1. on[c] \in Procs /\ OnStack(c, on[c])
    BY Zenon, Current
  <2>2. pc[on[c]] \in PCs /\ sie[c] \in BOOLEAN
    BY Zenon, <2>1 DEF IInv, TypeOK
  <2>3. Depth(pc[on[c]]) = 0
    BY Zenon, <2>1 DEF OnStack
  <2>4. pc[on[c]] \in Interruptible \cup {"timer", "trapret"}
    BY <2>2, <2>3 DEF Depth, HasPLock, HasLk, PCs, Interruptible
  <2>5. sie[c] <=> pc[on[c]] \notin {"timer", "trapret"}
    BY Zenon, <2>1, <2>4 DEF OnStack, Interruptible
  <2> QED
    BY Zenon, <2>2, <2>5
<1> QED
  BY <1>1, Invariance, PTL
=============================================================================
