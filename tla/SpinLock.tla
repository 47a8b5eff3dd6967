------------------------------ MODULE SpinLock ------------------------------
(***************************************************************************)
(* Spin locks and interrupt masking: kernel/spinlock.c, with the interrupt *)
(* entry and exit of kernel/trap.c as far as they touch the same state.    *)
(*                                                                         *)
(* Every CPU runs kernel code that acquires and releases locks; whenever   *)
(* its interrupts are enabled an interrupt handler may run on top of that  *)
(* code and acquire and release locks itself.  The atomic steps are the    *)
(* ones another CPU can tell apart: the swap on lk->locked, the store to   *)
(* lk->cpu and the store that clears lk->locked.                           *)
(***************************************************************************)
EXTENDS Naturals, FiniteSets

CONSTANTS CPUs,    \* the harts
          Locks,   \* the spin locks; a lock's number is its place in the lock order
          NoCpu    \* lk->cpu == 0

ASSUME LocksAssumption == Locks \subseteq Nat /\ IsFiniteSet(Locks) /\ Locks # {}
ASSUME NoCpuAssumption == NoCpu \notin CPUs

Ctx == {"thread", "trap"}

VARIABLES
  locked,   \* lk->locked
  cpu,      \* lk->cpu
  noff,     \* c->noff, depth of push_off() nesting
  intena,   \* c->intena, were interrupts enabled before push_off()?
  sie,      \* the SIE bit of the CPU's sstatus: are interrupts enabled?
  ctx,      \* is the CPU running ordinary kernel code or an interrupt handler?
  pc, arg,  \* what the CPU is doing, and the lock it is doing it to
  saved,    \* the interrupted code's pc and arg while a handler runs
  held,     \* the locks each context has been given by acquire() and still has
  want      \* the interrupt state last set outside acquire() and release()

vars == <<locked, cpu, noff, intena, sie, ctx, pc, arg, saved, held, want>>

PCs == {"run", "spin", "setcpu", "unlock", "panic"}

TypeOK ==
  /\ locked \in [Locks -> BOOLEAN]
  /\ cpu \in [Locks -> CPUs \cup {NoCpu}]
  /\ noff \in [CPUs -> Nat]
  /\ intena \in [CPUs -> BOOLEAN]
  /\ sie \in [CPUs -> BOOLEAN]
  /\ ctx \in [CPUs -> Ctx]
  /\ pc \in [CPUs -> PCs]
  /\ arg \in [CPUs -> Locks]
  /\ saved \in [CPUs -> PCs \X Locks]
  /\ held \in [CPUs -> [Ctx -> SUBSET Locks]]
  /\ want \in [CPUs -> BOOLEAN]

\* initlock() for every lock; a hart boots with interrupts off and noff 0.
Init ==
  /\ locked = [l \in Locks |-> FALSE]
  /\ cpu = [l \in Locks |-> NoCpu]
  /\ noff = [c \in CPUs |-> 0]
  /\ intena = [c \in CPUs |-> FALSE]
  /\ sie = [c \in CPUs |-> FALSE]
  /\ ctx = [c \in CPUs |-> "thread"]
  /\ pc = [c \in CPUs |-> "run"]
  /\ arg \in [CPUs -> {CHOOSE l \in Locks : TRUE}]
  /\ saved = [c \in CPUs |-> <<"run", arg[c]>>]
  /\ held = [c \in CPUs |-> [x \in Ctx |-> {}]]
  /\ want = [c \in CPUs |-> FALSE]

-----------------------------------------------------------------------------

holding(c, l) == locked[l] /\ cpu[l] = c

push_off_SaveAlways(c) ==
  /\ intena' = [intena EXCEPT ![c] = sie[c]]
  /\ sie' = [sie EXCEPT ![c] = FALSE]
  /\ noff' = [noff EXCEPT ![c] = @ + 1]

push_off(c) ==
  /\ intena' = [intena EXCEPT ![c] = IF noff[c] = 0 THEN sie[c] ELSE @]
  /\ sie' = [sie EXCEPT ![c] = FALSE]
  /\ noff' = [noff EXCEPT ![c] = @ + 1]

\* acquire() up to its loop: push_off(), and the panic on re-acquisition.
\* A context takes locks in increasing order; it cannot know what the code
\* it interrupted holds.
Acquire(c, l) ==
  /\ pc[c] = "run"
  /\ \A h \in held[c][ctx[c]] : h < l
  /\ push_off(c)
  /\ arg' = [arg EXCEPT ![c] = l]
  /\ pc' = [pc EXCEPT ![c] = IF holding(c, l) THEN "panic" ELSE "spin"]
  /\ UNCHANGED <<locked, cpu, ctx, saved, held, want>>

Free_Untested(l) == TRUE

Free(l) == ~locked[l]

\* The swap that finds the lock free; one that finds it taken changes nothing.
TestAndSet(c) ==
  /\ pc[c] = "spin"
  /\ Free(arg[c])
  /\ locked' = [locked EXCEPT ![arg[c]] = TRUE]
  /\ pc' = [pc EXCEPT ![c] = "setcpu"]
  /\ UNCHANGED <<cpu, noff, intena, sie, ctx, arg, saved, held, want>>

SetCpu(c) ==
  /\ pc[c] = "setcpu"
  /\ cpu' = [cpu EXCEPT ![arg[c]] = c]
  /\ held' = [held EXCEPT ![c][ctx[c]] = @ \cup {arg[c]}]
  /\ pc' = [pc EXCEPT ![c] = "run"]
  /\ UNCHANGED <<locked, noff, intena, sie, ctx, arg, saved, want>>

ClearCpu_Not(l) == UNCHANGED cpu

ClearCpu(l) == cpu' = [cpu EXCEPT ![l] = NoCpu]

\* release() up to its store to lk->cpu.  Locks need not be released in the
\* reverse order (sleep() does not).
Release(c, l) ==
  /\ pc[c] = "run"
  /\ l \in held[c][ctx[c]]
  /\ arg' = [arg EXCEPT ![c] = l]
  /\ IF holding(c, l)
       THEN /\ ClearCpu(l)
            /\ held' = [held EXCEPT ![c][ctx[c]] = @ \ {l}]
            /\ pc' = [pc EXCEPT ![c] = "unlock"]
       ELSE /\ pc' = [pc EXCEPT ![c] = "panic"]
            /\ UNCHANGED <<cpu, held>>
  /\ UNCHANGED <<locked, noff, intena, sie, ctx, saved, want>>

pop_off(c) ==
  IF sie[c] \/ noff[c] < 1
    THEN /\ pc' = [pc EXCEPT ![c] = "panic"]
         /\ UNCHANGED <<noff, sie>>
    ELSE /\ pc' = [pc EXCEPT ![c] = "run"]
         /\ noff' = [noff EXCEPT ![c] = @ - 1]
         /\ sie' = [sie EXCEPT ![c] = (noff[c] = 1 /\ intena[c])]

\* __sync_lock_release() and the pop_off() after it, which only this CPU sees.
Unlock(c) ==
  /\ pc[c] = "unlock"
  /\ locked' = [locked EXCEPT ![arg[c]] = FALSE]
  /\ pop_off(c)
  /\ UNCHANGED <<cpu, intena, ctx, arg, saved, held, want>>

-----------------------------------------------------------------------------

\* intr_on() of scheduler() and usertrap(), intr_off() of usertrapret().
SetInterrupts(c, on) ==
  /\ pc[c] = "run" /\ ctx[c] = "thread" /\ held[c]["thread"] = {}
  /\ sie' = [sie EXCEPT ![c] = on]
  /\ want' = [want EXCEPT ![c] = on]
  /\ UNCHANGED <<locked, cpu, noff, intena, ctx, pc, arg, saved, held>>

\* The hart takes an interrupt and enters kerneltrap() with interrupts off.
Interrupt(c) ==
  /\ sie[c] /\ ctx[c] = "thread" /\ pc[c] # "panic"
  /\ saved' = [saved EXCEPT ![c] = <<pc[c], arg[c]>>]
  /\ pc' = [pc EXCEPT ![c] = "run"]
  /\ ctx' = [ctx EXCEPT ![c] = "trap"]
  /\ sie' = [sie EXCEPT ![c] = FALSE]
  /\ want' = [want EXCEPT ![c] = FALSE]
  /\ UNCHANGED <<locked, cpu, noff, intena, arg, held>>

\* kerneltrap() restores sstatus and kernelvec returns to the interrupted code.
TrapReturn(c) ==
  /\ ctx[c] = "trap" /\ pc[c] = "run" /\ held[c]["trap"] = {}
  /\ pc' = [pc EXCEPT ![c] = saved[c][1]]
  /\ arg' = [arg EXCEPT ![c] = saved[c][2]]
  /\ ctx' = [ctx EXCEPT ![c] = "thread"]
  /\ sie' = [sie EXCEPT ![c] = TRUE]
  /\ want' = [want EXCEPT ![c] = TRUE]
  /\ UNCHANGED <<locked, cpu, noff, intena, saved, held>>

Step(c) ==
  \/ \E l \in Locks : Acquire(c, l)
  \/ TestAndSet(c)
  \/ SetCpu(c)
  \/ \E l \in Locks : Release(c, l)
  \/ Unlock(c)
  \/ \E on \in BOOLEAN : SetInterrupts(c, on)
  \/ Interrupt(c)
  \/ TrapReturn(c)

Next == \E c \in CPUs : Step(c)

Spec == Init /\ [][Next]_vars

-----------------------------------------------------------------------------
Held(c) == held[c]["thread"] \cup held[c]["trap"]

\* acquire()/release() give mutual exclusion: no lock is in the hands of two
\* CPUs, or of a handler and the code it interrupted, at the same time.
Mutex ==
  \A c, d \in CPUs, x, y \in Ctx :
    held[c][x] \cap held[d][y] # {} => c = d /\ x = y

\* holding() tells the truth although it reads lk->locked and lk->cpu without
\* any lock: on a CPU that is not inside acquire() or release() it is true of
\* exactly the locks that CPU has. So none of the panics of acquire(), release()
\* and pop_off() is reached by code that takes locks in order and releases what
\* it holds.
HoldingExact ==
  \A c \in CPUs :
    /\ pc[c] = "run" => \A l \in Locks : holding(c, l) <=> l \in Held(c)
    /\ pc[c] # "panic"

\* An interrupt handler never runs on top of code that holds a lock or is
\* inside acquire() or release(), so it cannot spin on a lock of its own CPU.
NoHandlerUnderLock ==
  \A c \in CPUs : ctx[c] = "trap" => held[c]["thread"] = {} /\ saved[c][1] = "run"

\* c->noff counts the locks of the CPU, one more while one is being taken or
\* given back: sched() relies on it to tell that only p->lock is held.
InFlight(c) == IF pc[c] \in {"spin", "setcpu", "unlock"} THEN 1 ELSE 0
NestingExact ==
  \A c \in CPUs : pc[c] # "panic" => noff[c] = Cardinality(Held(c)) + InFlight(c)

\* After the outermost release() interrupts are enabled exactly when they were
\* before the outermost acquire(), whatever happened in between.
InterruptsRestored ==
  \A c \in CPUs : pc[c] = "run" /\ noff[c] = 0 => sie[c] = want[c]

\* The interrupt discipline of push_off() and pop_off() as a whole: no handler
\* over code that has a lock, noff exact, and interrupts restored at the end.
InterruptsExact == NoHandlerUnderLock /\ NestingExact /\ InterruptsRestored
=============================================================================
