--------------------------------- MODULE Traps ---------------------------------
(***************************************************************************)
(* Traps and context switches: what happens to the registers of a hart on  *)
(* the way from user code into the kernel and back (trampoline.S, trap.c), *)
(* when the kernel itself is interrupted (kernelvec.S, kerneltrap), and    *)
(* when a process gives up the hart and goes on on another one (swtch.S,   *)
(* yield, sleep, scheduler).                                               *)
(*                                                                         *)
(* Registers that all this code treats alike are one: "s" is ra, s0-s11,   *)
(* which swtch saves; "t" is gp, t0-t6, a1-a7; "a0", "sp" and "tp" are     *)
(* themselves. A value says whose it is: <<p, n>> of user code at pc n (or *)
(* a system call's result, n = PCS), <<"kernel", x>> of kernel thread x,   *)
(* <<"hart", c>>. A kernel thread is a process or a hart's scheduler. What *)
(* the code does not read again (sepc after sret, the trapframe of a       *)
(* process in user mode, upc outside it) is reset. A timer interrupt can   *)
(* come at any time: timervec raises it and restores what it uses.         *)
(***************************************************************************)
EXTENDS Integers

CONSTANTS Harts, Users,   \* Users: the processes
          NoUser,
          PCS             \* user pcs are counted modulo this

ASSUME TrapsAssumption ==
  NoUser \notin Users \cup Harts /\ Users \cap Harts = {} /\ PCS \in Nat \ {0}

Regs == {"a0", "sp", "tp", "s", "t"}
UserRegs(p, n) == [r \in Regs |-> <<p, n>>]
Garbage == <<"any">>
KernelPT == <<"kernel">>     \* satp: the kernel's page table, or a process's
KStack(x) == <<"stack", x>>
NoFrame == [regs |-> UserRegs(NoUser, 0), sepc |-> Garbage, spp |-> FALSE, spie |-> FALSE]

VARIABLES at,                      \* where each hart is
          regs, sepc, stvec, satp,
          spp, spie, intr,         \* sstatus: SPP (TRUE is supervisor), SPIE, SIE
          running,                 \* mycpu()->proc
          upc,                     \* the pc of a hart in user mode
          cause,                   \* scause
          tf,                      \* trapframes
          context,                 \* contexts of swtch; with the thread's intena
          frame,                   \* kernelvec's and kerneltrap's, on each kernel stack
          user,                    \* history: what each program should see
          trapPanic

csr == <<sepc, stvec, satp, spp, spie, intr, cause>>
trapvars == <<at, regs, csr, running, upc, tf, context, frame, user, trapPanic>>

Threads == Users \cup Harts
Thread(c) == IF running[c] = NoUser THEN c ELSE running[c]

\* scheduler() on every hart; every process about to enter forkret.
TrapsInit ==
  /\ at = [c \in Harts |-> "scheduler"]
  /\ regs = [c \in Harts |-> [r \in Regs |-> CASE r = "tp" -> <<"hart", c>>
                                               [] r = "sp" -> KStack(c)
                                               [] OTHER -> <<"kernel", c>>]]
  /\ sepc = [c \in Harts |-> Garbage] /\ stvec = [c \in Harts |-> "kernelvec"]
  /\ satp = [c \in Harts |-> KernelPT]
  /\ spp = [c \in Harts |-> FALSE] /\ spie = [c \in Harts |-> FALSE]
  /\ intr = [c \in Harts |-> FALSE]
  /\ cause = [c \in Harts |-> "none"]
  /\ running = [c \in Harts |-> NoUser] /\ upc = [c \in Harts |-> 0]
  /\ tf = [p \in Users |-> [regs |-> UserRegs(p, 0), epc |-> 0, satp |-> Garbage,
                            sp |-> Garbage, hartid |-> Garbage]]
  /\ context = [x \in Threads |-> IF x \in Users
              THEN [at |-> "usertrapret", s |-> <<"kernel", x>>, sp |-> KStack(x), intena |-> TRUE]
              ELSE [at |-> "none", s |-> Garbage, sp |-> Garbage, intena |-> FALSE]]
  /\ frame = [x \in Threads |-> NoFrame]
  /\ user = [p \in Users |-> [regs |-> UserRegs(p, 0), pc |-> 0]]
  /\ trapPanic = FALSE

Goto(c, l) == at' = [at EXCEPT ![c] = l]

\* The hardware takes a trap: from pc, in supervisor mode or not.
TakeTrap(c, why, pc, super) ==
  /\ sepc' = [sepc EXCEPT ![c] = pc] /\ cause' = [cause EXCEPT ![c] = why]
  /\ spp' = [spp EXCEPT ![c] = super] /\ spie' = [spie EXCEPT ![c] = intr[c]]
  /\ intr' = [intr EXCEPT ![c] = FALSE]

\* A trap from user code, and uservec. A program changes all its registers
\* before a system call, whose result will be in a0 when it goes on behind it.
\* (kerneltrap panics on a trap from user mode.)
uservec(c, why) ==
  LET p == running[c]
      ecall == why = "ecall"
      saved == IF ecall THEN UserRegs(p, upc[c]) ELSE regs[c]
  IN /\ at[c] = "user"
     /\ ecall \/ intr[c]
     /\ TakeTrap(c, why, <<"user", upc[c]>>, FALSE)
     /\ trapPanic' = (trapPanic \/ stvec[c] # "uservec")
     /\ tf' = [tf EXCEPT ![p].regs = saved]
     /\ regs' = [regs EXCEPT ![c] = [r \in Regs |-> CASE r = "sp" -> tf[p].sp
                                                      [] r = "tp" -> tf[p].hartid
                                                      [] OTHER -> Garbage]]
     /\ satp' = [satp EXCEPT ![c] = tf[p].satp]
     /\ upc' = [upc EXCEPT ![c] = 0]
     /\ user' = IF ~ecall THEN user
                ELSE [user EXCEPT ![p] = [regs |-> [saved EXCEPT !["a0"] = <<p, PCS>>],
                                          pc |-> (@.pc + 1) % PCS]]
     /\ Goto(c, "usertrap")
     /\ UNCHANGED <<stvec, running, context, frame>>

\* usertrap, as far as the system call or the device's handler.
usertrap(c) ==
  LET p == running[c]
      ecall == cause[c] = "ecall"
  IN /\ at[c] = "usertrap"
     /\ trapPanic' = (trapPanic \/ spp[c])
     /\ stvec' = [stvec EXCEPT ![c] = "kernelvec"]
     /\ tf' = [tf EXCEPT ![p].epc = (sepc[c][2] + IF ecall THEN 1 ELSE 0) % PCS]
     /\ intr' = [intr EXCEPT ![c] = ecall]
     /\ regs' = [regs EXCEPT ![c]["s"] = <<"kernel", p>>, ![c]["t"] = <<"kernel", p>>]
     /\ sepc' = [sepc EXCEPT ![c] = Garbage] /\ cause' = [cause EXCEPT ![c] = "none"]
     /\ Goto(c, CASE ecall -> "syscall"
                  [] cause[c] = "timer" -> "yield"
                  [] OTHER -> "usertrapret")
     /\ UNCHANGED <<satp, spp, spie, running, upc, context, frame, user>>

syscall(c) ==
  /\ at[c] = "syscall"
  /\ tf' = [tf EXCEPT ![running[c]].regs["a0"] = <<running[c], PCS>>]
  /\ Goto(c, "usertrapret")
  /\ UNCHANGED <<regs, csr, running, upc, context, frame, user, trapPanic>>

\* swtch to the scheduler, in yield or sleep, whose acquire turned interrupts
\* off; the thread goes on at l when it is run again. The scheduler's release
\* leaves interrupts off.
swtch(c, l) ==
  LET p == running[c] IN
  /\ context' = [context EXCEPT ![p] = [at |-> l, s |-> regs[c]["s"], sp |-> regs[c]["sp"],
                                intena |-> intr[c]]]
  /\ regs' = [regs EXCEPT ![c]["s"] = context[c].s, ![c]["sp"] = context[c].sp, ![c]["t"] = Garbage]
  /\ intr' = [intr EXCEPT ![c] = FALSE]
  /\ running' = [running EXCEPT ![c] = NoUser]
  /\ Goto(c, "scheduler")

\* A system call sleeps; usertrap yields.
sleep(c) ==
  /\ at[c] = "syscall"
  /\ swtch(c, "syscall")
  /\ UNCHANGED <<sepc, stvec, satp, spp, spie, cause, upc, tf, frame, user, trapPanic>>
yield(c) ==
  /\ at[c] = "yield"
  /\ swtch(c, "usertrapret")
  /\ UNCHANGED <<sepc, stvec, satp, spp, spie, cause, upc, tf, frame, user, trapPanic>>

\* scheduler: intr_on, then swtch to a process that no hart runs, which
\* releases its lock: pop_off goes by the thread's intena.
intr_on(c) ==
  /\ at[c] = "scheduler" /\ ~intr[c]
  /\ intr' = [intr EXCEPT ![c] = TRUE]
  /\ UNCHANGED <<at, regs, sepc, stvec, satp, spp, spie, cause, running,
                 upc, tf, context, frame, user, trapPanic>>
scheduler(c, p) ==
  /\ at[c] = "scheduler"
  /\ \A d \in Harts : running[d] # p
  /\ running' = [running EXCEPT ![c] = p]
  /\ context' = [context EXCEPT ![c] = [@ EXCEPT !.s = regs[c]["s"], !.sp = regs[c]["sp"]]]
  /\ regs' = [regs EXCEPT ![c]["s"] = context[p].s, ![c]["sp"] = context[p].sp, ![c]["t"] = Garbage]
  /\ intr' = [intr EXCEPT ![c] = context[p].intena]
  /\ Goto(c, context[p].at)
  /\ UNCHANGED <<sepc, stvec, satp, spp, spie, cause, upc, tf, frame, user, trapPanic>>

\* An interrupt of kernel code, kernelvec's pushes, and kerneltrap's locals.
\* (usertrap panics on a trap from supervisor mode.)
kernelvec(c, why) ==
  LET x == Thread(c) IN
  /\ at[c] # "user" /\ intr[c]
  /\ TakeTrap(c, why, <<"kernel", at[c]>>, TRUE)
  /\ trapPanic' = (trapPanic \/ stvec[c] # "kernelvec")
  /\ frame' = [frame EXCEPT ![x] = [regs |-> regs[c], sepc |-> sepc'[c], spp |-> spp'[c],
                                    spie |-> spie'[c]]]
  /\ regs' = [regs EXCEPT ![c]["s"] = Garbage, ![c]["t"] = Garbage, ![c]["a0"] = Garbage]
  /\ Goto(c, "kerneltrap")
  /\ UNCHANGED <<stvec, satp, running, upc, tf, context, user>>

\* kerneltrap: the handler; a timer interrupt of a process yields.
kerneltrap(c) ==
  /\ at[c] = "kerneltrap"
  /\ trapPanic' = (trapPanic \/ ~frame[Thread(c)].spp \/ intr[c])
  /\ IF cause[c] = "timer" /\ running[c] # NoUser THEN swtch(c, "trapreturn")
     ELSE Goto(c, "trapreturn") /\ UNCHANGED <<context, regs, intr, running>>
  /\ sepc' = [sepc EXCEPT ![c] = Garbage] /\ cause' = [cause EXCEPT ![c] = "none"]
  /\ UNCHANGED <<stvec, satp, spp, spie, upc, tf, frame, user>>

\* The end of kerneltrap, which puts sepc and sstatus back, and of kernelvec:
\* all registers but tp, and sret.
Popped_All(c) == frame[Thread(c)].regs
Popped(c) == [frame[Thread(c)].regs EXCEPT !["tp"] = regs[c]["tp"]]
trapreturn(c) ==
  LET f == frame[Thread(c)] IN
  /\ at[c] = "trapreturn"
  /\ regs' = [regs EXCEPT ![c] = Popped(c)]
  /\ intr' = [intr EXCEPT ![c] = f.spie]
  /\ spp' = [spp EXCEPT ![c] = FALSE] /\ spie' = [spie EXCEPT ![c] = TRUE]
  /\ Goto(c, f.sepc[2])
  /\ frame' = [frame EXCEPT ![Thread(c)] = NoFrame]
  /\ UNCHANGED <<sepc, stvec, satp, cause, running, upc, tf, context, user, trapPanic>>

\* usertrapret: intr_off; then stvec, the trapframe's kernel values, sstatus
\* and sepc; then userret and its sret.
intr_off(c) ==
  /\ at[c] = "usertrapret"
  /\ intr' = [intr EXCEPT ![c] = FALSE]
  /\ Goto(c, "setup")
  /\ UNCHANGED <<regs, sepc, stvec, satp, spp, spie, cause, running, upc,
                 tf, context, frame, user, trapPanic>>
usertrapret(c) ==
  LET p == running[c] IN
  /\ at[c] = "setup"
  /\ stvec' = [stvec EXCEPT ![c] = "uservec"]
  /\ tf' = [tf EXCEPT ![p].satp = satp[c], ![p].sp = KStack(p), ![p].hartid = regs[c]["tp"]]
  /\ spp' = [spp EXCEPT ![c] = FALSE] /\ spie' = [spie EXCEPT ![c] = TRUE]
  /\ sepc' = [sepc EXCEPT ![c] = <<"user", tf[p].epc>>]
  /\ Goto(c, "userret")
  /\ UNCHANGED <<regs, satp, intr, cause, running, upc, context, frame, user, trapPanic>>
userret(c) ==
  LET p == running[c] IN
  /\ at[c] = "userret"
  /\ satp' = [satp EXCEPT ![c] = <<"user", p>>]
  /\ regs' = [regs EXCEPT ![c] = tf[p].regs]
  /\ tf' = [tf EXCEPT ![p].regs = UserRegs(NoUser, 0), ![p].epc = 0]
  /\ upc' = [upc EXCEPT ![c] = sepc[c][2]] /\ sepc' = [sepc EXCEPT ![c] = Garbage]
  /\ intr' = [intr EXCEPT ![c] = spie[c]]
  /\ Goto(c, "user")
  /\ UNCHANGED <<stvec, spp, spie, cause, running, context, frame, user, trapPanic>>

InUser(c) == \E why \in {"ecall", "device", "timer"} : uservec(c, why)
InKernel(c) == \/ usertrap(c) \/ syscall(c) \/ sleep(c) \/ yield(c) \/ intr_on(c)
               \/ kerneltrap(c) \/ trapreturn(c) \/ intr_off(c) \/ usertrapret(c) \/ userret(c)
               \/ \E p \in Users : scheduler(c, p)
               \/ \E why \in {"device", "timer"} : kernelvec(c, why)
\* A hart at one of these has interrupts off and touches nothing another hart
\* reads: its steps are not interleaved with theirs.
Private == {"usertrap", "yield", "kerneltrap", "trapreturn", "setup", "userret"}
TrapsNext ==
  \E c \in Harts : /\ \A d \in Harts \ {c} : at[d] \notin Private
                   /\ InUser(c) \/ InKernel(c)

TrapsSpec == TrapsInit /\ [][TrapsNext]_trapvars
--------------------------------------------------------------------------------
(* Properties *)

\* A program does not notice that it was interrupted, put to sleep or moved to
\* another hart: in user mode a hart has the program's own registers, pc and
\* page table, except that a system call has returned its result in a0; and
\* interrupts are on and go to uservec.
UserContextExact ==
  \A c \in Harts : at[c] = "user" =>
    /\ regs[c] = user[running[c]].regs /\ upc[c] = user[running[c]].pc
    /\ satp[c] = <<"user", running[c]>>
    /\ intr[c] /\ stvec[c] = "uservec"

\* Kernel code always has its hart's own id in tp (cpuid()), the kernel's page
\* table and its own kernel stack; it is interrupted only when stvec is
\* kernelvec; after an interrupt it goes on with its registers, after a swtch
\* with those that the callee must save; and no panic of trap.c is reached.
KernelContextExact ==
  /\ \A c \in Harts : at[c] # "user" =>
       /\ regs[c]["tp"] = <<"hart", c>> /\ satp[c] = KernelPT
       /\ regs[c]["sp"] = KStack(Thread(c))
       /\ intr[c] => stvec[c] = "kernelvec"
       /\ at[c] \in {"syscall", "usertrapret", "scheduler"} => regs[c]["s"] = <<"kernel", Thread(c)>>
       /\ at[c] = "syscall" => regs[c]["t"] \in {<<"kernel", Thread(c)>>, Garbage}
  /\ ~trapPanic

\* Neither user code nor kernel code notices a trap or a switch (trampoline.S,
\* kernelvec.S, swtch.S, trap.c).
ContextsExact == UserContextExact /\ KernelContextExact
================================================================================
