---------------------------- MODULE MachineProofs ----------------------------
(***************************************************************************)
(* Proofs about Traps, for any number of harts and processes, and about    *)
(* SpinLock, for any number of CPUs and locks.                             *)
(***************************************************************************)
EXTENDS SpinLock, Traps, FiniteSetTheorems, TLAPS

-----------------------------------------------------------------------------
(* Traps and context switches.                                             *)

\* The steps of the harts in any order, without the reduction of TrapsNext.
AnyNext == \E c \in Harts : InUser(c) \/ InKernel(c)
AnySpec == TrapsInit /\ [][AnyNext]_trapvars

UserPlaces == {"user", "usertrap", "syscall", "yield", "usertrapret", "setup", "userret"}
Places == UserPlaces \cup {"scheduler", "kerneltrap", "trapreturn"}

TrapValues == {Garbage, KernelPT}
              \cup {<<p, n>> : p \in Users \cup {NoUser, "user"}, n \in 0..PCS}
              \cup {<<"kernel", x>> : x \in Threads \cup Places}
              \cup {KStack(x) : x \in Threads}
              \cup {<<"hart", c>> : c \in Harts}
              \cup {<<"user", p>> : p \in Users}
RegFiles == [Regs -> TrapValues]
TrapFrames == [regs : RegFiles, epc : 0..(PCS - 1), satp : TrapValues, sp : TrapValues,
               hartid : TrapValues]
Switched == [at : Places \cup {"none"}, s : TrapValues, sp : TrapValues, intena : BOOLEAN]
Frames == [regs : RegFiles, sepc : TrapValues, spp : BOOLEAN, spie : BOOLEAN]

TrapTypes ==
  /\ at \in [Harts -> Places] /\ regs \in [Harts -> RegFiles]
  /\ sepc \in [Harts -> TrapValues] /\ stvec \in [Harts -> {"kernelvec", "uservec"}]
  /\ satp \in [Harts -> TrapValues]
  /\ spp \in [Harts -> BOOLEAN] /\ spie \in [Harts -> BOOLEAN] /\ intr \in [Harts -> BOOLEAN]
  /\ running \in [Harts -> Users \cup {NoUser}] /\ upc \in [Harts -> 0..(PCS - 1)]
  /\ cause \in [Harts -> {"none", "ecall", "device", "timer"}]
  /\ tf \in [Users -> TrapFrames] /\ context \in [Threads -> Switched]
  /\ frame \in [Threads -> Frames]
  /\ user \in [Users -> [regs : RegFiles, pc : 0..(PCS - 1)]]

\* What kernelvec keeps of thread x while x is interrupted.
FrameOK(x) ==
  /\ frame[x].spp /\ frame[x].spie
  /\ \E l \in IF x \in Users THEN {"syscall", "usertrapret"} ELSE {"scheduler"} :
       frame[x].sepc = <<"kernel", l>>
  /\ frame[x].regs["s"] = <<"kernel", x>> /\ frame[x].regs["sp"] = KStack(x)
  /\ frame[x].sepc[2] = "syscall" => frame[x].regs["t"] \in {<<"kernel", x>>, Garbage}

\* The trapframe has what process p will go on with, but for the result of the
\* system call that it is in at place l.
Saved(p, l) ==
  /\ user[p].regs = IF l = "syscall" THEN [tf[p].regs EXCEPT !["a0"] = <<p, PCS>>] ELSE tf[p].regs
  /\ tf[p].epc = user[p].pc

\* What uservec will find in the trapframe.
KernelValues(p, c) ==
  tf[p].satp = KernelPT /\ tf[p].sp = KStack(p) /\ tf[p].hartid = <<"hart", c>>

\* What the kernel relies on, at each place.
HartInv(c) ==
  /\ at[c] = "scheduler" => running[c] = NoUser
  /\ at[c] \in UserPlaces => running[c] \in Users
  /\ at[c] \in Private => ~intr[c]
  /\ stvec[c] = IF at[c] \in {"user", "usertrap", "userret"} THEN "uservec" ELSE "kernelvec"
  /\ at[c] # "user" => /\ regs[c]["tp"] = <<"hart", c>> /\ satp[c] = KernelPT
                       /\ regs[c]["sp"] = KStack(Thread(c))
  /\ at[c] \in {"syscall", "yield", "usertrapret", "scheduler"} => regs[c]["s"] = <<"kernel", Thread(c)>>
  /\ at[c] = "syscall" => regs[c]["t"] \in {<<"kernel", Thread(c)>>, Garbage}
  /\ at[c] \in {"kerneltrap", "trapreturn"} => FrameOK(Thread(c))
  /\ running[c] # NoUser => context[c].s = <<"kernel", c>> /\ context[c].sp = KStack(c)

\* Where what the program will see is, at each place.
ProgramInv(c) ==
  /\ at[c] = "user" =>
       /\ regs[c] = user[running[c]].regs /\ upc[c] = user[running[c]].pc
       /\ satp[c] = <<"user", running[c]>> /\ intr[c] /\ KernelValues(running[c], c)
  /\ at[c] = "usertrap" =>
       /\ ~spp[c]
       /\ user[running[c]].regs =
            IF cause[c] = "ecall" THEN [tf[running[c]].regs EXCEPT !["a0"] = <<running[c], PCS>>]
                                  ELSE tf[running[c]].regs
       /\ \E n \in 0..(PCS - 1) :
            /\ sepc[c] = <<"user", n>>
            /\ user[running[c]].pc = (n + IF cause[c] = "ecall" THEN 1 ELSE 0) % PCS
  /\ at[c] \in {"syscall", "yield", "usertrapret", "setup"} => Saved(running[c], at[c])
  /\ at[c] \in {"kerneltrap", "trapreturn"} /\ running[c] # NoUser =>
       Saved(running[c], frame[running[c]].sepc[2])
  /\ at[c] = "userret" =>
       /\ user[running[c]].regs = tf[running[c]].regs /\ sepc[c] = <<"user", user[running[c]].pc>>
       /\ spie[c] /\ KernelValues(running[c], c)

\* What swtch has kept of a process that no hart runs.
Parked(p) ==
  /\ context[p].at \in {"syscall", "usertrapret", "trapreturn"}
  /\ context[p].sp = KStack(p)
  /\ IF context[p].at = "trapreturn"
     THEN ~context[p].intena /\ FrameOK(p) /\ Saved(p, frame[p].sepc[2])
     ELSE context[p].s = <<"kernel", p>> /\ Saved(p, context[p].at)

OneHartEach == \A c, d \in Harts : running[c] = running[d] /\ running[c] # NoUser => c = d

TrapInv ==
  /\ TrapTypes /\ OneHartEach /\ ~trapPanic
  /\ \A c \in Harts : HartInv(c) /\ ProgramInv(c)
  /\ \A p \in Users : (\A c \in Harts : running[c] # p) => Parked(p)

-----------------------------------------------------------------------------
(* Consequences of the definitions.                                        *)

LEMMA Values ==
  /\ Garbage \in TrapValues /\ KernelPT \in TrapValues
  /\ \A p \in Users : <<"user", p>> \in TrapValues
  /\ \A p \in Users \cup {NoUser} : \A n \in 0..PCS : <<p, n>> \in TrapValues
  /\ \A n \in 0..PCS : <<"user", n>> \in TrapValues
  /\ \A x \in Threads : <<"kernel", x>> \in TrapValues /\ KStack(x) \in TrapValues
  /\ \A l \in Places : <<"kernel", l>> \in TrapValues
  /\ \A c \in Harts : <<"hart", c>> \in TrapValues
  BY DEF TrapValues

LEMMA UserFiles ==
  ASSUME NEW p \in Users \cup {NoUser}, NEW n \in 0..PCS
  PROVE  UserRegs(p, n) \in RegFiles
  BY Zenon, Values DEF UserRegs, RegFiles

LEMMA WithRegs ==
  ASSUME NEW f \in TrapFrames, NEW g \in RegFiles
  PROVE  [f EXCEPT !.regs = g] \in TrapFrames
  BY Zenon DEF TrapFrames

\* The trapframe as usertrapret leaves it.
Armed(f, p, c) == [f EXCEPT !.satp = KernelPT, !.sp = KStack(p), !.hartid = <<"hart", c>>]

LEMMA ArmedFrame ==
  ASSUME NEW f \in TrapFrames, NEW p \in Threads, NEW c \in Harts
  PROVE  /\ Armed(f, p, c) \in TrapFrames /\ Armed(f, p, c).regs = f.regs
         /\ Armed(f, p, c).satp = KernelPT /\ Armed(f, p, c).sp = KStack(p)
         /\ Armed(f, p, c).hartid = <<"hart", c>>
<1>1. KernelPT \in TrapValues /\ KStack(p) \in TrapValues /\ <<"hart", c>> \in TrapValues
  BY Zenon, Values
<1> QED
  BY Zenon, <1>1 DEF Armed, TrapFrames

LEMMA Wraps ==
  /\ 0 \in 0..(PCS - 1) /\ 0..(PCS - 1) \subseteq 0..PCS /\ PCS \in 0..PCS
  /\ \A n \in 0..(PCS - 1) : (n + 1) % PCS \in 0..(PCS - 1) /\ n % PCS = n /\ (n + 0) % PCS = n
  BY TrapsAssumption

\* The thread of a hart.
LEMMA ThreadIs ==
  ASSUME TrapTypes, NEW c \in Harts
  PROVE  /\ running[c] \in Users => Thread(c) = running[c] /\ running[c] # NoUser
         /\ running[c] = NoUser => Thread(c) = c
         /\ Thread(c) \in Threads /\ c \in Threads /\ c \notin Users
         /\ running[c] \in Users \cup {NoUser}
         /\ running[c] \in Users => running[c] \in Threads
  BY Zenon, TrapsAssumption DEF TrapTypes, Thread, Threads

\* A step of hart c: it changes no other hart, and no other thread than the one
\* it runs before or after the step and its own scheduler.
OnlyHart(c) ==
  /\ \A d \in Harts \ {c} :
           /\ at'[d] = at[d] /\ regs'[d] = regs[d] /\ sepc'[d] = sepc[d] /\ stvec'[d] = stvec[d]
           /\ satp'[d] = satp[d] /\ spp'[d] = spp[d] /\ spie'[d] = spie[d] /\ intr'[d] = intr[d]
           /\ cause'[d] = cause[d] /\ running'[d] = running[d] /\ upc'[d] = upc[d]
           /\ running[d] # NoUser => running[d] # running'[c]
  /\ \A x \in Threads : x \notin {c, running[c], running'[c]} =>
           context'[x] = context[x] /\ frame'[x] = frame[x]
  /\ \A q \in Users : q \notin {running[c], running'[c]} => tf'[q] = tf[q] /\ user'[q] = user[q]

\* What a hart does leaves the other harts' programs and threads alone.
LEMMA OthersKeep ==
  ASSUME TrapInv, TrapTypes', NEW c \in Harts,
         OnlyHart(c)
  PROVE  /\ OneHartEach'
         /\ \A d \in Harts \ {c} : HartInv(d)' /\ ProgramInv(d)'
         /\ \A q \in Users : /\ q \notin {running[c], running'[c]}
                             /\ \A d \in Harts : running'[d] # q
                             => Parked(q)'
<1> USE DEF OnlyHart
<1>1. OneHartEach'
  BY DEF TrapInv, OneHartEach
<1>2. ASSUME NEW d \in Harts \ {c} PROVE HartInv(d)' /\ ProgramInv(d)'
  <2>1. HartInv(d) /\ ProgramInv(d) /\ TrapTypes /\ (running[d] # NoUser => running[d] # running[c])
    BY Zenon, <1>2 DEF TrapInv, OneHartEach
  <2>2. /\ Thread(d)' = Thread(d) /\ context'[d] = context[d] /\ d \in Threads
        /\ frame'[Thread(d)] = frame[Thread(d)] /\ Thread(d) \in Threads
    <3>1. d \in Harts /\ d \in Threads /\ d \notin {c, running[c], running'[c]}
      BY <1>2, <2>1, TrapsAssumption DEF TrapTypes, Threads
    <3>2. running[d] \in Users => running[d] \in Threads /\ running[d] \notin {c, running[c], running'[c]}
      BY <1>2, <2>1, <3>1, TrapsAssumption DEF TrapTypes, Threads
    <3>3. Thread(d)' = Thread(d)
      BY Zenon, <1>2, <3>1 DEF Thread
    <3>4. Thread(d) = d \/ (running[d] \in Users /\ Thread(d) = running[d])
      BY <2>1, <3>1 DEF TrapTypes, Thread
    <3> QED
      BY Zenon, <3>1, <3>2, <3>3, <3>4
  <2>3. running[d] \in Users => tf'[running[d]] = tf[running[d]] /\ user'[running[d]] = user[running[d]]
    BY <1>2, <2>1, TrapsAssumption DEF TrapTypes
  <2>4. FrameOK(Thread(d)) => FrameOK(Thread(d))'
    BY <2>2 DEF FrameOK
  <2>5. HartInv(d)'
    BY Zenon, <1>2, <2>1, <2>2, <2>4 DEF HartInv
  <2>6. ProgramInv(d)'
    BY SMTT(60), <1>2, <2>1, <2>2, <2>3, ThreadIs DEF ProgramInv, HartInv, Saved, KernelValues, UserPlaces
  <2> QED
    BY Zenon, <2>5, <2>6
<1>3. ASSUME NEW q \in Users, q \notin {running[c], running'[c]}, \A d \in Harts : running'[d] # q
      PROVE  Parked(q)'
  <2>1. Parked(q)
    BY <1>3 DEF TrapInv
  <2>2. /\ context'[q] = context[q] /\ frame'[q] = frame[q]
        /\ tf'[q] = tf[q] /\ user'[q] = user[q]
    BY Zenon, <1>3, TrapsAssumption DEF Threads
  <2> QED
    BY SMTT(60), <2>1, <2>2 DEF Parked, FrameOK, Saved
<1> QED
  BY Zenon, <1>1, <1>2, <1>3

\* So what is left to show of a step.
LEMMA Keep ==
  ASSUME TrapInv, TrapTypes', NEW c \in Harts, OnlyHart(c), ~trapPanic', HartInv(c)', ProgramInv(c)',
         \A q \in Users : q = running[c] /\ running'[c] # q => Parked(q)'
  PROVE  TrapInv'
<1>1. \A q \in Users : (\A d \in Harts : running'[d] # q) => Parked(q)'
  BY Zenon, OthersKeep
<1> QED
  BY Zenon, <1>1, OthersKeep DEF TrapInv

LEMMA TrapInitInv == TrapsInit => TrapInv
<1> SUFFICES ASSUME TrapsInit PROVE TrapInv
  BY Zenon
<1>1. TrapTypes
  <2>1. \A p \in Users : UserRegs(p, 0) \in RegFiles /\ 0 \in 0..(PCS - 1)
    BY Zenon, UserFiles, Wraps
  <2>2. UserRegs(NoUser, 0) \in RegFiles
    BY Zenon, UserFiles, Wraps
  <2>3. regs \in [Harts -> RegFiles]
    BY Zenon, Values DEF TrapsInit, RegFiles, Regs, Threads
  <2>4. tf \in [Users -> TrapFrames]
    BY Zenon, <2>1, Values DEF TrapsInit, TrapFrames
  <2>5. context \in [Threads -> Switched]
    BY Zenon, Values DEF TrapsInit, Switched, Places, UserPlaces
  <2>6. frame \in [Threads -> Frames]
    BY Zenon, <2>2, Values DEF TrapsInit, Frames, NoFrame
  <2>7. user \in [Users -> [regs : RegFiles, pc : 0..(PCS - 1)]]
    BY Zenon, <2>1 DEF TrapsInit
  <2> QED
    BY Zenon, <2>3, <2>4, <2>5, <2>6, <2>7, Values, Wraps DEF TrapsInit, TrapTypes, Places, UserPlaces
<1>2. OneHartEach /\ ~trapPanic
  BY Zenon DEF TrapsInit, OneHartEach
<1>3. ASSUME NEW c \in Harts PROVE HartInv(c) /\ ProgramInv(c)
  BY Zenon, <1>3 DEF TrapsInit, HartInv, ProgramInv, Thread, Private, UserPlaces, Regs
<1>4. ASSUME NEW p \in Users PROVE Parked(p)
  BY Zenon, <1>4 DEF TrapsInit, Parked, Saved, Threads
<1> QED
  BY Zenon, <1>1, <1>2, <1>3, <1>4 DEF TrapInv

-----------------------------------------------------------------------------
(* Into the kernel.                                                        *)

LEMMA uservecKeeps ==
  ASSUME TrapInv, NEW c \in Harts, NEW why \in {"ecall", "device", "timer"}, uservec(c, why)
  PROVE  TrapInv'
<1>1. TrapTypes /\ HartInv(c) /\ ProgramInv(c) /\ at[c] = "user"
  BY Zenon DEF TrapInv, uservec
<1>2. PICK p \in Users : p = running[c]
  BY Zenon, <1>1 DEF HartInv, UserPlaces
<1>3. /\ p # NoUser /\ p \in Threads /\ running' = running /\ context' = context /\ frame' = frame
      /\ stvec' = stvec /\ at' = [at EXCEPT ![c] = "usertrap"] /\ upc' = [upc EXCEPT ![c] = 0]
      /\ sepc' = [sepc EXCEPT ![c] = <<"user", upc[c]>>] /\ cause' = [cause EXCEPT ![c] = why]
      /\ spp' = [spp EXCEPT ![c] = FALSE] /\ spie' = [spie EXCEPT ![c] = intr[c]]
      /\ intr' = [intr EXCEPT ![c] = FALSE] /\ satp' = [satp EXCEPT ![c] = tf[p].satp]
  BY Zenon, <1>2, TrapsAssumption DEF uservec, TakeTrap, Goto, Threads
<1> DEFINE before == IF why = "ecall" THEN UserRegs(p, upc[c]) ELSE regs[c]
<1>4. /\ regs' = [regs EXCEPT ![c] = [r \in Regs |-> CASE r = "sp" -> tf[p].sp
                                                      [] r = "tp" -> tf[p].hartid
                                                      [] OTHER -> Garbage]]
      /\ tf' = [tf EXCEPT ![p].regs = before]
      /\ user' = IF why # "ecall" THEN user
                 ELSE [user EXCEPT ![p] = [regs |-> [before EXCEPT !["a0"] = <<p, PCS>>],
                                           pc |-> (@.pc + 1) % PCS]]
  BY Zenon, <1>2 DEF uservec
<1>5. before \in RegFiles /\ upc[c] \in 0..(PCS - 1) /\ upc[c] \in 0..PCS
  BY Zenon, <1>1, UserFiles, Wraps DEF TrapTypes
<1>6. /\ regs[c] = user[p].regs /\ upc[c] = user[p].pc /\ intr[c]
      /\ tf[p].satp = KernelPT /\ tf[p].sp = KStack(p) /\ tf[p].hartid = <<"hart", c>>
  BY Zenon, <1>1, <1>2 DEF ProgramInv, KernelValues
<1> HIDE DEF before
<1>7. [before EXCEPT !["a0"] = <<p, PCS>>] \in RegFiles /\ (user[p].pc + 1) % PCS \in 0..(PCS - 1)
  BY Zenon, <1>1, <1>5, <1>6, Values, Wraps DEF RegFiles
<1>8. TrapTypes'
  <2>1. tf' \in [Users -> TrapFrames] /\ user' \in [Users -> [regs : RegFiles, pc : 0..(PCS - 1)]]
    <3>1. [tf[p] EXCEPT !.regs = before] \in TrapFrames
      BY Zenon, <1>1, <1>5, WithRegs DEF TrapTypes
    <3>2. tf' = [tf EXCEPT ![p] = [tf[p] EXCEPT !.regs = before]]
      BY Zenon, <1>4
    <3> QED
      BY Zenon, <1>1, <1>4, <1>7, <3>1, <3>2 DEF TrapTypes
  <2>2. regs' \in [Harts -> RegFiles]
    <3>1. [r \in Regs |-> CASE r = "sp" -> tf[p].sp
                            [] r = "tp" -> tf[p].hartid
                            [] OTHER -> Garbage] \in RegFiles
      BY Zenon, <1>3, <1>6, Values DEF RegFiles
    <3> QED
      BY Zenon, <1>1, <1>4, <3>1 DEF TrapTypes
  <2> QED
    BY Zenon, <1>1, <1>3, <1>5, <1>6, <2>1, <2>2, Values, Wraps DEF TrapTypes, Places, UserPlaces
<1>9. OnlyHart(c)
  BY Zenon, <1>1, <1>2, <1>3, <1>4 DEF OnlyHart, TrapTypes, TrapInv, OneHartEach
<1>10. HartInv(c)'
  <2>1. Thread(c)' = p
    BY Zenon, <1>2, <1>3 DEF Thread
  <2>2. regs'[c]["tp"] = <<"hart", c>> /\ regs'[c]["sp"] = KStack(p) /\ satp'[c] = KernelPT
    BY Zenon, <1>1, <1>3, <1>4, <1>6 DEF TrapTypes, Regs
  <2> QED
    BY Zenon, <1>1, <1>2, <1>3, <2>1, <2>2 DEF HartInv, TrapTypes, Private, UserPlaces
<1>11. ProgramInv(c)'
  <2>1. tf'[p].regs = before /\ at'[c] = "usertrap" /\ ~spp'[c] /\ cause'[c] = why
        /\ sepc'[c] = <<"user", upc[c]>>
    BY Zenon, <1>1, <1>3, <1>4 DEF TrapTypes, TrapFrames
  <2>2. IF why = "ecall" THEN user'[p].regs = [before EXCEPT !["a0"] = <<p, PCS>>]
                              /\ user'[p].pc = (upc[c] + 1) % PCS
                         ELSE user'[p].regs = before /\ user'[p].pc = (upc[c] + 0) % PCS
    BY Zenon, <1>1, <1>4, <1>5, <1>6, Wraps DEF TrapTypes, before
  <2> QED
    BY Zenon, <1>2, <1>3, <1>5, <2>1, <2>2 DEF ProgramInv
<1>12. ~trapPanic'
  BY Zenon, <1>1 DEF uservec, TrapInv, HartInv
<1> QED
  BY Zenon, <1>2, <1>3, <1>8, <1>9, <1>10, <1>11, <1>12, Keep

LEMMA usertrapKeeps ==
  ASSUME TrapInv, NEW c \in Harts, usertrap(c)
  PROVE  TrapInv'
<1>1. TrapTypes /\ HartInv(c) /\ ProgramInv(c) /\ at[c] = "usertrap"
  BY Zenon DEF TrapInv, usertrap
<1>2. PICK p \in Users : p = running[c]
  BY Zenon, <1>1 DEF HartInv, UserPlaces
<1> DEFINE l == CASE cause[c] = "ecall" -> "syscall"
                  [] cause[c] = "timer" -> "yield"
                  [] OTHER -> "usertrapret"
<1>3. /\ p # NoUser /\ p \in Threads /\ running' = running /\ context' = context /\ frame' = frame
      /\ satp' = satp /\ spp' = spp /\ spie' = spie /\ upc' = upc /\ user' = user
      /\ stvec' = [stvec EXCEPT ![c] = "kernelvec"] /\ at' = [at EXCEPT ![c] = l]
      /\ intr' = [intr EXCEPT ![c] = (cause[c] = "ecall")]
      /\ sepc' = [sepc EXCEPT ![c] = Garbage] /\ cause' = [cause EXCEPT ![c] = "none"]
      /\ regs' = [regs EXCEPT ![c]["s"] = <<"kernel", p>>, ![c]["t"] = <<"kernel", p>>]
      /\ tf' = [tf EXCEPT ![p].epc = (sepc[c][2] + IF cause[c] = "ecall" THEN 1 ELSE 0) % PCS]
  BY Zenon, <1>2, TrapsAssumption DEF usertrap, Goto, Threads
<1>4. /\ l \in {"syscall", "yield", "usertrapret"} /\ (l = "syscall" <=> cause[c] = "ecall")
      /\ l \in Places
  BY Zenon DEF Places, UserPlaces
<1> HIDE DEF l
<1>5. (sepc[c][2] + IF cause[c] = "ecall" THEN 1 ELSE 0) % PCS = user[p].pc
  BY <1>1, <1>2 DEF ProgramInv
<1>6. user[p].pc \in 0..(PCS - 1)
  BY Zenon, <1>1 DEF TrapTypes
<1>7. TrapTypes'
  <2>1. tf' \in [Users -> TrapFrames]
    <3>1. [tf[p] EXCEPT !.epc = user[p].pc] \in TrapFrames
      BY SMTT(60), <1>1, <1>6 DEF TrapTypes, TrapFrames
    <3>2. tf' = [tf EXCEPT ![p] = [tf[p] EXCEPT !.epc = user[p].pc]]
      BY Zenon, <1>3, <1>5
    <3> QED
      BY Zenon, <1>1, <3>1, <3>2 DEF TrapTypes
  <2>2. regs' \in [Harts -> RegFiles]
    BY Zenon, <1>1, <1>3, Values DEF TrapTypes, RegFiles
  <2> QED
    BY Zenon, <1>1, <1>3, <1>4, <2>1, <2>2, Values DEF TrapTypes
<1>8. OnlyHart(c)
  BY Zenon, <1>1, <1>2, <1>3 DEF OnlyHart, TrapTypes, TrapInv, OneHartEach
<1>9. HartInv(c)'
  <2>1. Thread(c)' = p /\ Thread(c) = p
    BY Zenon, <1>2, <1>3 DEF Thread
  <2>2. /\ regs'[c]["tp"] = regs[c]["tp"] /\ regs'[c]["sp"] = regs[c]["sp"]
        /\ regs'[c]["s"] = <<"kernel", p>> /\ regs'[c]["t"] = <<"kernel", p>>
    BY <1>1, <1>3 DEF TrapTypes, RegFiles, Regs
  <2>3. at'[c] = l /\ (intr'[c] <=> cause[c] = "ecall") /\ stvec'[c] = "kernelvec"
    BY Zenon, <1>1, <1>3 DEF TrapTypes
  <2> QED
    BY Zenon, <1>1, <1>2, <1>3, <1>4, <2>1, <2>2, <2>3 DEF HartInv, Private, UserPlaces
<1>10. ProgramInv(c)'
  <2>1. tf'[p].regs = tf[p].regs /\ tf'[p].epc = user[p].pc /\ at'[c] = l
    BY <1>1, <1>3, <1>5 DEF TrapTypes, TrapFrames
  <2> QED
    BY <1>1, <1>2, <1>3, <1>4, <2>1 DEF ProgramInv, Saved
<1>11. ~trapPanic'
  BY Zenon, <1>1 DEF usertrap, TrapInv, ProgramInv
<1> QED
  BY Zenon, <1>2, <1>3, <1>7, <1>8, <1>9, <1>10, <1>11, Keep

LEMMA syscallKeeps ==
  ASSUME TrapInv, NEW c \in Harts, syscall(c)
  PROVE  TrapInv'
<1>1. TrapTypes /\ HartInv(c) /\ ProgramInv(c) /\ at[c] = "syscall"
  BY Zenon DEF TrapInv, syscall
<1>2. PICK p \in Users : p = running[c]
  BY Zenon, <1>1 DEF HartInv, UserPlaces
<1>3. /\ p # NoUser /\ p \in Threads /\ running' = running /\ context' = context /\ frame' = frame
      /\ regs' = regs /\ csr' = csr /\ upc' = upc /\ user' = user
      /\ at' = [at EXCEPT ![c] = "usertrapret"]
      /\ tf' = [tf EXCEPT ![p].regs["a0"] = <<p, PCS>>]
  BY Zenon, <1>2, TrapsAssumption DEF syscall, Goto, Threads
<1>4. TrapTypes'
  <2>1. [tf[p].regs EXCEPT !["a0"] = <<p, PCS>>] \in RegFiles
    BY Zenon, <1>1, Values, Wraps DEF TrapTypes, TrapFrames, RegFiles
  <2>2. tf' \in [Users -> TrapFrames]
    <3>1. [tf[p] EXCEPT !.regs = [tf[p].regs EXCEPT !["a0"] = <<p, PCS>>]] \in TrapFrames
      BY Zenon, <1>1, <2>1, WithRegs DEF TrapTypes
    <3>2. tf' = [tf EXCEPT ![p] = [tf[p] EXCEPT !.regs = [tf[p].regs EXCEPT !["a0"] = <<p, PCS>>]]]
      BY Zenon, <1>3
    <3> QED
      BY Zenon, <1>1, <3>1, <3>2 DEF TrapTypes
  <2> QED
    BY Zenon, <1>1, <1>3, <2>2 DEF TrapTypes, csr, Places, UserPlaces
<1>5. OnlyHart(c)
  BY Zenon, <1>1, <1>2, <1>3 DEF OnlyHart, TrapTypes, TrapInv, OneHartEach, csr
<1>6. HartInv(c)'
  <2>1. Thread(c)' = p /\ Thread(c) = p
    BY Zenon, <1>2, <1>3 DEF Thread
  <2> QED
    BY Zenon, <1>1, <1>2, <1>3, <2>1 DEF HartInv, Private, UserPlaces, TrapTypes, csr
<1>7. ProgramInv(c)'
  <2>1. tf'[p].regs = [tf[p].regs EXCEPT !["a0"] = <<p, PCS>>] /\ tf'[p].epc = tf[p].epc
        /\ at'[c] = "usertrapret"
    BY <1>1, <1>3 DEF TrapTypes, TrapFrames
  <2> QED
    BY Zenon, <1>1, <1>2, <1>3, <2>1 DEF ProgramInv, Saved
<1>8. ~trapPanic'
  BY Zenon DEF syscall, TrapInv
<1> QED
  BY Zenon, <1>2, <1>3, <1>4, <1>5, <1>6, <1>7, <1>8, Keep

-----------------------------------------------------------------------------
(* Context switches.                                                       *)

\* The registers after a swtch that finds s and sp in the context.
Loaded(c, s, sp) == [regs[c] EXCEPT !["s"] = s, !["sp"] = sp, !["t"] = Garbage]

LEMMA swtchRegs ==
  ASSUME NEW c \in Harts, NEW s \in TrapValues, NEW sp \in TrapValues, TrapTypes
  PROVE  /\ Loaded(c, s, sp) \in RegFiles
         /\ Loaded(c, s, sp)["tp"] = regs[c]["tp"] /\ Loaded(c, s, sp)["s"] = s
         /\ Loaded(c, s, sp)["sp"] = sp /\ Loaded(c, s, sp)["t"] = Garbage
<1>1. regs[c] \in [Regs -> TrapValues] /\ {"s", "sp", "t", "tp"} \subseteq Regs
  BY Zenon DEF TrapTypes, RegFiles, Regs
<1> QED
  BY Zenon, <1>1, Values DEF RegFiles, Loaded

\* A process gives up its hart.
LEMMA swtchKeeps ==
  ASSUME TrapInv, NEW c \in Harts, NEW p \in Users, p = running[c], at[c] # "user",
         NEW l \in {"syscall", "usertrapret", "trapreturn"}, swtch(c, l),
         UNCHANGED <<stvec, satp, spp, spie, upc, tf, frame, user>>, ~trapPanic',
         stvec[c] = "kernelvec",
         sepc' \in [Harts -> TrapValues], cause' \in [Harts -> {"none", "ecall", "device", "timer"}],
         \A d \in Harts \ {c} : sepc'[d] = sepc[d] /\ cause'[d] = cause[d],
         IF l = "trapreturn" THEN ~intr[c] /\ FrameOK(p) /\ Saved(p, frame[p].sepc[2])
                             ELSE regs[c]["s"] = <<"kernel", p>> /\ Saved(p, l)
  PROVE  TrapInv'
<1>1. TrapTypes /\ HartInv(c)
  BY Zenon DEF TrapInv
<1>2. /\ p # NoUser /\ p \in Threads /\ c \in Threads /\ p # c
      /\ context' = [context EXCEPT ![p] = [at |-> l, s |-> regs[c]["s"], sp |-> regs[c]["sp"],
                                            intena |-> intr[c]]]
      /\ regs' = [regs EXCEPT ![c]["s"] = context[c].s, ![c]["sp"] = context[c].sp, ![c]["t"] = Garbage]
      /\ intr' = [intr EXCEPT ![c] = FALSE] /\ running' = [running EXCEPT ![c] = NoUser]
      /\ at' = [at EXCEPT ![c] = "scheduler"]
  BY Zenon, TrapsAssumption DEF swtch, Goto, Threads
<1>3. /\ regs[c]["tp"] = <<"hart", c>> /\ satp[c] = KernelPT /\ regs[c]["sp"] = KStack(p)
      /\ context[c].s = <<"kernel", c>> /\ context[c].sp = KStack(c)
  BY Zenon, <1>1, <1>2 DEF HartInv, Thread
<1>4. /\ regs' \in [Harts -> RegFiles] /\ regs'[c]["tp"] = regs[c]["tp"]
      /\ regs'[c]["s"] = <<"kernel", c>> /\ regs'[c]["sp"] = KStack(c)
  <2> DEFINE file == Loaded(c, context[c].s, context[c].sp)
  <2>1. context[c].s \in TrapValues /\ context[c].sp \in TrapValues
    BY Zenon, <1>2, <1>3, Values
  <2>2. regs' = [regs EXCEPT ![c] = file]
    BY Zenon, <1>1, <1>2 DEF Loaded, TrapTypes, RegFiles, Regs
  <2>3. file \in RegFiles /\ file["tp"] = regs[c]["tp"] /\ file["s"] = context[c].s
        /\ file["sp"] = context[c].sp
    BY <1>1, <2>1, swtchRegs
  <2> QED
    BY Zenon, <1>1, <1>3, <2>2, <2>3 DEF TrapTypes
<1>5. TrapTypes'
  <2>1. regs[c]["s"] \in TrapValues /\ regs[c]["sp"] \in TrapValues
    BY <1>1 DEF TrapTypes, RegFiles, Regs
  <2>2. [at |-> l, s |-> regs[c]["s"], sp |-> regs[c]["sp"], intena |-> intr[c]] \in Switched
    BY Zenon, <1>1, <2>1 DEF Switched, TrapTypes, Places, UserPlaces
  <2>3. context' \in [Threads -> Switched]
    BY Zenon, <1>1, <1>2, <2>2 DEF TrapTypes
  <2> QED
    BY Zenon, <1>1, <1>2, <1>4, <2>3 DEF TrapTypes, Places
<1>6. OnlyHart(c)
  BY Zenon, <1>1, <1>2 DEF OnlyHart, TrapTypes
<1>7. /\ at'[c] = "scheduler" /\ running'[c] = NoUser /\ ~intr'[c] /\ stvec'[c] = "kernelvec"
      /\ regs'[c]["tp"] = <<"hart", c>> /\ regs'[c]["sp"] = KStack(c) /\ regs'[c]["s"] = <<"kernel", c>>
      /\ satp'[c] = KernelPT
  BY Zenon, <1>1, <1>2, <1>3, <1>4 DEF TrapTypes
<1>8. HartInv(c)' /\ ProgramInv(c)'
  BY Zenon, <1>7 DEF HartInv, ProgramInv, Thread, Private, UserPlaces
<1>9. Parked(p)'
  <2>1. context'[p] = [at |-> l, s |-> regs[c]["s"], sp |-> regs[c]["sp"], intena |-> intr[c]]
    BY Zenon, <1>1, <1>2 DEF TrapTypes
  <2>2. (FrameOK(p) => FrameOK(p)') /\ (\A m : Saved(p, m) => Saved(p, m)')
    BY Zenon DEF FrameOK, Saved
  <2>3. frame'[p] = frame[p]
    BY Zenon
  <2> QED
    <3>1. /\ context'[p].at = l /\ context'[p].s = regs[c]["s"] /\ context'[p].sp = KStack(p)
          /\ context'[p].intena = intr[c]
      BY <1>3, <2>1
    <3>2. CASE l = "trapreturn"
      BY Zenon, <2>2, <2>3, <3>1, <3>2 DEF Parked
    <3>3. CASE l # "trapreturn"
      BY Zenon, <2>2, <3>1, <3>3 DEF Parked
    <3> QED
      BY Zenon, <3>2, <3>3
<1> QED
  BY Zenon, <1>2, <1>5, <1>6, <1>8, <1>9, Keep

LEMMA sleepKeeps ==
  ASSUME TrapInv, NEW c \in Harts, sleep(c) \/ yield(c)
  PROVE  TrapInv'
<1>1. TrapTypes /\ HartInv(c) /\ ProgramInv(c) /\ at[c] \in {"syscall", "yield"}
  BY Zenon DEF TrapInv, sleep, yield
<1>2. PICK p \in Users : p = running[c]
  BY Zenon, <1>1 DEF HartInv, UserPlaces
<1>3. Thread(c) = p
  BY Zenon, <1>2, TrapsAssumption DEF Thread
<1>4. PICK l \in {"syscall", "usertrapret"} : swtch(c, l) /\ (at[c] = "syscall" <=> l = "syscall")
  BY Zenon DEF sleep, yield
<1>5. regs[c]["s"] = <<"kernel", p>> /\ Saved(p, l) /\ stvec[c] = "kernelvec"
  BY Zenon, <1>1, <1>2, <1>3, <1>4 DEF HartInv, ProgramInv, Saved
<1>6. ~trapPanic' /\ UNCHANGED <<sepc, stvec, satp, spp, spie, cause, upc, tf, frame, user>>
  BY DEF sleep, yield, TrapInv
<1> QED
  BY <1>1, <1>2, <1>4, <1>5, <1>6, swtchKeeps DEF TrapTypes

LEMMA schedulerKeeps ==
  ASSUME TrapInv, NEW c \in Harts, NEW p \in Users, scheduler(c, p)
  PROVE  TrapInv'
<1>1. TrapTypes /\ HartInv(c) /\ at[c] = "scheduler" /\ Parked(p) /\ running[c] = NoUser
  BY Zenon DEF TrapInv, scheduler, HartInv
<1>2. /\ p # NoUser /\ p \in Threads /\ c \in Threads /\ p # c
      /\ running' = [running EXCEPT ![c] = p]
      /\ context' = [context EXCEPT ![c] = [@ EXCEPT !.s = regs[c]["s"], !.sp = regs[c]["sp"]]]
      /\ regs' = [regs EXCEPT ![c]["s"] = context[p].s, ![c]["sp"] = context[p].sp, ![c]["t"] = Garbage]
      /\ intr' = [intr EXCEPT ![c] = context[p].intena]
      /\ at' = [at EXCEPT ![c] = context[p].at]
      /\ UNCHANGED <<sepc, stvec, satp, spp, spie, cause, upc, tf, frame, user, trapPanic>>
      /\ \A d \in Harts : running[d] # p
  BY Zenon, TrapsAssumption DEF scheduler, Goto, Threads
<1>3. /\ regs[c]["tp"] = <<"hart", c>> /\ satp[c] = KernelPT /\ regs[c]["sp"] = KStack(c)
      /\ regs[c]["s"] = <<"kernel", c>> /\ stvec[c] = "kernelvec"
  BY Zenon, <1>1 DEF HartInv, Thread
<1>4. context[p] \in Switched /\ context[c] \in Switched /\ context[p].at \in Places
  BY Zenon, <1>1, <1>2 DEF TrapTypes, Parked, Places, UserPlaces
<1>5. /\ regs' \in [Harts -> RegFiles] /\ regs'[c]["tp"] = regs[c]["tp"]
      /\ regs'[c]["s"] = context[p].s /\ regs'[c]["sp"] = context[p].sp /\ regs'[c]["t"] = Garbage
  <2> DEFINE file == Loaded(c, context[p].s, context[p].sp)
  <2>1. context[p].s \in TrapValues /\ context[p].sp \in TrapValues
    BY Zenon, <1>4 DEF Switched
  <2>2. regs' = [regs EXCEPT ![c] = file]
    BY Zenon, <1>1, <1>2 DEF Loaded, TrapTypes, RegFiles, Regs
  <2>3. file \in RegFiles /\ file["tp"] = regs[c]["tp"] /\ file["s"] = context[p].s
        /\ file["sp"] = context[p].sp /\ file["t"] = Garbage
    BY <1>1, <2>1, swtchRegs
  <2> QED
    BY Zenon, <1>1, <2>2, <2>3 DEF TrapTypes
<1>6. TrapTypes'
  <2>1. [context[c] EXCEPT !.s = <<"kernel", c>>, !.sp = KStack(c)] \in Switched
    BY Zenon, <1>2, <1>4, Values DEF Switched
  <2>2. context' \in [Threads -> Switched]
    BY Zenon, <1>1, <1>2, <1>3, <2>1 DEF TrapTypes
  <2>3. intr' \in [Harts -> BOOLEAN]
    BY Zenon, <1>1, <1>2, <1>4 DEF TrapTypes, Switched
  <2> QED
    BY Zenon, <1>1, <1>2, <1>4, <1>5, <2>2, <2>3 DEF TrapTypes
<1>7. OnlyHart(c)
  BY Zenon, <1>1, <1>2 DEF OnlyHart, TrapTypes
<1>8. /\ at'[c] = context[p].at /\ running'[c] = p /\ intr'[c] = context[p].intena
      /\ regs'[c]["tp"] = <<"hart", c>> /\ regs'[c]["sp"] = context[p].sp
      /\ regs'[c]["s"] = context[p].s /\ regs'[c]["t"] = Garbage
      /\ context'[c].s = <<"kernel", c>> /\ context'[c].sp = KStack(c)
  <2>1. context'[c] = [context[c] EXCEPT !.s = <<"kernel", c>>, !.sp = KStack(c)]
    BY Zenon, <1>1, <1>2, <1>3 DEF TrapTypes
  <2>2. context'[c].s = <<"kernel", c>> /\ context'[c].sp = KStack(c)
    BY Zenon, <1>4, <2>1 DEF Switched
  <2> QED
    BY Zenon, <1>1, <1>2, <1>3, <1>5, <2>2 DEF TrapTypes
<1>9. (FrameOK(p) => FrameOK(p)') /\ (\A m : Saved(p, m) => Saved(p, m)') /\ frame'[p] = frame[p]
  BY Zenon, <1>2 DEF FrameOK, Saved
<1>10. Thread(c)' = p
  BY Zenon, <1>2, <1>8 DEF Thread
<1>11. HartInv(c)'
  <2>1. CASE context[p].at = "trapreturn"
    BY Zenon, <1>1, <1>2, <1>3, <1>8, <1>9, <1>10, <2>1 DEF HartInv, Parked, Private, UserPlaces
  <2>2. CASE context[p].at # "trapreturn"
    BY Zenon, <1>1, <1>2, <1>3, <1>8, <1>9, <1>10, <2>2 DEF HartInv, Parked, Private, UserPlaces
  <2> QED
    BY Zenon, <2>1, <2>2
<1>12. ProgramInv(c)'
  BY Zenon, <1>1, <1>2, <1>8, <1>9 DEF ProgramInv, Parked
<1>13. ~trapPanic'
  BY Zenon, <1>2 DEF TrapInv
<1> QED
  BY Zenon, <1>1, <1>2, <1>6, <1>7, <1>11, <1>12, <1>13, TrapsAssumption, Keep

\* scheduler's intr_on and usertrapret's intr_off.
LEMMA intrKeeps ==
  ASSUME TrapInv, NEW c \in Harts, intr_on(c) \/ intr_off(c)
  PROVE  TrapInv'
<1>1. TrapTypes /\ HartInv(c) /\ ProgramInv(c) /\ at[c] \in {"scheduler", "usertrapret"}
  BY Zenon DEF TrapInv, intr_on, intr_off
<1>2. /\ UNCHANGED <<regs, sepc, stvec, satp, spp, spie, cause, running, upc, tf, context, frame,
                     user, trapPanic>>
      /\ IF at[c] = "scheduler" THEN at' = at /\ intr' = [intr EXCEPT ![c] = TRUE]
         ELSE at' = [at EXCEPT ![c] = "setup"] /\ intr' = [intr EXCEPT ![c] = FALSE]
  BY Zenon DEF intr_on, intr_off, Goto
<1>3. TrapTypes'
  BY Zenon, <1>1, <1>2 DEF TrapTypes, Places, UserPlaces
<1>4. OnlyHart(c)
  BY Zenon, <1>1, <1>2 DEF OnlyHart, TrapTypes, TrapInv, OneHartEach
<1>5. HartInv(c)'
  <2>1. Thread(c)' = Thread(c)
    BY Zenon, <1>2 DEF Thread
  <2>2. at'[c] = (IF at[c] = "scheduler" THEN "scheduler" ELSE "setup")
        /\ intr'[c] = (at[c] = "scheduler")
    BY Zenon, <1>1, <1>2 DEF TrapTypes
  <2> QED
    BY Zenon, <1>1, <1>2, <2>1, <2>2 DEF HartInv, Private, UserPlaces
<1>6. ProgramInv(c)'
  BY <1>1, <1>2 DEF ProgramInv, Saved, TrapTypes
<1> QED
  BY Zenon, <1>2, <1>3, <1>4, <1>5, <1>6, Keep DEF TrapInv

-----------------------------------------------------------------------------
(* Interrupts of kernel code.                                              *)

LEMMA kernelvecKeeps ==
  ASSUME TrapInv, NEW c \in Harts, NEW why \in {"device", "timer"}, kernelvec(c, why)
  PROVE  TrapInv'
<1>1. TrapTypes /\ HartInv(c) /\ ProgramInv(c) /\ at[c] # "user" /\ intr[c]
  BY Zenon DEF TrapInv, kernelvec
<1>2. at[c] \in {"scheduler", "syscall", "usertrapret"} /\ stvec[c] = "kernelvec" /\ at[c] \in Places
  BY Zenon, <1>1 DEF HartInv, TrapTypes, Places, UserPlaces, Private
<1>3. PICK x \in Threads : x = Thread(c)
  BY Zenon, <1>1, ThreadIs
<1> DEFINE f == [regs |-> regs[c], sepc |-> <<"kernel", at[c]>>, spp |-> TRUE, spie |-> intr[c]]
<1>4. /\ running' = running /\ context' = context /\ stvec' = stvec /\ satp' = satp
      /\ upc' = upc /\ tf' = tf /\ user' = user /\ at' = [at EXCEPT ![c] = "kerneltrap"]
      /\ sepc' = [sepc EXCEPT ![c] = <<"kernel", at[c]>>] /\ cause' = [cause EXCEPT ![c] = why]
      /\ spp' = [spp EXCEPT ![c] = TRUE] /\ spie' = [spie EXCEPT ![c] = intr[c]]
      /\ intr' = [intr EXCEPT ![c] = FALSE]
      /\ regs' = [regs EXCEPT ![c]["s"] = Garbage, ![c]["t"] = Garbage, ![c]["a0"] = Garbage]
      /\ frame' = [frame EXCEPT ![x] = [regs |-> regs[c], sepc |-> sepc'[c], spp |-> spp'[c],
                                        spie |-> spie'[c]]]
      /\ trapPanic' = (trapPanic \/ stvec[c] # "kernelvec")
  BY Zenon, <1>3 DEF kernelvec, TakeTrap, Goto
<1>5. frame' = [frame EXCEPT ![x] = f]
  BY Zenon, <1>1, <1>4 DEF TrapTypes
<1>6. /\ regs' \in [Harts -> RegFiles]
      /\ regs'[c]["tp"] = regs[c]["tp"] /\ regs'[c]["sp"] = regs[c]["sp"]
  <2> DEFINE file == [[[regs[c] EXCEPT !["s"] = Garbage] EXCEPT !["t"] = Garbage] EXCEPT !["a0"] = Garbage]
  <2>1. regs[c] \in [Regs -> TrapValues] /\ {"s", "sp", "t", "tp", "a0"} \subseteq Regs
    BY Zenon, <1>1 DEF TrapTypes, RegFiles, Regs
  <2>2. file \in RegFiles /\ file["tp"] = regs[c]["tp"] /\ file["sp"] = regs[c]["sp"]
    BY Zenon, <2>1, Values DEF RegFiles
  <2>3. regs' = [regs EXCEPT ![c] = file]
    BY Zenon, <1>1, <1>4, <2>1 DEF TrapTypes
  <2> QED
    BY Zenon, <1>1, <2>2, <2>3 DEF TrapTypes
<1>7. f \in Frames
  BY Zenon, <1>1, <1>2, Values DEF Frames, TrapTypes
<1>8. TrapTypes'
  <2>1. <<"kernel", at[c]>> \in TrapValues
    BY Zenon, <1>2, Values
  <2>2. frame' \in [Threads -> Frames]
    BY Zenon, <1>1, <1>5, <1>7 DEF TrapTypes
  <2>3. at' \in [Harts -> Places] /\ sepc' \in [Harts -> TrapValues]
    BY Zenon, <1>1, <1>4, <2>1 DEF TrapTypes, Places
  <2> QED
    BY Zenon, <1>1, <1>4, <1>6, <2>2, <2>3 DEF TrapTypes
<1>9. OnlyHart(c)
  <2>1. x \in {c, running[c]}
    BY Zenon, <1>3 DEF Thread
  <2> QED
    BY <1>1, <1>4, <1>5, <2>1 DEF OnlyHart, TrapTypes, TrapInv, OneHartEach
<1>10. /\ regs[c]["s"] = <<"kernel", x>> /\ regs[c]["sp"] = KStack(x)
       /\ at[c] = "syscall" => regs[c]["t"] \in {<<"kernel", x>>, Garbage}
       /\ IF x \in Users THEN at[c] \in {"syscall", "usertrapret"} /\ x = running[c]
                         ELSE at[c] = "scheduler" /\ running[c] = NoUser
  <2>1. at[c] = "scheduler" => running[c] = NoUser /\ x \notin Users
    BY Zenon, <1>1, <1>3, ThreadIs DEF HartInv
  <2>2. at[c] # "scheduler" => x = running[c] /\ x \in Users
    BY Zenon, <1>1, <1>2, <1>3, ThreadIs DEF HartInv, UserPlaces
  <2> QED
    BY Zenon, <1>1, <1>2, <1>3, <2>1, <2>2 DEF HartInv
<1>11. frame'[x] = f /\ at'[c] = "kerneltrap"
  BY Zenon, <1>1, <1>4, <1>5 DEF TrapTypes
<1>12. FrameOK(x)'
  <2>1. /\ frame'[x].regs = regs[c] /\ frame'[x].sepc = <<"kernel", at[c]>> /\ frame'[x].spp
        /\ frame'[x].spie
    BY <1>1, <1>11
  <2>2. frame'[x].sepc[2] = at[c]
    BY SMTT(60), <2>1
  <2> QED
    BY Zenon, <1>10, <2>1, <2>2 DEF FrameOK
<1>13. HartInv(c)'
  <2>1. Thread(c)' = x
    BY Zenon, <1>3, <1>4 DEF Thread
  <2> QED
    BY ZenonT(60), <1>1, <1>2, <1>3, <1>4, <1>6, <1>11, <1>12, <2>1 DEF HartInv, Private, UserPlaces, TrapTypes
<1>14. ProgramInv(c)'
  <2>1. running[c] # NoUser => x \in Users /\ x = running[c] /\ frame'[x].sepc[2] = at[c]
    <3>1. frame'[x].sepc[2] = at[c]
      BY <1>11
    <3> QED
      BY Zenon, <1>10, <3>1
  <2>2. running[c] # NoUser => Saved(x, at[c])
    BY Zenon, <1>1, <1>10, <2>1 DEF ProgramInv
  <2> QED
    BY Zenon, <1>4, <1>11, <2>1, <2>2 DEF ProgramInv, Saved
<1> QED
  BY Zenon, <1>2, <1>4, <1>8, <1>9, <1>13, <1>14, Keep DEF TrapInv

LEMMA kerneltrapKeeps ==
  ASSUME TrapInv, NEW c \in Harts, kerneltrap(c)
  PROVE  TrapInv'
<1>1. TrapTypes /\ HartInv(c) /\ ProgramInv(c) /\ at[c] = "kerneltrap"
  BY Zenon DEF TrapInv, kerneltrap
<1>2. PICK x \in Threads : x = Thread(c)
  BY Zenon, <1>1, ThreadIs
<1>3. ~intr[c] /\ FrameOK(x) /\ stvec[c] = "kernelvec"
  BY Zenon, <1>1, <1>2 DEF HartInv, Private
<1>4. ~trapPanic'
  BY Zenon, <1>1, <1>2, <1>3 DEF kerneltrap, TrapInv, FrameOK
<1>5. /\ sepc' = [sepc EXCEPT ![c] = Garbage] /\ cause' = [cause EXCEPT ![c] = "none"]
      /\ UNCHANGED <<stvec, satp, spp, spie, upc, tf, frame, user>>
      /\ sepc' \in [Harts -> TrapValues] /\ cause' \in [Harts -> {"none", "ecall", "device", "timer"}]
      /\ \A d \in Harts \ {c} : sepc'[d] = sepc[d] /\ cause'[d] = cause[d]
  BY Zenon, <1>1, Values DEF kerneltrap, TrapTypes
<1>6. CASE cause[c] = "timer" /\ running[c] # NoUser
  <2>1. PICK p \in Users : p = running[c]
    BY Zenon, <1>1, <1>6 DEF TrapTypes
  <2>2. p = x /\ Saved(p, frame[p].sepc[2]) /\ swtch(c, "trapreturn")
    BY Zenon, <1>1, <1>2, <1>6, <2>1 DEF Thread, ProgramInv, kerneltrap
  <2> QED
    BY Zenon, <1>1, <1>3, <1>4, <1>5, <2>1, <2>2, swtchKeeps
<1>7. CASE ~(cause[c] = "timer" /\ running[c] # NoUser)
  <2>1. at' = [at EXCEPT ![c] = "trapreturn"] /\ UNCHANGED <<context, regs, intr, running>>
    BY Zenon, <1>7 DEF kerneltrap, Goto
  <2>2. TrapTypes'
    BY Zenon, <1>1, <1>5, <2>1 DEF TrapTypes, Places
  <2>3. OnlyHart(c)
    BY Zenon, <1>1, <1>5, <2>1 DEF OnlyHart, TrapTypes, TrapInv, OneHartEach
  <2>4. Thread(c)' = x /\ FrameOK(x)' /\ at'[c] = "trapreturn"
    BY ZenonT(60), <1>1, <1>2, <1>3, <1>5, <2>1 DEF Thread, FrameOK, TrapTypes
  <2>5. HartInv(c)'
    BY <1>1, <1>2, <1>3, <1>5, <2>1, <2>4 DEF HartInv, Private, UserPlaces
  <2>6. ProgramInv(c)'
    BY Zenon, <1>1, <1>5, <2>1, <2>4 DEF ProgramInv, Saved
  <2> QED
    BY Zenon, <1>4, <2>1, <2>2, <2>3, <2>5, <2>6, Keep
<1> QED
  BY Zenon, <1>6, <1>7

LEMMA trapreturnKeeps ==
  ASSUME TrapInv, NEW c \in Harts, trapreturn(c)
  PROVE  TrapInv'
<1>1. TrapTypes /\ HartInv(c) /\ ProgramInv(c) /\ at[c] = "trapreturn"
  BY Zenon DEF TrapInv, trapreturn
<1>2. PICK x \in Threads : x = Thread(c)
  BY Zenon, <1>1, ThreadIs
<1>3. FrameOK(x) /\ stvec[c] = "kernelvec"
  BY Zenon, <1>1, <1>2 DEF HartInv
<1>4. PICK l \in IF x \in Users THEN {"syscall", "usertrapret"} ELSE {"scheduler"} :
        frame[x].sepc = <<"kernel", l>>
  BY Zenon, <1>3 DEF FrameOK
<1>5. /\ frame[x] \in Frames /\ frame[x].sepc[2] = l /\ l \in Places
      /\ l \in {"syscall", "usertrapret", "scheduler"} /\ frame[x].spie
  BY <1>1, <1>3, <1>4 DEF TrapTypes, Places, UserPlaces, FrameOK
<1>6. /\ regs' = [regs EXCEPT ![c] = [frame[x].regs EXCEPT !["tp"] = regs[c]["tp"]]]
      /\ intr' = [intr EXCEPT ![c] = frame[x].spie]
      /\ spp' = [spp EXCEPT ![c] = FALSE] /\ spie' = [spie EXCEPT ![c] = TRUE]
      /\ at' = [at EXCEPT ![c] = l]
      /\ frame' = [frame EXCEPT ![x] = NoFrame]
      /\ UNCHANGED <<sepc, stvec, satp, cause, running, upc, tf, context, user, trapPanic>>
  BY Zenon, <1>2, <1>5 DEF trapreturn, Popped, Goto
<1>7. /\ [frame[x].regs EXCEPT !["tp"] = regs[c]["tp"]] \in RegFiles
      /\ regs'[c]["tp"] = regs[c]["tp"] /\ regs'[c]["sp"] = frame[x].regs["sp"]
      /\ regs'[c]["s"] = frame[x].regs["s"] /\ regs'[c]["t"] = frame[x].regs["t"]
  <2>1. regs[c] \in [Regs -> TrapValues] /\ frame[x].regs \in [Regs -> TrapValues]
    BY Zenon, <1>1, <1>5 DEF TrapTypes, RegFiles, Frames
  <2>2. regs'[c] = [frame[x].regs EXCEPT !["tp"] = regs[c]["tp"]]
    BY Zenon, <1>1, <1>6 DEF TrapTypes
  <2> QED
    BY Zenon, <2>1, <2>2 DEF RegFiles, Regs
<1>8. NoFrame \in Frames
  BY Zenon, UserFiles, Wraps, Values DEF NoFrame, Frames
<1>9. TrapTypes'
  BY Zenon, <1>1, <1>5, <1>6, <1>7, <1>8 DEF TrapTypes
<1>10. OnlyHart(c)
  <2>1. x \in {c, running[c]}
    BY Zenon, <1>2 DEF Thread
  <2> QED
    BY Zenon, <1>1, <1>6, <2>1 DEF OnlyHart, TrapTypes, TrapInv, OneHartEach
<1>11. at'[c] = l /\ Thread(c)' = x
  BY Zenon, <1>1, <1>2, <1>6 DEF TrapTypes, Thread
<1>12. IF x \in Users THEN running[c] = x /\ l # "scheduler" ELSE running[c] = NoUser /\ l = "scheduler"
  BY Zenon, <1>1, <1>2, <1>4, ThreadIs
<1>13. HartInv(c)'
  BY Zenon, <1>1, <1>2, <1>3, <1>5, <1>6, <1>7, <1>11, <1>12 DEF HartInv, FrameOK, Private, UserPlaces
<1>14. ProgramInv(c)'
  <2>1. x \in Users => Saved(x, l)
    BY Zenon, <1>1, <1>5, <1>12, TrapsAssumption DEF ProgramInv
  <2> QED
    BY Zenon, <1>5, <1>6, <1>11, <1>12, <2>1 DEF ProgramInv, Saved
<1> QED
  BY Zenon, <1>6, <1>9, <1>10, <1>13, <1>14, Keep DEF TrapInv

-----------------------------------------------------------------------------
(* Back to user code.                                                      *)

LEMMA usertrapretKeeps ==
  ASSUME TrapInv, NEW c \in Harts, usertrapret(c)
  PROVE  TrapInv'
<1>1. TrapTypes /\ HartInv(c) /\ ProgramInv(c) /\ at[c] = "setup"
  BY Zenon DEF TrapInv, usertrapret
<1>2. PICK p \in Users : p = running[c]
  BY Zenon, <1>1 DEF HartInv, UserPlaces
<1>3. /\ p # NoUser /\ p \in Threads
      /\ regs[c]["tp"] = <<"hart", c>> /\ satp[c] = KernelPT /\ tf[p].epc = user[p].pc
      /\ user[p].regs = tf[p].regs /\ user[p].pc \in 0..(PCS - 1) /\ ~intr[c]
  BY Zenon, <1>1, <1>2, TrapsAssumption DEF HartInv, ProgramInv, Saved, Threads, Private, TrapTypes
<1> DEFINE f == Armed(tf[p], p, c)
<1>4. /\ stvec' = [stvec EXCEPT ![c] = "uservec"]
      /\ tf' = [tf EXCEPT ![p].satp = satp[c], ![p].sp = KStack(p), ![p].hartid = regs[c]["tp"]]
      /\ spp' = [spp EXCEPT ![c] = FALSE] /\ spie' = [spie EXCEPT ![c] = TRUE]
      /\ sepc' = [sepc EXCEPT ![c] = <<"user", tf[p].epc>>]
      /\ at' = [at EXCEPT ![c] = "userret"]
      /\ UNCHANGED <<regs, satp, intr, cause, running, upc, context, frame, user, trapPanic>>
  BY Zenon, <1>2 DEF usertrapret, Goto
<1>5. /\ f \in TrapFrames /\ f.regs = tf[p].regs /\ f.satp = KernelPT /\ f.sp = KStack(p)
      /\ f.hartid = <<"hart", c>>
  <2>1. tf[p] \in TrapFrames
    BY Zenon, <1>1 DEF TrapTypes
  <2> QED
    BY Zenon, <1>3, <2>1, ArmedFrame
<1>6. tf' = [tf EXCEPT ![p] = f]
  BY Zenon, <1>1, <1>3, <1>4 DEF TrapTypes, TrapFrames, Armed
<1> HIDE DEF f
<1>7. TrapTypes'
  <2>1. <<"user", tf[p].epc>> \in TrapValues
    BY Zenon, <1>3, Values, Wraps
  <2> QED
    <3>1. tf' \in [Users -> TrapFrames] /\ sepc' \in [Harts -> TrapValues]
      <4>1. tf' \in [Users -> TrapFrames]
        BY Zenon, <1>1, <1>5, <1>6 DEF TrapTypes
      <4> QED
        BY Zenon, <1>1, <1>4, <2>1, <4>1 DEF TrapTypes
    <3> QED
      BY Zenon, <1>1, <1>4, <3>1 DEF TrapTypes, Places, UserPlaces
<1>8. OnlyHart(c)
  BY <1>1, <1>2, <1>4, <1>6 DEF OnlyHart, TrapTypes, TrapInv, OneHartEach
<1>9. at'[c] = "userret" /\ stvec'[c] = "uservec" /\ spie'[c] /\ sepc'[c] = <<"user", user[p].pc>>
      /\ tf'[p] = f
  BY Zenon, <1>1, <1>3, <1>4, <1>6 DEF TrapTypes
<1>10. HartInv(c)'
  <2>1. Thread(c)' = Thread(c)
    BY Zenon, <1>4 DEF Thread
  <2> QED
    BY Zenon, <1>1, <1>2, <1>3, <1>4, <1>9, <2>1 DEF HartInv, Private, UserPlaces
<1>11. ProgramInv(c)'
  BY Zenon, <1>2, <1>3, <1>4, <1>5, <1>9 DEF ProgramInv, KernelValues
<1> QED
  BY Zenon, <1>2, <1>4, <1>7, <1>8, <1>10, <1>11, Keep DEF TrapInv

LEMMA userretKeeps ==
  ASSUME TrapInv, NEW c \in Harts, userret(c)
  PROVE  TrapInv'
<1>1. TrapTypes /\ HartInv(c) /\ ProgramInv(c) /\ at[c] = "userret"
  BY Zenon DEF TrapInv, userret
<1>2. PICK p \in Users : p = running[c]
  BY Zenon, <1>1 DEF HartInv, UserPlaces
<1>3. /\ p # NoUser /\ p \in Threads /\ stvec[c] = "uservec" /\ spie[c]
      /\ user[p].regs = tf[p].regs /\ sepc[c][2] = user[p].pc /\ user[p].pc \in 0..(PCS - 1)
      /\ tf[p] \in TrapFrames /\ tf[p].regs \in RegFiles
      /\ tf[p].satp = KernelPT /\ tf[p].sp = KStack(p) /\ tf[p].hartid = <<"hart", c>>
  BY <1>1, <1>2, TrapsAssumption DEF HartInv, ProgramInv, KernelValues, Threads, TrapTypes, TrapFrames
<1> DEFINE f == [[tf[p] EXCEPT !.regs = UserRegs(NoUser, 0)] EXCEPT !.epc = 0]
<1>4. /\ satp' = [satp EXCEPT ![c] = <<"user", p>>] /\ regs' = [regs EXCEPT ![c] = tf[p].regs]
      /\ tf' = [tf EXCEPT ![p].regs = UserRegs(NoUser, 0), ![p].epc = 0]
      /\ upc' = [upc EXCEPT ![c] = sepc[c][2]] /\ sepc' = [sepc EXCEPT ![c] = Garbage]
      /\ intr' = [intr EXCEPT ![c] = spie[c]] /\ at' = [at EXCEPT ![c] = "user"]
      /\ UNCHANGED <<stvec, spp, spie, cause, running, context, frame, user, trapPanic>>
  BY Zenon, <1>2 DEF userret, Goto
<1>5. f \in TrapFrames /\ f.satp = KernelPT /\ f.sp = KStack(p) /\ f.hartid = <<"hart", c>>
  <2>1. UserRegs(NoUser, 0) \in RegFiles /\ 0 \in 0..(PCS - 1)
    BY Zenon, UserFiles, Wraps
  <2> QED
    BY Zenon, <1>3, <2>1 DEF TrapFrames
<1>6. tf' = [tf EXCEPT ![p] = f]
  BY Zenon, <1>1, <1>4 DEF TrapTypes, TrapFrames
<1> HIDE DEF f
<1>7. TrapTypes'
  <2>1. tf' \in [Users -> TrapFrames]
    BY Zenon, <1>1, <1>5, <1>6 DEF TrapTypes
  <2>2. <<"user", p>> \in TrapValues /\ Garbage \in TrapValues
    BY Zenon, Values
  <2> QED
    BY Zenon, <1>1, <1>3, <1>4, <2>1, <2>2 DEF TrapTypes, Places, UserPlaces
<1>8. OnlyHart(c)
  BY <1>1, <1>2, <1>4, <1>6 DEF OnlyHart, TrapTypes, TrapInv, OneHartEach
<1>9. /\ at'[c] = "user" /\ intr'[c] /\ upc'[c] = user[p].pc /\ regs'[c] = user[p].regs
      /\ satp'[c] = <<"user", p>> /\ tf'[p] = f
  BY Zenon, <1>1, <1>3, <1>4, <1>6 DEF TrapTypes
<1>10. HartInv(c)'
  BY Zenon, <1>1, <1>2, <1>3, <1>4, <1>9 DEF HartInv, Private, UserPlaces
<1>11. ProgramInv(c)'
  BY Zenon, <1>2, <1>4, <1>5, <1>9 DEF ProgramInv, KernelValues
<1> QED
  BY Zenon, <1>2, <1>4, <1>7, <1>8, <1>10, <1>11, Keep DEF TrapInv

-----------------------------------------------------------------------------
(* The theorems.                                                           *)

LEMMA AnyInvariance == AnySpec => []TrapInv
<1>1. ASSUME TrapInv, [AnyNext]_trapvars PROVE TrapInv'
  <2>1. CASE UNCHANGED trapvars
    <3> USE <2>1 DEF trapvars, csr
    <3>1. TrapTypes' /\ OneHartEach' /\ ~trapPanic'
      BY Zenon, <1>1 DEF TrapInv, TrapTypes, OneHartEach
    <3>2. ASSUME NEW x PROVE (FrameOK(x) => FrameOK(x)') /\ (\A m : Saved(x, m) => Saved(x, m)')
      BY Zenon DEF FrameOK, Saved
    <3>3. ASSUME NEW c \in Harts PROVE HartInv(c)' /\ ProgramInv(c)'
      <4>1. HartInv(c) /\ ProgramInv(c) /\ Thread(c)' = Thread(c)
        BY Zenon, <1>1 DEF TrapInv, Thread
      <4>2. HartInv(c)'
        BY Zenon, <3>2, <4>1 DEF HartInv
      <4>3. ProgramInv(c)'
        BY Zenon, <3>2, <4>1 DEF ProgramInv, KernelValues
      <4> QED
        BY Zenon, <4>2, <4>3
    <3>4. ASSUME NEW q \in Users, \A c \in Harts : running'[c] # q PROVE Parked(q)'
      BY Zenon, <1>1, <3>2, <3>4 DEF TrapInv, Parked
    <3> QED
      BY Zenon, <3>1, <3>3, <3>4 DEF TrapInv
  <2>2. ASSUME NEW c \in Harts, InUser(c) PROVE TrapInv'
    BY Zenon, <1>1, <2>2, uservecKeeps DEF InUser
  <2>3. ASSUME NEW c \in Harts, InKernel(c) PROVE TrapInv'
    BY Zenon, <1>1, <2>3, usertrapKeeps, syscallKeeps, sleepKeeps, intrKeeps, kerneltrapKeeps,
       trapreturnKeeps, usertrapretKeeps, userretKeeps, schedulerKeeps, kernelvecKeeps DEF InKernel
  <2> QED
    BY Zenon, <1>1, <2>1, <2>2, <2>3 DEF AnyNext
<1> QED
  BY TrapInitInv, <1>1, PTL DEF AnySpec

LEMMA Exact == TrapInv => ContextsExact
<1> SUFFICES ASSUME TrapInv PROVE ContextsExact
  BY Zenon
<1>1. ASSUME NEW c \in Harts PROVE HartInv(c) /\ ProgramInv(c) /\ at[c] \in Places
  BY Zenon, <1>1 DEF TrapInv, TrapTypes
<1>2. UserContextExact
  BY Zenon, <1>1 DEF UserContextExact, HartInv, ProgramInv
<1>3. ASSUME NEW c \in Harts, at[c] # "user", intr[c] PROVE stvec[c] = "kernelvec"
  BY Zenon, <1>1, <1>3 DEF HartInv, Private, Places
<1>4. KernelContextExact
  BY Zenon, <1>1, <1>3 DEF KernelContextExact, HartInv, TrapInv
<1> QED
  BY Zenon, <1>2, <1>4 DEF ContextsExact

\* With any number of harts and processes, and the steps of the harts in any
\* order, neither user code nor kernel code notices a trap or a context switch,
\* and the panics of usertrap and kerneltrap are never reached.
THEOREM ContextsKept == AnySpec => []ContextsExact
  BY AnyInvariance, Exact, PTL

\* The same of the specification that TLC runs, whose harts are interleaved less.
THEOREM ContextsKeptReduced == TrapsSpec => []ContextsExact
<1>1. [TrapsNext]_trapvars => [AnyNext]_trapvars
  BY Zenon DEF TrapsNext, AnyNext
<1> QED
  BY <1>1, ContextsKept, PTL DEF TrapsSpec, AnySpec

-----------------------------------------------------------------------------
(* Spin locks.                                                             *)

\* The locks of the code the CPU is running now.
Mine(c) == held[c][ctx[c]]

\* CPU c has swapped lk->locked to 1 and not yet cleared it.
Owns(c, l) == l \in Mine(c) \/ (pc[c] \in {"setcpu", "unlock"} /\ arg[c] = l)

\* Only the current context of a CPU can have locks.
OneContext ==
  \A c \in CPUs :
    /\ ctx[c] = "thread" => held[c]["trap"] = {}
    /\ ctx[c] = "trap" => held[c]["thread"] = {} /\ saved[c][1] = "run"

\* lk->locked says that a lock has an owner, lk->cpu who has got it.
Ownership ==
  /\ \A l \in Locks : \A c \in CPUs : Owns(c, l) => locked[l]
  /\ \A l \in Locks : \A c, d \in CPUs : Owns(c, l) /\ Owns(d, l) => c = d
  /\ \A l \in Locks : \A c \in CPUs : cpu[l] = c <=> l \in Mine(c)
  /\ \A c \in CPUs : pc[c] \in {"setcpu", "unlock"} => arg[c] \notin Mine(c)

\* noff counts, and interrupts are masked exactly while it is not zero.
Masking ==
  \A c \in CPUs :
    /\ pc[c] # "panic"
    /\ noff[c] = Cardinality(Mine(c)) + InFlight(c)
    /\ noff[c] = 0 => sie[c] = want[c]
    /\ noff[c] # 0 => ~sie[c] /\ intena[c] = want[c]
    /\ ctx[c] = "trap" => ~want[c]

IInv == TypeOK /\ OneContext /\ Ownership /\ Masking

-----------------------------------------------------------------------------

\* A CPU's locks are finitely many, so noff can count them.
LEMMA MineFinite ==
  ASSUME TypeOK, NEW c \in CPUs
  PROVE  /\ Mine(c) \in SUBSET Locks
         /\ IsFiniteSet(Mine(c))
         /\ Cardinality(Mine(c)) \in Nat
<1>1. Mine(c) \in SUBSET Locks
  BY SMTT(60) DEF TypeOK, Mine, Ctx
<1>2. IsFiniteSet(Mine(c))
  BY Zenon, <1>1, LocksAssumption, FS_Subset
<1> QED
  BY Zenon, <1>1, <1>2, FS_CardinalityType

\* initlock() and the boot state of the harts establish the invariant.
LEMMA InitInv == Init => IInv
<1> SUFFICES ASSUME Init PROVE IInv
  BY Zenon
<1> USE DEF Init
<1>1. TypeOK
  <2>1. (CHOOSE l \in Locks : TRUE) \in Locks
    BY Zenon, LocksAssumption
  <2> QED
    BY Zenon, <2>1 DEF TypeOK, Ctx, PCs
<1>2. OneContext
  BY Zenon DEF OneContext, Ctx
<1>3. \A c \in CPUs : Mine(c) = {}
  BY Zenon DEF Mine, Ctx
<1>4. Ownership
  BY Zenon, <1>3, NoCpuAssumption DEF Ownership, Owns
<1>5. Masking
  <2>1. \A c \in CPUs : Cardinality(Mine(c)) = 0
    BY Zenon, <1>3, FS_EmptySet
  <2> QED
    BY <2>1 DEF Masking, InFlight
<1> QED
  BY Zenon, <1>1, <1>2, <1>4, <1>5 DEF IInv

\* push_off() and the panic test of acquire() keep the invariant.
LEMMA AcquireInv ==
  ASSUME IInv, NEW c \in CPUs, NEW l \in Locks, Acquire(c, l)
  PROVE  IInv'
<1> USE DEF IInv
<1>1. l \notin Mine(c)
  BY LocksAssumption DEF Acquire, Mine
<1>2. pc' = [pc EXCEPT ![c] = "spin"]
  BY Zenon, <1>1 DEF Acquire, holding, Ownership
<1>3. TypeOK'
  BY <1>2 DEF Acquire, push_off, TypeOK, PCs
<1>4. \A d \in CPUs : Mine(d)' = Mine(d)
  BY Zenon DEF Acquire, Mine
<1>5. OneContext'
  BY Zenon DEF Acquire, OneContext
<1>6. \A d \in CPUs, k \in Locks : Owns(d, k)' <=> Owns(d, k)
  BY Zenon, <1>2, <1>4 DEF Acquire, Owns, TypeOK
<1>7. Ownership'
  BY <1>2, <1>4, <1>6 DEF Acquire, Ownership, TypeOK
<1>8. Masking'
  <2> SUFFICES ASSUME NEW d \in CPUs
               PROVE  /\ pc'[d] # "panic"
                      /\ noff'[d] = Cardinality(Mine(d)) + InFlight(d)'
                      /\ noff'[d] = 0 => sie'[d] = want'[d]
                      /\ noff'[d] # 0 => ~sie'[d] /\ intena'[d] = want'[d]
                      /\ ctx'[d] = "trap" => ~want'[d]
    BY Zenon, <1>4 DEF Masking
  <2>1. Cardinality(Mine(d)) \in Nat
    BY Zenon, MineFinite
  <2>2. CASE d = c
    <3>1. InFlight(c) = 0 /\ InFlight(c)' = 1 /\ pc'[c] = "spin"
      BY Zenon, <1>2 DEF Acquire, InFlight, TypeOK
    <3>2. noff'[c] = noff[c] + 1 /\ noff[c] \in Nat /\ noff'[c] # 0
      BY DEF Acquire, push_off, TypeOK
    <3>3. noff'[c] = Cardinality(Mine(c)) + InFlight(c)'
      <4>1. noff[c] = Cardinality(Mine(c)) + InFlight(c)
        BY Zenon DEF Masking
      <4> QED
        BY <2>1, <2>2, <3>1, <3>2, <4>1
    <3>4. ~sie'[c] /\ want' = want /\ ctx' = ctx
      BY Zenon DEF Acquire, push_off, TypeOK
    <3>5. intena'[c] = IF noff[c] = 0 THEN sie[c] ELSE intena[c]
      BY Zenon DEF Acquire, push_off, TypeOK
    <3> QED
      BY Zenon, <2>2, <3>1, <3>2, <3>3, <3>4, <3>5 DEF Masking
  <2>3. CASE d # c
    BY Zenon, <1>2, <2>3 DEF Acquire, push_off, Masking, InFlight, TypeOK
  <2> QED
    BY Zenon, <2>2, <2>3
<1> QED
  BY Zenon, <1>3, <1>5, <1>7, <1>8

\* The swap on lk->locked keeps it: it makes the one owner of a free lock.
LEMMA TestAndSetInv ==
  ASSUME IInv, NEW c \in CPUs, TestAndSet(c)
  PROVE  IInv'
<1> USE DEF IInv
<1>1. TypeOK'
  BY Zenon DEF TestAndSet, TypeOK, PCs
<1>2. \A d \in CPUs : Mine(d)' = Mine(d)
  BY Zenon DEF TestAndSet, Mine
<1>3. OneContext'
  BY Zenon DEF TestAndSet, OneContext
<1>4. \A d \in CPUs : ~Owns(d, arg[c])
  BY Zenon DEF TestAndSet, Free, Ownership, TypeOK
<1>5. \A d \in CPUs, k \in Locks :
        Owns(d, k)' <=> Owns(d, k) \/ (d = c /\ k = arg[c])
  BY Zenon, <1>2 DEF TestAndSet, Owns, TypeOK
<1>6. Ownership'
  BY <1>2, <1>4, <1>5 DEF TestAndSet, Ownership, TypeOK, Owns
<1>7. Masking'
  BY Zenon, <1>2 DEF TestAndSet, Masking, InFlight, TypeOK
<1> QED
  BY Zenon, <1>1, <1>3, <1>6, <1>7

\* The store to lk->cpu keeps it: owner and holder now agree.
LEMMA SetCpuInv ==
  ASSUME IInv, NEW c \in CPUs, SetCpu(c)
  PROVE  IInv'
<1> USE DEF IInv
<1>1. TypeOK'
  BY DEF SetCpu, TypeOK, PCs, Ctx
<1>2. /\ Mine(c)' = Mine(c) \cup {arg[c]}
      /\ \A d \in CPUs : d # c => Mine(d)' = Mine(d)
  BY Zenon DEF SetCpu, Mine, TypeOK, Ctx
<1>3. OneContext'
  BY DEF SetCpu, OneContext, TypeOK, Ctx
<1>4. \A d \in CPUs, k \in Locks : Owns(d, k)' <=> Owns(d, k)
  BY Zenon, <1>2 DEF SetCpu, Owns, TypeOK
<1>5. Owns(c, arg[c]) /\ arg[c] \in Locks /\ arg[c] \notin Mine(c)
  BY Zenon DEF SetCpu, Owns, TypeOK, Ownership
<1>6. \A d \in CPUs : arg[c] \in Mine(d) => d = c
  BY Zenon, <1>5 DEF Ownership, Owns
<1>7. Ownership'
  BY <1>2, <1>4, <1>5, <1>6 DEF SetCpu, Ownership, TypeOK
<1>8. Masking'
  <2>1. Cardinality(Mine(c) \cup {arg[c]}) = Cardinality(Mine(c)) + 1
    BY Zenon, <1>5, MineFinite, FS_AddElement
  <2>2. Cardinality(Mine(c)) \in Nat
    BY Zenon, MineFinite
  <2>3. InFlight(c) = 1 /\ InFlight(c)' = 0 /\ pc'[c] = "run"
    BY Zenon DEF SetCpu, InFlight, TypeOK
  <2>4. \A d \in CPUs : d # c => InFlight(d)' = InFlight(d) /\ pc'[d] = pc[d]
    BY Zenon DEF SetCpu, InFlight, TypeOK
  <2>5. UNCHANGED <<noff, sie, intena, want, ctx>>
    BY Zenon DEF SetCpu
  <2>6. noff[c] = Cardinality(Mine(c)') + InFlight(c)'
    BY <1>2, <2>1, <2>2, <2>3 DEF Masking
  <2> QED
    BY Zenon, <1>2, <2>3, <2>4, <2>5, <2>6 DEF Masking
<1> QED
  BY Zenon, <1>1, <1>3, <1>7, <1>8

\* release() up to the store to lk->cpu keeps it, and does not panic.
LEMMA ReleaseInv ==
  ASSUME IInv, NEW c \in CPUs, NEW l \in Locks, Release(c, l)
  PROVE  IInv'
<1> USE DEF IInv
<1>1. l \in Mine(c) /\ holding(c, l)
  BY Zenon DEF Release, ClearCpu, Mine, holding, Ownership, Owns
<1>2. TypeOK'
  <2>0. held' = [held EXCEPT ![c][ctx[c]] = @ \ {l}]
    BY Zenon, <1>1 DEF Release
  <2>1. held' \in [CPUs -> [Ctx -> SUBSET Locks]]
    BY <2>0 DEF TypeOK
  <2>2. cpu' \in [Locks -> CPUs \cup {NoCpu}] /\ pc' \in [CPUs -> PCs]
    BY Zenon, <1>1 DEF Release, ClearCpu, TypeOK, PCs
  <2> QED
    BY Zenon, <2>1, <2>2 DEF Release, ClearCpu, TypeOK
<1>3. /\ Mine(c)' = Mine(c) \ {l}
      /\ \A d \in CPUs : d # c => Mine(d)' = Mine(d)
  BY <1>1 DEF Release, ClearCpu, Mine, TypeOK, Ctx
<1>4. OneContext'
  <2>0. held' = [held EXCEPT ![c][ctx[c]] = @ \ {l}]
    BY Zenon, <1>1 DEF Release
  <2>1. \A d \in CPUs, x \in Ctx : held'[d][x] \subseteq held[d][x]
    BY Zenon, <2>0 DEF TypeOK
  <2> QED
    BY Zenon, <2>1 DEF OneContext, Ctx, Release
<1>5. \A d \in CPUs, k \in Locks : Owns(d, k)' <=> Owns(d, k)
  BY Zenon, <1>1, <1>3 DEF Release, ClearCpu, Owns, TypeOK
<1>6. Ownership'
  BY <1>1, <1>3, <1>5, NoCpuAssumption DEF Release, ClearCpu, Ownership, TypeOK, Owns
<1>7. Masking'
  <2>1. Cardinality(Mine(c) \ {l}) = Cardinality(Mine(c)) - 1
    BY Zenon, <1>1, MineFinite, FS_RemoveElement
  <2>2. Cardinality(Mine(c)) \in Nat
    BY Zenon, MineFinite
  <2>3. InFlight(c) = 0 /\ InFlight(c)' = 1 /\ pc'[c] = "unlock"
    BY Zenon, <1>1 DEF Release, ClearCpu, InFlight, TypeOK
  <2>4. \A d \in CPUs : d # c => InFlight(d)' = InFlight(d) /\ pc'[d] = pc[d]
    BY Zenon, <1>1 DEF Release, ClearCpu, InFlight, TypeOK
  <2>5. UNCHANGED <<noff, sie, intena, want, ctx>>
    BY Zenon DEF Release
  <2>6. noff[c] = Cardinality(Mine(c)') + InFlight(c)'
    BY <1>3, <2>1, <2>2, <2>3 DEF Masking
  <2> QED
    BY Zenon, <1>3, <2>3, <2>4, <2>5, <2>6 DEF Masking
<1> QED
  BY Zenon, <1>2, <1>4, <1>6, <1>7

\* The store that frees the lock and pop_off() keep it.
LEMMA UnlockInv ==
  ASSUME IInv, NEW c \in CPUs, Unlock(c)
  PROVE  IInv'
<1> USE DEF IInv
<1>1. Cardinality(Mine(c)) \in Nat
  BY Zenon, MineFinite
<1>2. noff[c] = Cardinality(Mine(c)) + 1 /\ ~sie[c]
  BY <1>1 DEF Unlock, Masking, InFlight
<1>3. /\ pc' = [pc EXCEPT ![c] = "run"]
      /\ noff' = [noff EXCEPT ![c] = @ - 1]
      /\ sie' = [sie EXCEPT ![c] = (noff[c] = 1 /\ intena[c])]
  BY <1>1, <1>2 DEF Unlock, pop_off
<1>4. TypeOK'
  BY <1>1, <1>2, <1>3 DEF Unlock, TypeOK, PCs
<1>5. \A d \in CPUs : Mine(d)' = Mine(d)
  BY Zenon DEF Unlock, Mine
<1>6. OneContext'
  BY Zenon DEF Unlock, OneContext
<1>7. \A d \in CPUs, k \in Locks :
        Owns(d, k)' <=> Owns(d, k) /\ ~(d = c /\ k = arg[c])
  BY <1>3, <1>5 DEF Unlock, Owns, TypeOK, Ownership
<1>8. Owns(c, arg[c])
  BY Zenon DEF Unlock, Owns
<1>9. Ownership'
  BY SMTT(60), <1>3, <1>5, <1>7, <1>8 DEF Unlock, Ownership, TypeOK
<1>10. Masking'
  BY <1>1, <1>2, <1>3, <1>5 DEF Unlock, Masking, InFlight, TypeOK
<1> QED
  BY Zenon, <1>4, <1>6, <1>9, <1>10

\* intr_on() and intr_off() outside critical sections keep it.
LEMMA SetInterruptsInv ==
  ASSUME IInv, NEW c \in CPUs, NEW on \in BOOLEAN, SetInterrupts(c, on)
  PROVE  IInv'
<1> USE DEF IInv
<1>1. TypeOK'
  BY Zenon DEF SetInterrupts, TypeOK
<1>2. \A d \in CPUs : Mine(d)' = Mine(d) /\ InFlight(d)' = InFlight(d)
  BY Zenon DEF SetInterrupts, Mine, InFlight
<1>3. OneContext'
  BY Zenon DEF SetInterrupts, OneContext
<1>4. Ownership'
  BY <1>2 DEF SetInterrupts, Ownership, Owns
<1>5. noff[c] = 0
  <2>1. Mine(c) = {} /\ InFlight(c) = 0
    BY Zenon DEF SetInterrupts, InFlight, Mine
  <2>2. Cardinality(Mine(c)) = 0
    BY Zenon, <2>1, FS_EmptySet
  <2> QED
    BY <2>1, <2>2 DEF Masking
<1>6. Masking'
  BY Zenon, <1>2, <1>5 DEF SetInterrupts, Masking, TypeOK
<1> QED
  BY Zenon, <1>1, <1>3, <1>4, <1>6

\* A CPU whose interrupts are enabled has no lock and is in the middle of none
\* of the lock operations.
LEMMA InterruptibleIdle ==
  ASSUME IInv, NEW c \in CPUs, sie[c]
  PROVE  Mine(c) = {} /\ pc[c] = "run" /\ noff[c] = 0
<1> USE DEF IInv
<1>1. Cardinality(Mine(c)) \in Nat /\ IsFiniteSet(Mine(c))
  BY Zenon, MineFinite
<1>2. noff[c] = 0
  BY Zenon DEF Masking
<1>3. Cardinality(Mine(c)) = 0 /\ InFlight(c) = 0
  BY <1>1, <1>2 DEF Masking, InFlight
<1>4. pc[c] = "run"
  BY <1>3 DEF InFlight, Masking, TypeOK, PCs
<1> QED
  BY Zenon, <1>1, <1>2, <1>3, <1>4, FS_EmptySet

\* An interrupt keeps it: it finds no lock held.
LEMMA InterruptInv ==
  ASSUME IInv, NEW c \in CPUs, Interrupt(c)
  PROVE  IInv'
<1> USE DEF IInv
<1>1. Mine(c) = {} /\ pc[c] = "run" /\ noff[c] = 0
  BY Zenon, InterruptibleIdle DEF Interrupt
<1>2. TypeOK'
  BY Zenon DEF Interrupt, TypeOK, PCs, Ctx
<1>3. OneContext'
  BY Zenon, <1>1 DEF Interrupt, OneContext, TypeOK, Mine
<1>4. \A d \in CPUs : Mine(d)' = Mine(d)
  BY Zenon, <1>1 DEF Interrupt, Mine, OneContext, TypeOK
<1>5. pc' = pc
  BY Zenon, <1>1 DEF Interrupt, TypeOK
<1>6. Ownership'
  BY <1>4, <1>5 DEF Interrupt, Ownership, Owns
<1>7. Masking'
  BY ZenonT(60), <1>1, <1>4, <1>5 DEF Interrupt, Masking, InFlight, TypeOK
<1> QED
  BY Zenon, <1>2, <1>3, <1>6, <1>7

\* The return from an interrupt keeps it.
LEMMA TrapReturnInv ==
  ASSUME IInv, NEW c \in CPUs, TrapReturn(c)
  PROVE  IInv'
<1> USE DEF IInv
<1>1. TypeOK'
  BY Zenon DEF TrapReturn, TypeOK, Ctx
<1>2. OneContext'
  BY Zenon DEF TrapReturn, OneContext, TypeOK
<1>3. \A d \in CPUs : Mine(d)' = Mine(d)
  BY Zenon DEF TrapReturn, Mine, OneContext, TypeOK
<1>4. pc' = pc
  BY Zenon DEF TrapReturn, OneContext, TypeOK
<1>5. \A d \in CPUs, k \in Locks : Owns(d, k)' <=> Owns(d, k)
  BY Zenon, <1>3, <1>4 DEF TrapReturn, Owns, TypeOK
<1>6. Ownership'
  BY <1>3, <1>4, <1>5 DEF TrapReturn, Ownership, TypeOK
<1>7. noff[c] = 0
  <2>1. Mine(c) = {} /\ InFlight(c) = 0
    BY Zenon DEF TrapReturn, InFlight, Mine
  <2>2. Cardinality(Mine(c)) = 0
    BY Zenon, <2>1, FS_EmptySet
  <2> QED
    BY <2>1, <2>2 DEF Masking
<1>8. Masking'
  BY ZenonT(60), <1>3, <1>4, <1>7 DEF TrapReturn, Masking, InFlight, TypeOK
<1> QED
  BY Zenon, <1>1, <1>2, <1>6, <1>8

\* Every step of every CPU keeps the invariant.
LEMMA StepInv ==
  ASSUME IInv, [Next]_vars
  PROVE  IInv'
<1>1. CASE UNCHANGED vars
  BY <1>1 DEF vars, IInv, TypeOK, OneContext, Ownership, Masking, Owns, Mine, InFlight
<1>2. ASSUME NEW c \in CPUs, Step(c) PROVE IInv'
  BY Zenon, <1>2, AcquireInv, TestAndSetInv, SetCpuInv, ReleaseInv, UnlockInv,
     SetInterruptsInv, InterruptInv, TrapReturnInv DEF Step
<1> QED
  BY Zenon, <1>1, <1>2 DEF Next

\* What a CPU has been given is what its current context has.
LEMMA HeldIsMine == ASSUME IInv, NEW c \in CPUs PROVE Held(c) = Mine(c)
  BY Zenon DEF IInv, Held, Mine, OneContext, TypeOK, Ctx

\* The inductive invariant holds in every reachable state.
THEOREM Invariance == Spec => []IInv
  BY InitInv, StepInv, PTL DEF Spec

\* The fields of struct spinlock and struct cpu keep their types; c->noff never
\* drops below zero.
THEOREM TypeCorrectness == Spec => []TypeOK
<1>1. IInv => TypeOK
  BY Zenon DEF IInv
<1> QED
  BY <1>1, Invariance, PTL

\* acquire() and release() give mutual exclusion between CPUs and between a
\* handler and the code it interrupted, for any number of CPUs and locks.
THEOREM MutualExclusion == Spec => []Mutex
<1>1. IInv => Mutex
  <2> SUFFICES ASSUME IInv, NEW c \in CPUs, NEW d \in CPUs, NEW x \in Ctx, NEW y \in Ctx,
                      NEW l \in held[c][x] \cap held[d][y]
               PROVE  c = d /\ x = y
    BY Zenon DEF Mutex
  <2>1. l \in Locks
    BY DEF IInv, TypeOK
  <2>2. x = ctx[c] /\ y = ctx[d]
    BY Zenon DEF IInv, OneContext, Ctx, TypeOK
  <2>3. c = d
    BY Zenon, <2>1, <2>2 DEF IInv, Ownership, Owns, Mine
  <2> QED
    BY Zenon, <2>2, <2>3
<1> QED
  BY <1>1, Invariance, PTL

\* holding() is exact and the panics of spinlock.c are unreachable.
THEOREM HoldingAndPanics == Spec => []HoldingExact
<1>1. IInv => HoldingExact
  <2> SUFFICES ASSUME IInv, NEW c \in CPUs, NEW l \in Locks
               PROVE  holding(c, l) <=> l \in Held(c)
    BY Zenon DEF HoldingExact, IInv, Masking
  <2>1. Held(c) = Mine(c)
    BY Zenon, HeldIsMine
  <2>2. cpu[l] = c <=> l \in Mine(c)
    BY Zenon DEF IInv, Ownership
  <2>3. l \in Mine(c) => locked[l]
    BY Zenon DEF IInv, Ownership, Owns
  <2> QED
    BY Zenon, <2>1, <2>2, <2>3 DEF holding
<1> QED
  BY <1>1, Invariance, PTL

\* c->noff is exactly the number of locks the CPU has or is moving.
THEOREM NestingDepth == Spec => []NestingExact
<1>1. IInv => NestingExact
  BY Zenon, HeldIsMine DEF IInv, NestingExact, Masking
<1> QED
  BY <1>1, Invariance, PTL

\* Interrupt handlers run only over code without locks, c->noff is exact and the
\* outermost release() restores the interrupt state.
THEOREM InterruptDiscipline == Spec => []InterruptsExact
<1>1. IInv => NoHandlerUnderLock
  BY Zenon DEF IInv, NoHandlerUnderLock, OneContext
<1>2. IInv => InterruptsRestored
  BY Zenon DEF IInv, InterruptsRestored, Masking
<1> QED
  BY <1>1, <1>2, Invariance, NestingDepth, PTL DEF InterruptsExact
=============================================================================
