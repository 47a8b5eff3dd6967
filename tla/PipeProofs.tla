----------------------------- MODULE PipeProofs -----------------------------
(***************************************************************************)
(* Proofs about Pipe, for any number of readers and writers, any size of   *)
(* the pipe that divides the range of the counters, and any lengths of     *)
(* calls and numbers of kills.                                             *)
(***************************************************************************)
EXTENDS Pipe, FiniteSetTheorems, TLAPS

-----------------------------------------------------------------------------
(* Remainders.                                                             *)

\* What \div and % mean, for the provers.
LEMMA DivMod ==
  ASSUME NEW a \in Nat, NEW b \in Nat \ {0}
  PROVE  /\ a \div b \in Nat /\ a % b \in 0..(b - 1)
         /\ a = b * (a \div b) + (a % b)
  OBVIOUS

\* The next multiple of b is b further.
LEMMA NextMultiple ==
  ASSUME NEW b \in Nat \ {0}, NEW q \in Int, NEW s \in Int, q < s
  PROVE  b * s >= b * q + b
<1>1. b * (s - q - 1) >= 0
  OBVIOUS
<1>2. b * (s - q - 1) = b * s - b * q - b
  OBVIOUS
<1> QED
  BY <1>1, <1>2

\* The remainder is the only one.
LEMMA ModUnique ==
  ASSUME NEW a \in Nat, NEW b \in Nat \ {0}, NEW q \in Int, NEW r \in 0..(b - 1),
         a = b * q + r
  PROVE  a % b = r
<1> DEFINE s == a \div b
           t == a % b
<1>1. s \in Nat /\ t \in 0..(b - 1) /\ a = b * s + t
  BY Zenon, DivMod
<1> HIDE DEF s, t
<1>2. b * s \in Int /\ b * q \in Int
  BY <1>1
<1>3. CASE s < q
  BY <1>1, <1>2, <1>3, NextMultiple
<1>4. CASE q < s
  BY <1>1, <1>2, <1>4, NextMultiple
<1>5. CASE q = s
  BY <1>1, <1>2, <1>5 DEF t
<1> QED
  BY <1>1, <1>3, <1>4, <1>5

\* A counter that has wrapped around, by a multiple of the size of the ring,
\* still names the same slot.
LEMMA ModWrap ==
  ASSUME NEW a \in Nat, NEW b \in Nat \ {0}, NEW k \in Nat, k % b = 0, a >= k
  PROVE  (a - k) % b = a % b
<1> DEFINE s == a \div b
           t == a % b
           m == k \div b
           d == a - k
           q == s - m
<1>1. s \in Nat /\ t \in 0..(b - 1) /\ a = b * s + t
  BY Zenon, DivMod
<1>2. m \in Nat /\ k = b * m
  BY DivMod
<1>3. d \in Nat /\ q \in Int
  BY <1>1, <1>2
<1>4. d = b * q + t
  <2> HIDE DEF s, t, m
  <2>1. b * (s - m) = b * s - b * m
    BY <1>1, <1>2
  <2> QED
    BY <2>1, <1>1, <1>2
<1> HIDE DEF s, t, m, d, q
<1>5. d % b = t
  BY Zenon, <1>1, <1>3, <1>4, ModUnique
<1> QED
  BY Zenon, <1>5 DEF d, t

\* Counters less than the size of the ring apart name different slots.
LEMMA ModDiffers ==
  ASSUME NEW a \in Nat, NEW c \in Nat, NEW b \in Nat \ {0}, a < c, c < a + b
  PROVE  a % b # c % b
<1> DEFINE s == a \div b
           t == a % b
           u == c \div b
<1> SUFFICES ASSUME c % b = t PROVE FALSE
  BY Zenon
<1>1. s \in Nat /\ t \in 0..(b - 1) /\ a = b * s + t
  BY Zenon, DivMod
<1>2. u \in Nat /\ c = b * u + t
  BY Zenon, DivMod
<1> HIDE DEF s, t, u
<1>3. b * s \in Nat /\ b * u \in Nat
  BY <1>1, <1>2
<1>4. s < u
  <2>1. CASE u = s
    BY <2>1, <1>1, <1>2, <1>3
  <2>2. CASE u < s
    BY <2>2, <1>1, <1>2, <1>3, NextMultiple
  <2> QED
    BY <2>1, <2>2, <1>1, <1>2
<1>5. b * u >= b * s + b
  BY <1>1, <1>2, <1>4, NextMultiple
<1> QED
  BY <1>1, <1>2, <1>3, <1>5

\* Remainders of numbers below twice the divisor.
LEMMA ModOnce ==
  ASSUME NEW a \in Nat, NEW b \in Nat \ {0}, a < b + b
  PROVE  a % b = IF a < b THEN a ELSE a - b
  OBVIOUS

-----------------------------------------------------------------------------
(* Sequences.                                                              *)

\* Sequences with the same elements are equal.
LEMMA SameSequence ==
  ASSUME NEW S, NEW s \in Seq(S), NEW t \in Seq(S), Len(s) = Len(t),
         \A i \in 1..Len(s) : s[i] = t[i]
  PROVE  s = t
  OBVIOUS

\* What Append yields.
LEMMA AppendFacts ==
  ASSUME NEW S, NEW s \in Seq(S), NEW e \in S
  PROVE  /\ Append(s, e) \in Seq(S) /\ Len(Append(s, e)) = Len(s) + 1
         /\ \A i \in 1..Len(s) : Append(s, e)[i] = s[i]
         /\ Append(s, e)[Len(s) + 1] = e
  OBVIOUS

\* What Tail yields.
LEMMA TailFacts ==
  ASSUME NEW S, NEW s \in Seq(S), s # <<>>
  PROVE  /\ Tail(s) \in Seq(S) /\ Len(Tail(s)) = Len(s) - 1
         /\ \A i \in 1..(Len(s) - 1) : Tail(s)[i] = s[i + 1]
  OBVIOUS

-----------------------------------------------------------------------------
(* The invariant.                                                          *)

\* Inside pipewrite() or piperead() with pi->lock held.
LockedPCs == {"wloop", "wfull", "rwait", "rempty", "rcopy"}

\* pi->lock is with the process that is inside.
LockExact == \A p \in Procs : lock = p <=> pc[p] \in LockedPCs

\* Only a holder of the write end writes, only one of the read end reads.
Roles == \A p \in Procs : /\ pc[p] \in WritePCs => p \in Writers
                          /\ pc[p] \in ReadPCs => p \in Readers

\* The processes of S that count in f->ref of their end.
Using(S) == {p \in S : pc[p] \notin {"pipeclose", "closed"}}

\* f->ref counts those who have not closed; an end is open until the last of
\* them, and only the last, has been through pipeclose().
EndExact(S, ref, open) ==
  /\ ref = Cardinality(Using(S))
  /\ open <=> \E p \in S : pc[p] # "closed"
  /\ \A p, q \in S : pc[p] = "pipeclose" /\ pc[q] # "closed" => p = q

Ends == /\ EndExact(Readers, rref, readopen) /\ EndExact(Writers, wref, writeopen)
        /\ allocated = (readopen \/ writeopen)

\* Full() never lets the counters get further apart.
Bounded == Count <= PIPESIZE

\* Who sleeps, or is about to, has a reason, or somebody inside will wake it:
\* a reader in the copy loop wakes writers, a writer in its loop wakes readers
\* unless it is killed or the read end is closed.
Waits ==
  /\ \A p \in Procs : pc[p] = "wfull" => Full /\ readopen
  /\ \A p \in Procs : pc[p] = "rempty" => Empty /\ writeopen
  /\ \A p \in Writers : pc[p] = "wsleep" =>
       readopen /\ (Full \/ \E r \in Readers : pc[r] = "rcopy")
  /\ (\A w \in Writers : ~killed[w]) => \A p \in Readers : pc[p] = "rsleep" =>
       writeopen /\ (Empty \/ \E w \in Writers : pc[w] = "wloop")

IInv == TypeOK /\ LockExact /\ Roles /\ Ends /\ Bounded /\ Waits

-----------------------------------------------------------------------------
(* Counters and slots of the ring.                                         *)

\* The number of bytes in the pipe, and what Full and Empty say of it.
LEMMA CountFacts ==
  ASSUME TypeOK
  PROVE  /\ Count \in 0..(UINT - 1)
         /\ Count = IF nread <= nwrite THEN nwrite - nread ELSE nwrite + UINT - nread
         /\ Empty <=> Count = 0
         /\ Full <=> Count = PIPESIZE
<1>1. UINT \in Nat \ {0} /\ PIPESIZE \in Nat \ {0} /\ PIPESIZE < UINT
  BY SizesAssumption
<1>2. nread \in 0..(UINT - 1) /\ nwrite \in 0..(UINT - 1)
  BY Zenon DEF TypeOK
<1> DEFINE a == nwrite + UINT - nread
           f == nread + PIPESIZE
<1>3. /\ a \in Nat /\ a < UINT + UINT /\ f \in Nat /\ f < UINT + UINT
      /\ a < UINT <=> nwrite < nread
  BY <1>1, <1>2
<1>4. Count = IF a < UINT THEN a ELSE a - UINT
  <2> HIDE DEF a
  <2>1. a % UINT = IF a < UINT THEN a ELSE a - UINT
    BY Zenon, <1>1, <1>3, ModOnce
  <2> QED
    BY Zenon, <2>1 DEF Count, a
<1>5. f % UINT = IF f < UINT THEN f ELSE f - UINT
  <2> HIDE DEF f
  <2> QED
    BY Zenon, <1>1, <1>3, ModOnce
<1> HIDE DEF a, f
<1>6. Full <=> nwrite = IF f < UINT THEN f ELSE f - UINT
  BY <1>5 DEF Full, f
<1>7. Empty <=> nread = nwrite
  BY Zenon DEF Empty
<1> QED
  BY <1>1, <1>2, <1>3, <1>4, <1>6, <1>7 DEF a, f

-----------------------------------------------------------------------------

\* pipealloc() establishes the invariant.
LEMMA InitInv == Init => IInv
<1> SUFFICES ASSUME Init PROVE IInv
  BY Zenon
<1>1. TypeOK
  <2>1. Cardinality(Readers) \in Nat /\ Cardinality(Writers) \in Nat
    BY Zenon, ProcsAssumption, FS_CardinalityType
  <2> QED
    BY <2>1, SizesAssumption DEF Init, TypeOK, PCs, WritePCs, ReadPCs
<1>2. LockExact /\ Roles /\ Waits
  BY Zenon, ProcsAssumption DEF Init, LockExact, LockedPCs, Roles, Waits, Procs, WritePCs, ReadPCs
<1>3. Ends
  <2>1. Using(Readers) = Readers /\ Using(Writers) = Writers
    BY Zenon DEF Init, Using, Procs
  <2> QED
    BY Zenon, <2>1, ProcsAssumption DEF Init, Ends, EndExact, Procs
<1>4. Bounded
  BY <1>1, CountFacts, SizesAssumption DEF Init, Bounded
<1> QED
  BY Zenon, <1>1, <1>2, <1>3, <1>4 DEF IInv

\* A step that leaves the open flags and counts alone, and nobody's closing.
Inner ==
  /\ UNCHANGED <<files, readopen, writeopen>>
  /\ \A q \in Procs : /\ pc'[q] = "closed" <=> pc[q] = "closed"
                      /\ pc'[q] = "pipeclose" <=> pc[q] = "pipeclose"

\* Such a step keeps the ends as they are.
LEMMA InnerEnds == Ends /\ Inner => Ends'
<1> SUFFICES ASSUME Ends, Inner PROVE Ends'
  BY Zenon
<1>1. ASSUME NEW S \in {Readers, Writers} PROVE Using(S)' = Using(S)
  BY Zenon, <1>1 DEF Inner, Using, Procs
<1>2. ASSUME NEW S \in {Readers, Writers} PROVE S \subseteq Procs
  BY Zenon, <1>2 DEF Procs
<1> QED
  BY Zenon, <1>1, <1>2 DEF Ends, EndExact, Inner, files

\* The state a process is in while it holds the lock excludes the others.
LEMMA Alone ==
  ASSUME TypeOK, LockExact, NEW p \in Procs, NEW q \in Procs,
         pc[p] \in LockedPCs, pc[q] \in LockedPCs
  PROVE  p = q
  BY Zenon DEF LockExact

\* Nobody is inside pi->lock while it is free.
LEMMA NoneInside ==
  ASSUME TypeOK, LockExact, lock = None, NEW p \in Procs
  PROVE  pc[p] \notin LockedPCs
  BY Zenon, ProcsAssumption DEF LockExact, Procs

-----------------------------------------------------------------------------
(* Each step preserves the invariant.                                      *)

\* Calls: the lock is taken, the pipe is as it was.
LEMMA CallStep ==
  ASSUME IInv, NEW p \in Procs, Call(p)
  PROVE  IInv'
<1>1. PICK count \in 0..MaxCount :
        (p \in Writers /\ CallWrite(p, count)) \/ (p \in Readers /\ CallRead(p, count))
  BY Zenon DEF Call
<1>2. PICK to \in {"wloop", "rwait"} :
        /\ to = "wloop" => p \in Writers
        /\ to = "rwait" => p \in Readers
        /\ Lock(p, "idle", to)
        /\ left' = [left EXCEPT ![p] = count]
        /\ UNCHANGED <<pipe, files, killed, kills>>
  BY Zenon, <1>1 DEF CallWrite, CallRead
<1> USE DEF IInv, Lock
<1>3. TypeOK'
  BY Zenon, <1>2 DEF TypeOK, PCs, WritePCs, ReadPCs, pipe, files
<1>4. LockExact'
  BY Zenon, <1>2, NoneInside, ProcsAssumption DEF LockExact, LockedPCs, TypeOK
<1>5. Roles'
  BY Zenon, <1>2 DEF Roles, TypeOK, WritePCs, ReadPCs
<1>6. Ends'
  <2>1. Inner
    BY Zenon, <1>2 DEF Inner, TypeOK, pipe, files
  <2> QED
    BY Zenon, <2>1, InnerEnds
<1>7. Bounded'
  BY Zenon, <1>2 DEF Bounded, Count, pipe
<1>8. Waits'
  BY Zenon, <1>2, NoneInside DEF Waits, Full, Empty, TypeOK, pipe, LockedPCs, Procs
<1> QED
  BY Zenon, <1>3, <1>4, <1>5, <1>6, <1>7, <1>8

\* Returns: the lock is given back, after a wakeup or without one.
LEMMA ReturnFacts ==
  ASSUME IInv, NEW p \in Procs, pc[p] \in LockedPCs,
         NEW woken, woken \in {pc, WakeReaders, WakeWriters}, Return(p, woken)
  PROVE  /\ pc' \in [Procs -> PCs] /\ left' \in [Procs -> 0..MaxCount]
         /\ LockExact' /\ Roles'
         /\ \A q \in Procs : pc'[q] = "closed" <=> pc[q] = "closed"
         /\ \A q \in Procs : pc'[q] = "pipeclose" <=> pc[q] = "pipeclose"
<1> USE DEF IInv, Return
<1>1. /\ woken \in [Procs -> PCs]
      /\ \A q \in Procs : \/ woken[q] = pc[q]
                          \/ pc[q] = "rsleep" /\ woken[q] = "rrelock"
                          \/ pc[q] = "wsleep" /\ woken[q] = "wrelock"
  BY Zenon DEF TypeOK, WakeReaders, WakeWriters, PCs, WritePCs, ReadPCs
<1>2. pc' \in [Procs -> PCs] /\ left' \in [Procs -> 0..MaxCount]
  BY <1>1, SizesAssumption DEF TypeOK, PCs
<1>3. LockExact'
  BY Zenon, <1>1, ProcsAssumption DEF LockExact, LockedPCs, Procs
<1>4. Roles'
  BY Zenon, <1>1 DEF Roles, WritePCs, ReadPCs
<1>5. \A q \in Procs : /\ pc'[q] = "closed" <=> pc[q] = "closed"
                       /\ pc'[q] = "pipeclose" <=> pc[q] = "pipeclose"
  BY Zenon, <1>1 DEF LockedPCs
<1> QED
  BY Zenon, <1>2, <1>3, <1>4, <1>5

\* What is left of the invariant after a return that did not touch the ring.
LEMMA QuietReturn ==
  ASSUME IInv, NEW p \in Procs, pc[p] \in LockedPCs,
         NEW woken, woken \in {pc, WakeReaders, WakeWriters}, Return(p, woken),
         UNCHANGED <<pipe, files, killed, kills>>
  PROVE  TypeOK' /\ LockExact' /\ Roles' /\ Ends' /\ Bounded'
<1>1. /\ pc' \in [Procs -> PCs] /\ left' \in [Procs -> 0..MaxCount]
      /\ LockExact' /\ Roles'
      /\ \A q \in Procs : pc'[q] = "closed" <=> pc[q] = "closed"
      /\ \A q \in Procs : pc'[q] = "pipeclose" <=> pc[q] = "pipeclose"
  BY Zenon, ReturnFacts
<1>2. TypeOK'
  BY Zenon, <1>1 DEF IInv, TypeOK, Return, pipe, files
<1>3. Ends'
  BY Zenon, <1>1, InnerEnds DEF IInv, Inner, pipe
<1>4. Bounded'
  BY Zenon DEF IInv, Bounded, Count, pipe
<1> QED
  BY Zenon, <1>1, <1>2, <1>3, <1>4

\* pipewrite() returns.
LEMMA WriteDoneStep ==
  ASSUME IInv, NEW p \in Procs, WriteDone(p) \/ WriteFault(p)
  PROVE  IInv'
<1>1. /\ pc[p] = "wloop" /\ Return(p, WakeReaders)
      /\ UNCHANGED <<pipe, files, killed, kills>>
  BY Zenon DEF WriteDone, WriteFault
<1>2. TypeOK' /\ LockExact' /\ Roles' /\ Ends' /\ Bounded'
  BY Zenon, <1>1, QuietReturn DEF LockedPCs
<1>3. Waits'
  BY Zenon, <1>1, Alone DEF IInv, Waits, Return, WakeReaders, Full, Empty, TypeOK, pipe,
     LockedPCs, Procs, Roles, WritePCs
<1> QED
  BY Zenon, <1>2, <1>3 DEF IInv

\* pipewrite() fails: the read end is closed or the process is killed.
LEMMA WriteFailStep ==
  ASSUME IInv, NEW p \in Procs, WriteFail(p)
  PROVE  IInv'
<1>1. /\ pc[p] = "wloop" /\ Return(p, pc) /\ Refuse(p)
      /\ UNCHANGED <<pipe, files, killed, kills>>
  BY Zenon DEF WriteFail
<1>2. TypeOK' /\ LockExact' /\ Roles' /\ Ends' /\ Bounded'
  BY Zenon, <1>1, QuietReturn DEF LockedPCs
<1>3. p \in Writers
  BY Zenon, <1>1 DEF IInv, Roles, WritePCs
<1>4. \A q \in Readers : pc[q] = "rsleep" => readopen
  BY Zenon DEF IInv, Ends, EndExact
<1>5. Waits'
  <2> USE DEF IInv, Return, TypeOK, LockedPCs, Procs
  <2>1. \A q \in Procs : pc'[q] # "wfull" /\ pc'[q] # "rempty"
    BY Zenon, <1>1, Alone
  <2>2. \A q \in Writers : pc'[q] = "wsleep" =>
          readopen' /\ (Full' \/ \E r \in Readers : pc'[r] = "rcopy")
    BY Zenon, <1>1, <1>3, Alone, ProcsAssumption DEF Waits, Full, pipe
  <2>3. (\A w \in Writers : ~killed'[w]) => \A q \in Readers : pc'[q] # "rsleep"
    BY Zenon, <1>1, <1>3, <1>4 DEF Refuse
  <2> QED
    BY Zenon, <2>1, <2>2, <2>3 DEF Waits
<1> QED
  BY Zenon, <1>2, <1>5 DEF IInv

\* The writer that finds the pipe full has woken the readers.
LEMMA WriteFullStep ==
  ASSUME IInv, NEW p \in Procs, WriteFull(p)
  PROVE  IInv'
<1> USE DEF IInv
<1>1. /\ pc[p] = "wloop" /\ readopen /\ Full
      /\ pc' = [WakeReaders EXCEPT ![p] = "wfull"]
      /\ UNCHANGED <<pipe, lock, files, left, killed, kills>>
  BY Zenon DEF WriteFull, Refuse
<1>2. TypeOK'
  BY Zenon, <1>1 DEF TypeOK, WakeReaders, PCs, WritePCs, ReadPCs, pipe, files
<1>3. LockExact' /\ Roles'
  BY Zenon, <1>1 DEF LockExact, Roles, LockedPCs, TypeOK, WakeReaders, WritePCs, ReadPCs
<1>4. Ends'
  <2>1. Inner
    BY Zenon, <1>1 DEF Inner, TypeOK, WakeReaders, pipe
  <2> QED
    BY Zenon, <2>1, InnerEnds
<1>5. Bounded'
  BY Zenon, <1>1 DEF Bounded, Count, pipe
<1>6. Waits'
  BY Zenon, <1>1, Alone DEF Waits, WakeReaders, Full, Empty, TypeOK, pipe, LockedPCs, Procs
<1> QED
  BY Zenon, <1>2, <1>3, <1>4, <1>5, <1>6

\* One more byte: the ring was not full.
LEMMA PutCount ==
  ASSUME TypeOK, TypeOK', Bounded, ~Full, nread' = nread, nwrite' = (nwrite + 1) % UINT
  PROVE  Count' = Count + 1 /\ Count < PIPESIZE
<1>1. UINT \in Nat \ {0} /\ PIPESIZE \in Nat \ {0} /\ PIPESIZE < UINT
  BY SizesAssumption
<1>2. nread \in 0..(UINT - 1) /\ nwrite \in 0..(UINT - 1)
  BY Zenon DEF TypeOK
<1>3. /\ Count \in 0..(UINT - 1)
      /\ Count = IF nread <= nwrite THEN nwrite - nread ELSE nwrite + UINT - nread
      /\ Full <=> Count = PIPESIZE
  BY Zenon, CountFacts
<1>4. Count' = IF nread' <= nwrite' THEN nwrite' - nread' ELSE nwrite' + UINT - nread'
  <2>1. (TypeOK => Count = IF nread <= nwrite THEN nwrite - nread
                                              ELSE nwrite + UINT - nread)'
    BY CountFacts, PTL
  <2> QED
    BY Zenon, <2>1
<1>5. nwrite' = IF nwrite + 1 < UINT THEN nwrite + 1 ELSE nwrite + 1 - UINT
  <2> DEFINE a == nwrite + 1
  <2>1. a \in Nat /\ a < UINT + UINT
    BY <1>1, <1>2
  <2> HIDE DEF a
  <2>2. a % UINT = IF a < UINT THEN a ELSE a - UINT
    BY Zenon, <1>1, <2>1, ModOnce
  <2> QED
    BY <1>1, <1>2, <2>2 DEF a
<1>6. Count < PIPESIZE
  BY <1>1, <1>3 DEF Bounded
<1> QED
  BY <1>1, <1>2, <1>3, <1>4, <1>5, <1>6

\* One byte less: the ring was not empty.
LEMMA GetCount ==
  ASSUME TypeOK, TypeOK', ~Empty, nread' = (nread + 1) % UINT, nwrite' = nwrite
  PROVE  Count' = Count - 1 /\ Count > 0
<1>1. UINT \in Nat \ {0}
  BY SizesAssumption
<1>2. nread \in 0..(UINT - 1) /\ nwrite \in 0..(UINT - 1)
  BY Zenon DEF TypeOK
<1>3. /\ Count \in 0..(UINT - 1)
      /\ Count = IF nread <= nwrite THEN nwrite - nread ELSE nwrite + UINT - nread
      /\ Empty <=> Count = 0
  BY Zenon, CountFacts
<1>4. Count' = IF nread' <= nwrite' THEN nwrite' - nread' ELSE nwrite' + UINT - nread'
  <2>1. (TypeOK => Count = IF nread <= nwrite THEN nwrite - nread
                                              ELSE nwrite + UINT - nread)'
    BY CountFacts, PTL
  <2> QED
    BY Zenon, <2>1
<1>5. nread' = IF nread + 1 < UINT THEN nread + 1 ELSE nread + 1 - UINT
  <2> DEFINE a == nread + 1
  <2>1. a \in Nat /\ a < UINT + UINT
    BY <1>1, <1>2
  <2> HIDE DEF a
  <2>2. a % UINT = IF a < UINT THEN a ELSE a - UINT
    BY Zenon, <1>1, <2>1, ModOnce
  <2> QED
    BY <1>1, <1>2, <2>2 DEF a
<1> QED
  BY <1>1, <1>2, <1>3, <1>4, <1>5

\* pipewrite() stores one byte.
LEMMA WriteByteStep ==
  ASSUME IInv, NEW p \in Procs, NEW b \in Bytes, WriteByte(p, b)
  PROVE  IInv'
<1> USE DEF IInv
<1>1. /\ pc[p] = "wloop" /\ left[p] > 0 /\ ~Full
      /\ data' = [data EXCEPT ![nwrite % PIPESIZE] = b]
      /\ nwrite' = (nwrite + 1) % UINT
      /\ left' = [left EXCEPT ![p] = @ - 1]
      /\ UNCHANGED <<nread, readopen, writeopen, ch, lock, files, pc, killed, kills>>
  BY Zenon DEF WriteByte
<1>2. TypeOK'
  <2>1. nwrite' \in 0..(UINT - 1)
    <3>1. nwrite + 1 \in Nat /\ UINT \in Nat \ {0}
      BY SizesAssumption DEF TypeOK
    <3> QED
      BY Zenon, <1>1, <3>1, DivMod
  <2>2. left' \in [Procs -> 0..MaxCount]
    BY <1>1, SizesAssumption DEF TypeOK
  <2> QED
    BY Zenon, <1>1, <2>1, <2>2 DEF TypeOK, files
<1>3. LockExact' /\ Roles'
  BY Zenon, <1>1 DEF LockExact, Roles
<1>4. Ends'
  BY Zenon, <1>1, InnerEnds DEF Inner
<1>5. Bounded'
  BY <1>1, <1>2, PutCount, CountFacts, SizesAssumption DEF Bounded
<1>6. p \in Writers
  BY Zenon, <1>1 DEF Roles, WritePCs
<1>7. Waits'
  <2>1. \A q \in Procs : pc[q] # "wfull" /\ pc[q] # "rempty" /\ pc[q] # "rcopy"
    BY Zenon, <1>1, Alone DEF LockedPCs
  <2>2. \A q \in Writers : pc[q] # "wsleep"
    BY Zenon, <1>1, <2>1 DEF Waits, Procs
  <2> QED
    BY Zenon, <1>1, <1>6, <2>1, <2>2 DEF Waits, Procs
<1> QED
  BY Zenon, <1>2, <1>3, <1>4, <1>5, <1>7

\* Going to sleep: the reason found under the lock still stands.
LEMMA SleepStep ==
  ASSUME IInv, NEW p \in Procs, WriteSleep(p) \/ ReadSleep(p)
  PROVE  IInv'
<1> USE DEF IInv
<1>1. /\ \/ pc[p] = "wfull" /\ pc' = [pc EXCEPT ![p] = "wsleep"]
         \/ pc[p] = "rempty" /\ pc' = [pc EXCEPT ![p] = "rsleep"]
      /\ lock' = None
      /\ UNCHANGED <<pipe, files, left, killed, kills>>
  BY Zenon DEF WriteSleep, ReadSleep, Sleep
<1>2. TypeOK'
  BY Zenon, <1>1 DEF TypeOK, PCs, WritePCs, ReadPCs, pipe, files
<1>3. LockExact'
  BY SMTT(60), <1>1, Alone, ProcsAssumption DEF LockExact, LockedPCs, TypeOK, Procs
<1>4. Roles'
  BY Zenon, <1>1 DEF Roles, TypeOK, WritePCs, ReadPCs
<1>5. Ends'
  <2>1. Inner
    BY Zenon, <1>1 DEF Inner, TypeOK, pipe
  <2> QED
    BY Zenon, <2>1, InnerEnds
<1>6. Bounded'
  BY Zenon, <1>1 DEF Bounded, Count, pipe
<1>7. Waits'
  <2>1. \A q \in Procs : q # p => pc[q] \notin LockedPCs
    BY Zenon, <1>1, Alone DEF LockedPCs
  <2> QED
    BY Zenon, <1>1, <2>1 DEF Waits, TypeOK, Full, Empty, pipe, LockedPCs, Procs
<1> QED
  BY Zenon, <1>2, <1>3, <1>4, <1>5, <1>6, <1>7

\* Coming back from sleep().
LEMMA RelockStep ==
  ASSUME IInv, NEW p \in Procs, WriteRelock(p) \/ ReadRelock(p)
  PROVE  IInv'
<1> USE DEF IInv
<1>1. /\ \/ pc[p] = "wrelock" /\ pc' = [pc EXCEPT ![p] = "wloop"]
         \/ pc[p] = "rrelock" /\ pc' = [pc EXCEPT ![p] = "rwait"]
      /\ lock = None /\ lock' = p
      /\ UNCHANGED <<pipe, files, left, killed, kills>>
  BY Zenon DEF WriteRelock, ReadRelock, Lock
<1>2. TypeOK'
  BY Zenon, <1>1 DEF TypeOK, PCs, WritePCs, ReadPCs, pipe, files
<1>3. \A q \in Procs : pc[q] \notin LockedPCs
  BY Zenon, <1>1, NoneInside
<1>4. LockExact'
  BY Zenon, <1>1, <1>3 DEF LockExact, LockedPCs, TypeOK
<1>5. Roles'
  BY Zenon, <1>1 DEF Roles, TypeOK, WritePCs, ReadPCs
<1>6. Ends'
  <2>1. Inner
    BY Zenon, <1>1 DEF Inner, TypeOK, pipe
  <2> QED
    BY Zenon, <2>1, InnerEnds
<1>7. Bounded'
  BY Zenon, <1>1 DEF Bounded, Count, pipe
<1>8. Waits'
  BY Zenon, <1>1, <1>3 DEF Waits, TypeOK, Full, Empty, pipe, LockedPCs, Procs
<1> QED
  BY Zenon, <1>2, <1>4, <1>5, <1>6, <1>7, <1>8

\* The reader that finds nothing returns if it is killed, or goes to sleep().
LEMMA ReadEmptyStep ==
  ASSUME IInv, NEW p \in Procs, ReadEmpty(p)
  PROVE  IInv'
<1>1. /\ pc[p] = "rwait" /\ Empty /\ writeopen
      /\ UNCHANGED <<pipe, files, killed, kills>>
  BY Zenon DEF ReadEmpty
<1>2. \A q \in Procs : q # p => pc[q] \notin LockedPCs
  BY Zenon, <1>1, Alone DEF LockedPCs, IInv
<1>3. CASE Return(p, pc)
  <2>1. TypeOK' /\ LockExact' /\ Roles' /\ Ends' /\ Bounded'
    BY Zenon, <1>1, <1>3, QuietReturn DEF LockedPCs
  <2>2. Waits'
    BY Zenon, <1>1, <1>2, <1>3 DEF IInv, Return, Waits, TypeOK, Full, Empty, pipe, LockedPCs, Procs
  <2> QED
    BY Zenon, <2>1, <2>2 DEF IInv
<1>4. CASE pc' = [pc EXCEPT ![p] = "rempty"] /\ UNCHANGED <<lock, left>>
  <2> USE DEF IInv
  <2>1. TypeOK'
    BY Zenon, <1>1, <1>4 DEF TypeOK, PCs, WritePCs, ReadPCs, pipe, files
  <2>2. LockExact' /\ Roles'
    BY Zenon, <1>1, <1>4 DEF LockExact, Roles, LockedPCs, TypeOK, WritePCs, ReadPCs
  <2>3. Inner
    BY Zenon, <1>1, <1>4 DEF Inner, TypeOK, pipe
  <2>4. Bounded'
    BY Zenon, <1>1, <1>4 DEF Bounded, Count, pipe
  <2>5. Waits'
    BY Zenon, <1>1, <1>2, <1>4 DEF Waits, TypeOK, Full, Empty, pipe, LockedPCs, Procs
  <2> QED
    BY Zenon, <2>1, <2>2, <2>3, <2>4, <2>5, InnerEnds
<1> QED
  BY Zenon, <1>3, <1>4 DEF ReadEmpty

\* piperead() finds bytes or the end of the stream.
LEMMA ReadReadyStep ==
  ASSUME IInv, NEW p \in Procs, ReadReady(p)
  PROVE  IInv'
<1> USE DEF IInv
<1>1. /\ pc[p] = "rwait" /\ pc' = [pc EXCEPT ![p] = "rcopy"]
      /\ UNCHANGED <<pipe, lock, files, left, killed, kills>>
  BY Zenon DEF ReadReady
<1>2. TypeOK'
  BY Zenon, <1>1 DEF TypeOK, PCs, WritePCs, ReadPCs, pipe, files
<1>3. LockExact' /\ Roles'
  BY Zenon, <1>1 DEF LockExact, Roles, LockedPCs, TypeOK, WritePCs, ReadPCs
<1>4. Inner
  BY Zenon, <1>1 DEF Inner, TypeOK, pipe
<1>5. Bounded'
  BY Zenon, <1>1 DEF Bounded, Count, pipe
<1>6. Waits'
  BY Zenon, <1>1, Alone DEF Waits, TypeOK, Full, Empty, pipe, LockedPCs, Procs
<1> QED
  BY Zenon, <1>2, <1>3, <1>4, <1>5, <1>6, InnerEnds

\* A byte is taken: nread and ch have their types and the ring has one less.
LEMMA TakeFacts ==
  ASSUME IInv, TakeByte, UNCHANGED <<data, nwrite>>
  PROVE  nread' \in 0..(UINT - 1) /\ ch' \in Bytes
<1>1. UINT \in Nat \ {0} /\ PIPESIZE \in Nat \ {0} /\ nread \in Nat /\ nread + 1 \in Nat
  BY SizesAssumption DEF IInv, TypeOK
<1>2. nread' \in 0..(UINT - 1)
  BY Zenon, <1>1, DivMod DEF TakeByte
<1>3. nread % PIPESIZE \in 0..(PIPESIZE - 1)
  BY Zenon, <1>1, DivMod
<1> QED
  BY Zenon, <1>2, <1>3 DEF IInv, TypeOK, TakeByte

\* piperead() takes one byte.
LEMMA ReadByteStep ==
  ASSUME IInv, NEW p \in Procs, ReadByte(p)
  PROVE  IInv'
<1> USE DEF IInv
<1>1. /\ pc[p] = "rcopy" /\ left[p] > 0 /\ ~Empty /\ TakeByte
      /\ left' = [left EXCEPT ![p] = @ - 1]
      /\ UNCHANGED <<data, nwrite, readopen, writeopen, lock, files, pc, killed, kills>>
  BY Zenon DEF ReadByte
<1>2. TypeOK'
  <2>1. left' \in [Procs -> 0..MaxCount]
    BY <1>1, SizesAssumption DEF TypeOK
  <2> QED
    BY Zenon, <1>1, <2>1, TakeFacts DEF TypeOK, files
<1>3. LockExact' /\ Roles' /\ Inner
  BY Zenon, <1>1 DEF LockExact, Roles, Inner
<1>4. Bounded'
  BY <1>1, <1>2, GetCount, CountFacts, SizesAssumption DEF Bounded, TakeByte
<1>5. p \in Readers
  BY Zenon, <1>1 DEF Roles, ReadPCs
<1>6. Waits'
  <2>1. \A q \in Procs : q # p => pc[q] \notin LockedPCs
    BY Zenon, <1>1, Alone DEF LockedPCs
  <2>2. (\A w \in Writers : ~killed[w]) => \A q \in Readers : pc[q] # "rsleep"
    BY Zenon, <1>1, <2>1 DEF Waits, LockedPCs, Procs
  <2> QED
    BY Zenon, <1>1, <1>5, <2>1, <2>2 DEF Waits, LockedPCs, Procs
<1> QED
  BY Zenon, <1>2, <1>3, <1>4, <1>6, InnerEnds

\* The end of piperead() wakes the writers, which is why they may find the
\* pipe no longer full while it runs.
LEMMA ReadDoneStep ==
  ASSUME IInv, NEW p \in Procs, ReadDone(p)
  PROVE  IInv'
<1>1. /\ pc[p] = "rcopy" /\ Return(p, WakeWriters)
      /\ UNCHANGED <<pipe, files, killed, kills>>
  BY Zenon DEF ReadDone, WakeAfterRead
<1>2. TypeOK' /\ LockExact' /\ Roles' /\ Ends' /\ Bounded'
  BY Zenon, <1>1, QuietReturn DEF LockedPCs
<1>3. \A q \in Procs : q # p => pc[q] \notin LockedPCs
  BY Zenon, <1>1, Alone DEF LockedPCs, IInv
<1>4. Waits'
  BY Zenon, <1>1, <1>3 DEF IInv, Return, WakeWriters, Waits, TypeOK, Full, Empty, pipe, LockedPCs,
     Procs
<1> QED
  BY Zenon, <1>2, <1>4 DEF IInv

\* piperead() cannot copy a byte out.
LEMMA ReadFaultStep ==
  ASSUME IInv, NEW p \in Procs, ReadFault(p)
  PROVE  IInv'
<1> USE DEF IInv
<1>1. /\ pc[p] = "rcopy" /\ ~Empty /\ TakeByte /\ Return(p, WakeWriters)
      /\ UNCHANGED <<data, nwrite, readopen, writeopen, files, killed, kills>>
  BY Zenon DEF ReadFault, WakeAfterRead
<1>2. /\ pc' \in [Procs -> PCs] /\ left' \in [Procs -> 0..MaxCount]
      /\ LockExact' /\ Roles'
      /\ \A q \in Procs : pc'[q] = "closed" <=> pc[q] = "closed"
      /\ \A q \in Procs : pc'[q] = "pipeclose" <=> pc[q] = "pipeclose"
  BY Zenon, <1>1, ReturnFacts DEF LockedPCs
<1>3. TypeOK'
  BY Zenon, <1>1, <1>2, TakeFacts DEF TypeOK, Return, files
<1>4. Inner
  BY Zenon, <1>1, <1>2 DEF Inner
<1>5. Bounded'
  BY <1>1, <1>3, GetCount, CountFacts, SizesAssumption DEF Bounded, TakeByte
<1>6. Waits'
  <2>1. \A q \in Procs : q # p => pc[q] \notin LockedPCs
    BY Zenon, <1>1, Alone DEF LockedPCs
  <2>2. (\A w \in Writers : ~killed[w]) => \A q \in Readers : pc[q] # "rsleep"
    BY Zenon, <1>1, <2>1 DEF Waits, LockedPCs, Procs
  <2>3. \A q \in Procs : /\ pc'[q] \notin LockedPCs /\ pc'[q] # "wsleep"
                         /\ pc'[q] = "rsleep" => pc[q] = "rsleep"
    BY Zenon, <1>1, <2>1 DEF Return, WakeWriters, TypeOK, LockedPCs
  <2> QED
    BY Zenon, <1>1, <2>2, <2>3 DEF Waits, LockedPCs, Procs
<1> QED
  BY Zenon, <1>2, <1>3, <1>4, <1>5, <1>6, InnerEnds

\* A process leaves the count of its end S; the last one goes on to pipeclose().
LEMMA LeaveEnd ==
  ASSUME TypeOK, NEW S \in {Readers, Writers}, NEW ref, NEW open, EndExact(S, ref, open),
         NEW p \in S, pc[p] = "idle",
         pc' = [pc EXCEPT ![p] = IF Last(ref) THEN "pipeclose" ELSE "closed"]
  PROVE  /\ ref \in Nat /\ ref > 0
         /\ ref - 1 = Cardinality(Using(S)')
         /\ open <=> \E q \in S : pc'[q] # "closed"
         /\ \A q, r \in S : pc'[q] = "pipeclose" /\ pc'[r] # "closed" => q = r
<1> USE DEF EndExact, TypeOK, Procs
<1>1. S \subseteq Procs /\ IsFiniteSet(Using(S)) /\ p \in Using(S)
  BY Zenon, ProcsAssumption, FS_Subset DEF Using
<1>2. ref \in Nat
  BY Zenon, <1>1, FS_CardinalityType
<1>3. Using(S)' = Using(S) \ {p}
  BY Zenon, <1>1 DEF Using
<1>4. IsFiniteSet(Using(S) \ {p}) /\ Cardinality(Using(S) \ {p}) = ref - 1
  BY Zenon, <1>1, FS_RemoveElement
<1>5. ref - 1 \in Nat
  BY Zenon, <1>4, FS_CardinalityType
<1>6. \A q \in S : pc[q] # "pipeclose"
  BY Zenon
<1>7. Last(ref) <=> Using(S) = {p}
  <2>1. Cardinality(Using(S) \ {p}) = 0 <=> Using(S) \ {p} = {}
    BY Zenon, <1>4, FS_EmptySet
  <2> QED
    BY <2>1, <1>1, <1>2, <1>4 DEF Last
<1>8. CASE Using(S) = {p}
  <2>1. pc'[p] = "pipeclose" /\ \A q \in S \ {p} : pc'[q] = "closed"
    BY Zenon, <1>1, <1>6, <1>7, <1>8 DEF Using
  <2> QED
    BY SMTT(60), <1>2, <1>3, <1>4, <1>5, <2>1
<1>9. CASE Using(S) # {p}
  <2>1. PICK q \in S : q # p /\ pc[q] # "closed"
    BY Zenon, <1>1, <1>9 DEF Using
  <2> QED
    BY SMTT(60), <1>1, <1>2, <1>3, <1>4, <1>5, <1>6, <1>7, <1>9, <2>1
<1> QED
  BY Zenon, <1>8, <1>9

\* The other end does not notice.
LEMMA OtherEnd ==
  ASSUME TypeOK, NEW S \in {Readers, Writers}, NEW ref, NEW open, EndExact(S, ref, open),
         \A q \in S : /\ pc'[q] = "closed" <=> pc[q] = "closed"
                      /\ pc'[q] = "pipeclose" <=> pc[q] = "pipeclose"
  PROVE  /\ ref = Cardinality(Using(S)')
         /\ open <=> \E q \in S : pc'[q] # "closed"
         /\ \A q, r \in S : pc'[q] = "pipeclose" /\ pc'[r] # "closed" => q = r
<1>1. Using(S)' = Using(S)
  BY Zenon DEF Using
<1> QED
  BY Zenon, <1>1 DEF EndExact

\* fileclose() drops a reference, perhaps the last one.
LEMMA FileCloseStep ==
  ASSUME IInv, NEW p \in Procs, FileClose(p)
  PROVE  IInv'
<1> USE DEF IInv
<1>1. /\ pc[p] = "idle"
      /\ pc' = [pc EXCEPT ![p] = IF Last(IF p \in Readers THEN rref ELSE wref)
                                   THEN "pipeclose" ELSE "closed"]
      /\ UNCHANGED <<pipe, lock, allocated, left, killed, kills>>
  BY Zenon DEF FileClose
<1>2. Ends' /\ rref' \in 0..Cardinality(Readers) /\ wref' \in 0..Cardinality(Writers)
  <2>1. CASE p \in Readers
    <3>1. rref' = rref - 1 /\ wref' = wref
      BY Zenon, <2>1 DEF FileClose
    <3>2. /\ rref \in Nat /\ rref > 0
          /\ rref - 1 = Cardinality(Using(Readers)')
          /\ readopen <=> \E q \in Readers : pc'[q] # "closed"
          /\ \A q, r \in Readers : pc'[q] = "pipeclose" /\ pc'[r] # "closed" => q = r
      BY Zenon, <1>1, <2>1, LeaveEnd DEF Ends
    <3>3. /\ wref = Cardinality(Using(Writers)')
          /\ writeopen <=> \E q \in Writers : pc'[q] # "closed"
          /\ \A q, r \in Writers : pc'[q] = "pipeclose" /\ pc'[r] # "closed" => q = r
      <4>1. \A q \in Writers : pc'[q] = pc[q]
        BY Zenon, <1>1, <2>1, ProcsAssumption DEF TypeOK, Procs
      <4> QED
        BY Zenon, <4>1, OtherEnd DEF Ends
    <3>4. rref' \in 0..Cardinality(Readers) /\ wref' \in 0..Cardinality(Writers)
      BY <3>1, <3>2, ProcsAssumption, FS_CardinalityType DEF TypeOK
    <3> QED
      BY Zenon, <1>1, <3>1, <3>2, <3>3, <3>4 DEF Ends, EndExact, pipe
  <2>2. CASE p \in Writers
    <3>1. wref' = wref - 1 /\ rref' = rref /\ p \notin Readers
      BY Zenon, <2>2, ProcsAssumption DEF FileClose
    <3>2. /\ wref \in Nat /\ wref > 0
          /\ wref - 1 = Cardinality(Using(Writers)')
          /\ writeopen <=> \E q \in Writers : pc'[q] # "closed"
          /\ \A q, r \in Writers : pc'[q] = "pipeclose" /\ pc'[r] # "closed" => q = r
      BY Zenon, <1>1, <2>2, <3>1, LeaveEnd DEF Ends
    <3>3. /\ rref = Cardinality(Using(Readers)')
          /\ readopen <=> \E q \in Readers : pc'[q] # "closed"
          /\ \A q, r \in Readers : pc'[q] = "pipeclose" /\ pc'[r] # "closed" => q = r
      <4>1. \A q \in Readers : pc'[q] = pc[q]
        BY Zenon, <1>1, <3>1 DEF TypeOK, Procs
      <4> QED
        BY Zenon, <4>1, OtherEnd DEF Ends
    <3>4. rref' \in 0..Cardinality(Readers) /\ wref' \in 0..Cardinality(Writers)
      BY <3>1, <3>2, ProcsAssumption, FS_CardinalityType DEF TypeOK
    <3> QED
      BY Zenon, <1>1, <3>1, <3>2, <3>3, <3>4 DEF Ends, EndExact, pipe
  <2> QED
    BY Zenon, <2>1, <2>2 DEF Procs
<1>3. TypeOK'
  BY Zenon, <1>1, <1>2 DEF TypeOK, PCs, pipe
<1>4. LockExact' /\ Roles'
  BY Zenon, <1>1 DEF LockExact, Roles, LockedPCs, TypeOK, WritePCs, ReadPCs
<1>5. Bounded'
  BY Zenon, <1>1 DEF Bounded, Count, pipe
<1>6. Waits'
  BY Zenon, <1>1 DEF Waits, Full, Empty, TypeOK, pipe, Procs
<1> QED
  BY Zenon, <1>2, <1>3, <1>4, <1>5, <1>6

\* The last holder of an end closes it for good.
LEMMA ShutEnd ==
  ASSUME TypeOK, NEW S \in {Readers, Writers}, NEW ref, NEW open, EndExact(S, ref, open),
         NEW p \in S, pc[p] = "pipeclose", pc'[p] = "closed",
         \A q \in S \ {p} : pc[q] = "closed" => pc'[q] = "closed"
  PROVE  ref = Cardinality(Using(S)') /\ \A q \in S : pc'[q] = "closed"
<1>1. \A q \in S : pc'[q] = "closed"
  BY Zenon DEF EndExact
<1>2. Using(S)' = Using(S)
  BY Zenon, <1>1 DEF EndExact, Using
<1> QED
  BY Zenon, <1>1, <1>2 DEF EndExact

\* pipeclose() closes an end, and frees the page when it is the second.
LEMMA PipeCloseStep ==
  ASSUME IInv, NEW p \in Procs, PipeClose(p)
  PROVE  IInv'
<1> USE DEF IInv
<1>1. /\ pc[p] = "pipeclose" /\ lock = None
      /\ pc' = [WakeOnClose(p) EXCEPT ![p] = "closed"]
      /\ allocated' = (readopen' \/ writeopen')
      /\ UNCHANGED <<data, nread, nwrite, ch, lock, rref, wref, left, killed, kills>>
  BY Zenon DEF PipeClose
<1>2. \A q \in Procs : pc[q] \notin LockedPCs
  BY Zenon, <1>1, NoneInside
<1>3. /\ WakeOnClose(p) \in [Procs -> PCs]
      /\ \A q \in Procs : \/ WakeOnClose(p)[q] = pc[q]
                          \/ pc[q] = "rsleep" /\ WakeOnClose(p)[q] = "rrelock"
                          \/ pc[q] = "wsleep" /\ WakeOnClose(p)[q] = "wrelock"
  BY Zenon DEF WakeOnClose, TypeOK, WakeReaders, WakeWriters, PCs, WritePCs, ReadPCs
<1>4. /\ pc' \in [Procs -> PCs] /\ pc'[p] = "closed"
      /\ \A q \in Procs \ {p} : \/ pc'[q] = pc[q]
                                \/ pc[q] = "rsleep" /\ pc'[q] = "rrelock"
                                \/ pc[q] = "wsleep" /\ pc'[q] = "wrelock"
  BY Zenon, <1>1, <1>3 DEF PCs
<1>5. TypeOK'
  BY Zenon, <1>1, <1>4 DEF TypeOK, PipeClose
<1>6. LockExact' /\ Roles'
  BY Zenon, <1>1, <1>2, <1>4 DEF LockExact, Roles, LockedPCs, WritePCs, ReadPCs
<1>7. Bounded'
  BY Zenon, <1>1 DEF Bounded, Count
<1>8. CASE p \in Writers
  <2>1. writeopen' = FALSE /\ readopen' = readopen
    BY Zenon, <1>8 DEF PipeClose
  <2>2. wref = Cardinality(Using(Writers)') /\ \A q \in Writers : pc'[q] = "closed"
    BY Zenon, <1>1, <1>4, <1>8, ShutEnd DEF Ends, Procs
  <2>3. /\ rref = Cardinality(Using(Readers)')
        /\ readopen <=> \E q \in Readers : pc'[q] # "closed"
        /\ \A q, r \in Readers : pc'[q] = "pipeclose" /\ pc'[r] # "closed" => q = r
    BY Zenon, <1>4, <1>8, ProcsAssumption, OtherEnd DEF Ends, Procs
  <2>4. Ends'
    BY Zenon, <1>1, <2>1, <2>2, <2>3 DEF Ends, EndExact
  <2>5. \A q \in Procs : pc'[q] # "rsleep"
    BY Zenon, <1>1, <1>8 DEF WakeOnClose, WakeReaders, TypeOK
  <2>6. Waits'
    BY <1>1, <1>2, <1>4, <2>1, <2>2, <2>5 DEF Waits, Full, LockedPCs, Procs
  <2> QED
    BY Zenon, <1>5, <1>6, <1>7, <2>4, <2>6
<1>9. CASE p \in Readers
  <2>1. readopen' = FALSE /\ writeopen' = writeopen /\ p \notin Writers
    BY Zenon, <1>9, ProcsAssumption DEF PipeClose
  <2>2. rref = Cardinality(Using(Readers)') /\ \A q \in Readers : pc'[q] = "closed"
    BY <1>1, <1>4, <1>9, ShutEnd DEF Ends, Procs
  <2>3. /\ wref = Cardinality(Using(Writers)')
        /\ writeopen <=> \E q \in Writers : pc'[q] # "closed"
        /\ \A q, r \in Writers : pc'[q] = "pipeclose" /\ pc'[r] # "closed" => q = r
    BY Zenon, <1>4, <2>1, OtherEnd DEF Ends, Procs
  <2>4. Ends'
    BY Zenon, <1>1, <2>1, <2>2, <2>3 DEF Ends, EndExact
  <2>5. \A q \in Procs : pc'[q] # "wsleep"
    BY Zenon, <1>1, <2>1 DEF WakeOnClose, WakeWriters, TypeOK
  <2>6. Waits'
    BY <1>1, <1>2, <1>4, <2>1, <2>2, <2>5 DEF Waits, Empty, LockedPCs, Procs
  <2> QED
    BY Zenon, <1>5, <1>6, <1>7, <2>4, <2>6
<1> QED
  BY Zenon, <1>8, <1>9 DEF Procs

\* kill() marks a process and wakes it.
LEMMA KillStep ==
  ASSUME IInv, NEW p \in Procs, Kill(p)
  PROVE  IInv'
<1> USE DEF IInv
<1>1. /\ kills < MaxKills /\ kills' = kills + 1
      /\ killed' = [killed EXCEPT ![p] = TRUE]
      /\ pc' = [pc EXCEPT ![p] = IF @ = "rsleep" THEN "rrelock"
                                 ELSE IF @ = "wsleep" THEN "wrelock" ELSE @]
      /\ UNCHANGED <<pipe, lock, files, left>>
  BY Zenon DEF Kill
<1>2. TypeOK'
  BY <1>1, SizesAssumption DEF TypeOK, PCs, WritePCs, ReadPCs, pipe, files
<1>3. LockExact' /\ Roles'
  BY Zenon, <1>1 DEF LockExact, Roles, LockedPCs, TypeOK, WritePCs, ReadPCs
<1>4. Inner
  BY Zenon, <1>1 DEF Inner, TypeOK, pipe
<1>5. Bounded'
  BY Zenon, <1>1 DEF Bounded, Count, pipe
<1>6. \A q \in Procs : pc'[q] = pc[q] \/ pc'[q] \in {"rrelock", "wrelock"}
  BY Zenon, <1>1 DEF TypeOK
<1>7. \A q \in Procs : pc[q] \in LockedPCs => pc'[q] = pc[q]
  BY Zenon, <1>1 DEF TypeOK, LockedPCs
<1>8. Waits'
  <2>1. (\A w \in Writers : ~killed'[w]) => \A w \in Writers : ~killed[w]
    BY Zenon, <1>1 DEF TypeOK, Procs
  <2> QED
    BY Zenon, <1>1, <1>6, <1>7, <2>1 DEF Waits, Full, Empty, pipe, LockedPCs, Procs
<1> QED
  BY Zenon, <1>2, <1>3, <1>4, <1>5, <1>8, InnerEnds

\* Every step of readers, writers, closers and killers preserves the invariant.
LEMMA StepInv == IInv /\ [Next]_vars => IInv'
<1> SUFFICES ASSUME IInv, [Next]_vars PROVE IInv'
  BY Zenon
<1>1. ASSUME NEW p \in Procs, WriteStep(p) PROVE IInv'
  BY Zenon, <1>1, WriteDoneStep, WriteFailStep, WriteFullStep, SleepStep, RelockStep,
     WriteByteStep DEF WriteStep
<1>2. ASSUME NEW p \in Procs, ReadStep(p) PROVE IInv'
  BY Zenon, <1>2, ReadEmptyStep, SleepStep, RelockStep, ReadReadyStep, ReadByteStep,
     ReadDoneStep, ReadFaultStep DEF ReadStep
<1>3. ASSUME NEW p \in Procs, Call(p) \/ PipeClose(p) \/ FileClose(p) \/ Kill(p) PROVE IInv'
  BY Zenon, <1>3, CallStep, PipeCloseStep, FileCloseStep, KillStep
<1>4. CASE UNCHANGED vars
  <2> USE <1>4 DEF vars
  <2>1. TypeOK' /\ LockExact' /\ Roles'
    BY Zenon DEF IInv, TypeOK, LockExact, Roles
  <2>2. Ends' /\ Bounded'
    BY Zenon DEF IInv, Ends, EndExact, Using, Bounded, Count
  <2>3. Waits'
    BY Zenon DEF IInv, Waits, Full, Empty
  <2> QED
    BY Zenon, <2>1, <2>2, <2>3 DEF IInv
<1> QED
  BY Zenon, <1>1, <1>2, <1>3, <1>4 DEF Next, Step

\* The invariant holds in every reachable state.
THEOREM Invariance == Spec => []IInv
  BY InitInv, StepInv, PTL DEF Spec

\* The page of a pipe is given to kfree() exactly when every process has closed
\* its end: neither end's pipeclose() frees it too early, and one of them does.
THEOREM PageFreed == Spec => []FreedExactly
<1>1. IInv => FreedExactly
  BY Zenon, ProcsAssumption DEF IInv, FreedExactly, Ends, EndExact, Procs, TypeOK
<1> QED
  BY <1>1, Invariance, PTL

\* Nobody sleeps in pipewrite() while there is room, or in piperead() while
\* there are bytes, unless a killed writer has left them there.
THEOREM SleepersHaveReason == Spec => []SleepersBlocked
<1>1. IInv => SleepersBlocked
  <2> SUFFICES ASSUME IInv, lock = None
               PROVE  /\ \A p \in Writers : pc[p] = "wsleep" => Full /\ readopen
                      /\ (\A w \in Writers : ~killed[w]) =>
                           \A p \in Readers : pc[p] = "rsleep" => Empty /\ writeopen
    BY Zenon DEF SleepersBlocked, SleepingWriterBlocked, SleepingReaderBlocked
  <2>1. \A p \in Procs : pc[p] \notin LockedPCs
    BY Zenon, NoneInside DEF IInv
  <2> QED
    BY Zenon, <2>1 DEF IInv, Waits, LockedPCs, Procs
<1> QED
  BY <1>1, Invariance, PTL

-----------------------------------------------------------------------------
(* A pipe implements ByteStream.                                           *)

\* The bytes in the pipe, oldest first.
Queue == [k \in 1..Count |-> data[(nread + k - 1) % PIPESIZE]]

\* They are a sequence of bytes.
LEMMA QueueType ==
  ASSUME TypeOK
  PROVE  Queue \in Seq(Bytes) /\ Len(Queue) = Count /\ Count \in Nat
<1>1. Count \in Nat /\ nread \in Nat /\ PIPESIZE \in Nat \ {0}
  BY CountFacts, SizesAssumption DEF TypeOK
<1>2. ASSUME NEW k \in 1..Count PROVE data[(nread + k - 1) % PIPESIZE] \in Bytes
  <2>1. nread + k - 1 \in Nat
    BY <1>1
  <2>2. (nread + k - 1) % PIPESIZE \in 0..(PIPESIZE - 1)
    BY Zenon, <1>1, <2>1, DivMod
  <2> QED
    BY Zenon, <2>2 DEF TypeOK
<1> QED
  BY <1>1, <1>2 DEF Queue

\* The counter nwrite, reduced to a slot, is Count slots after nread.
LEMMA WriteSlot ==
  ASSUME TypeOK
  PROVE  nwrite % PIPESIZE = (nread + Count) % PIPESIZE
<1>1. /\ UINT \in Nat /\ PIPESIZE \in Nat \ {0} /\ UINT % PIPESIZE = 0
      /\ nread \in 0..(UINT - 1) /\ nwrite \in 0..(UINT - 1)
  BY Zenon, SizesAssumption DEF TypeOK
<1>2. Count = IF nread <= nwrite THEN nwrite - nread ELSE nwrite + UINT - nread
  BY Zenon, CountFacts
<1>3. CASE nread <= nwrite
  BY <1>1, <1>2, <1>3
<1>4. CASE ~(nread <= nwrite)
  <2> DEFINE a == nread + Count
  <2>1. a \in Nat /\ a >= UINT /\ a - UINT = nwrite
    BY <1>1, <1>2, <1>4
  <2> HIDE DEF a
  <2>2. (a - UINT) % PIPESIZE = a % PIPESIZE
    BY Zenon, <1>1, <2>1, ModWrap
  <2> QED
    BY Zenon, <2>1, <2>2 DEF a
<1> QED
  BY Zenon, <1>3, <1>4

\* pi->data[pi->nwrite++ % PIPESIZE] = b appends b to the queue: the slot is not
\* one of those that hold unread bytes.
LEMMA PutQueue ==
  ASSUME TypeOK, TypeOK', Bounded, NEW b \in Bytes, ~Full, nread' = nread,
         nwrite' = (nwrite + 1) % UINT, data' = [data EXCEPT ![nwrite % PIPESIZE] = b]
  PROVE  Queue' = Append(Queue, b) /\ Len(Queue) < PIPESIZE
<1>1. /\ Count' = Count + 1 /\ Count < PIPESIZE
      /\ Queue \in Seq(Bytes) /\ Len(Queue) = Count /\ Count \in Nat
  BY Zenon, PutCount, QueueType
<1>2. nread \in Nat /\ PIPESIZE \in Nat \ {0} /\ nwrite \in Nat
  BY SizesAssumption DEF TypeOK
<1>3. ASSUME NEW k \in 1..(Count + 1)
      PROVE  data'[(nread + k - 1) % PIPESIZE] = IF k <= Count THEN Queue[k] ELSE b
  <2> DEFINE i == nread + k - 1
             w == nread + Count
  <2>1. i \in Nat /\ w \in Nat
    BY <1>1, <1>2
  <2>2. i % PIPESIZE \in 0..(PIPESIZE - 1)
    BY Zenon, <1>2, <2>1, DivMod
  <2>3. CASE k <= Count
    <3>1. i < w /\ w < i + PIPESIZE
      BY <1>1, <1>2, <2>3
    <3> HIDE DEF i, w
    <3>2. i % PIPESIZE # w % PIPESIZE
      BY Zenon, <1>2, <2>1, <3>1, ModDiffers
    <3>3. data'[i % PIPESIZE] = data[i % PIPESIZE]
      BY Zenon, <2>2, <3>2, WriteSlot DEF w, TypeOK
    <3> QED
      BY <1>1, <2>3, <3>3 DEF i, Queue
  <2>4. CASE k = Count + 1
    <3>1. i = w
      BY <1>1, <1>2, <2>4
    <3> HIDE DEF i
    <3>2. data'[i % PIPESIZE] = b
      BY Zenon, <2>2, <3>1, WriteSlot DEF TypeOK
    <3> QED
      BY <1>1, <2>4, <3>2 DEF i
  <2> QED
    BY <1>1, <2>3, <2>4
<1>4. Queue' = [k \in 1..(Count + 1) |-> data'[(nread + k - 1) % PIPESIZE]]
  BY <1>1 DEF Queue
<1>5. Queue' \in Seq(Bytes) /\ Len(Queue') = Count + 1
  <2>1. (TypeOK => Queue \in Seq(Bytes) /\ Len(Queue) = Count)'
    BY QueueType, PTL
  <2> QED
    BY Zenon, <1>1, <2>1
<1>6. /\ Append(Queue, b) \in Seq(Bytes) /\ Len(Append(Queue, b)) = Count + 1
      /\ \A k \in 1..(Count + 1) : Append(Queue, b)[k] = IF k <= Count THEN Queue[k] ELSE b
  BY <1>1, AppendFacts
<1>7. \A k \in 1..(Count + 1) : Queue'[k] = Append(Queue, b)[k]
  BY Zenon, <1>3, <1>4, <1>6
<1> QED
  BY Zenon, <1>1, <1>5, <1>6, <1>7, SameSequence

\* ch = pi->data[pi->nread++ % PIPESIZE] takes the first byte of the queue, also
\* when nread wraps around.
LEMMA GetQueue ==
  ASSUME TypeOK, TypeOK', ~Empty, TakeByte, UNCHANGED <<data, nwrite>>
  PROVE  Queue # <<>> /\ Queue' = Tail(Queue) /\ ch' = Head(Queue)
<1>1. /\ Count' = Count - 1 /\ Count > 0
      /\ Queue \in Seq(Bytes) /\ Len(Queue) = Count /\ Count \in Nat
  BY Zenon, GetCount, QueueType DEF TakeByte
<1>2. /\ UINT \in Nat \ {0} /\ PIPESIZE \in Nat \ {0} /\ UINT % PIPESIZE = 0
      /\ nread \in 0..(UINT - 1) /\ nread' = (nread + 1) % UINT
  BY SizesAssumption DEF TypeOK, TakeByte
<1>3. ASSUME NEW k \in 1..(Count - 1)
      PROVE  data[(nread' + k - 1) % PIPESIZE] = Queue[k + 1]
  <2> DEFINE i == nread + k
  <2>1. i \in Nat /\ k + 1 \in 1..Count
    BY <1>1, <1>2
  <2>2. Queue[k + 1] = data[i % PIPESIZE]
    <3>1. nread + (k + 1) - 1 = i
      BY <1>2
    <3> HIDE DEF i
    <3> QED
      BY Zenon, <2>1, <3>1 DEF Queue
  <2>3. (nread' + k - 1) % PIPESIZE = i % PIPESIZE
    <3>1. CASE nread + 1 < UINT
      <4>1. nread' = nread + 1
        BY <1>2, <3>1
      <4>2. nread' + k - 1 = i
        BY <1>2, <4>1
      <4> QED
        BY Zenon, <4>2
    <3>2. CASE nread + 1 = UINT
      <4>1. nread' = 0
        BY <1>2, <3>2, ModOnce
      <4>2. nread' + k - 1 = i - UINT /\ i >= UINT
        BY <1>2, <3>2, <4>1
      <4> HIDE DEF i
      <4>3. (i - UINT) % PIPESIZE = i % PIPESIZE
        BY ZenonT(60), <1>2, <2>1, <4>2, ModWrap
      <4> QED
        BY Zenon, <4>2, <4>3
    <3> QED
      BY <1>2, <3>1, <3>2
  <2> QED
    BY Zenon, <2>2, <2>3
<1>4. Queue' = [k \in 1..(Count - 1) |-> data[(nread' + k - 1) % PIPESIZE]]
  BY Zenon, <1>1 DEF Queue
<1>5. Queue' \in Seq(Bytes) /\ Len(Queue') = Count - 1
  <2>1. (TypeOK => Queue \in Seq(Bytes) /\ Len(Queue) = Count)'
    BY QueueType, PTL
  <2> QED
    BY Zenon, <1>1, <2>1
<1>6. /\ Queue # <<>> /\ Tail(Queue) \in Seq(Bytes) /\ Len(Tail(Queue)) = Count - 1
      /\ \A k \in 1..(Count - 1) : Tail(Queue)[k] = Queue[k + 1]
  BY <1>1, TailFacts
<1>7. \A k \in 1..(Count - 1) : Queue'[k] = Tail(Queue)[k]
  BY Zenon, <1>3, <1>4, <1>6
<1>8. Queue' = Tail(Queue)
  BY Zenon, <1>5, <1>6, <1>7, SameSequence
<1>9. Head(Queue) = data[nread % PIPESIZE]
  <2>1. nread + 1 - 1 = nread
    BY <1>2
  <2>2. Head(Queue) = Queue[1] /\ 1 \in 1..Count
    BY <1>1
  <2> QED
    BY Zenon, <2>1, <2>2 DEF Queue
<1> QED
  BY Zenon, <1>6, <1>8, <1>9 DEF TakeByte

\* The bytes that are in the queue mapped to ByteStream.
LEMMA StreamQueue == Stream!Init <=> /\ Queue = <<>> /\ ch \in Bytes
                                     /\ readopen = TRUE /\ writeopen = TRUE
  BY Zenon DEF Stream!Init, Queue

\* A step that writes a byte puts it.
LEMMA PutStep ==
  ASSUME IInv, TypeOK', NEW p \in Procs, NEW b \in Bytes, WriteByte(p, b)
  PROVE  Stream!Put(b)
<1>1. /\ pc[p] = "wloop" /\ readopen /\ ~Full /\ nread' = nread
      /\ nwrite' = (nwrite + 1) % UINT
      /\ data' = [data EXCEPT ![nwrite % PIPESIZE] = b]
      /\ UNCHANGED <<ch, readopen, writeopen>>
  BY Zenon DEF WriteByte, Refuse
<1>2. p \in Writers
  BY Zenon, <1>1 DEF IInv, Roles, WritePCs
<1>3. writeopen
  BY Zenon, <1>1, <1>2 DEF IInv, Ends, EndExact
<1>4. Queue' = Append(Queue, b) /\ Len(Queue) < PIPESIZE
  BY Zenon, <1>1, PutQueue DEF IInv
<1> QED
  BY Zenon, <1>1, <1>3, <1>4 DEF Stream!Put, Queue

\* A step that takes a byte gets the first one.
LEMMA GetStep ==
  ASSUME IInv, TypeOK', NEW p \in Procs, ReadByte(p) \/ ReadFault(p)
  PROVE  Stream!Get
<1>1. /\ pc[p] = "rcopy" /\ ~Empty /\ TakeByte
      /\ UNCHANGED <<data, nwrite, readopen, writeopen>>
  BY Zenon DEF ReadByte, ReadFault
<1>2. p \in Readers
  BY Zenon, <1>1 DEF IInv, Roles, ReadPCs
<1>3. readopen
  BY Zenon, <1>1, <1>2 DEF IInv, Ends, EndExact
<1>4. Queue # <<>> /\ Queue' = Tail(Queue) /\ ch' = Head(Queue)
  BY Zenon, <1>1, GetQueue DEF IInv
<1> QED
  BY Zenon, <1>1, <1>3, <1>4 DEF Stream!Get, Queue

\* pipeclose() closes an end that was open.
LEMMA CloseStep ==
  ASSUME IInv, NEW p \in Procs, PipeClose(p)
  PROVE  Stream!CloseRead \/ Stream!CloseWrite
<1>1. pc[p] = "pipeclose" /\ UNCHANGED <<data, nread, nwrite, ch>>
  BY Zenon DEF PipeClose
<1>2. Queue' = Queue
  BY Zenon, <1>1 DEF Queue, Count
<1>3. CASE p \in Writers
  <2>1. writeopen
    BY Zenon, <1>1, <1>3 DEF IInv, Ends, EndExact
  <2>2. writeopen' = FALSE /\ readopen' = readopen
    BY Zenon, <1>3 DEF PipeClose
  <2> QED
    BY Zenon, <1>1, <1>2, <2>1, <2>2 DEF Stream!CloseWrite, Queue
<1>4. CASE p \in Readers
  <2>1. readopen
    BY Zenon, <1>1, <1>4 DEF IInv, Ends, EndExact
  <2>2. p \notin Writers
    BY Zenon, <1>4, ProcsAssumption
  <2>3. readopen' = FALSE /\ writeopen' = writeopen
    BY Zenon, <2>2 DEF PipeClose
  <2> QED
    BY Zenon, <1>1, <1>2, <2>1, <2>3 DEF Stream!CloseRead, Queue
<1> QED
  BY Zenon, <1>3, <1>4 DEF Procs

\* Every step of the pipe is a step of the stream or leaves it as it is.
LEMMA StreamStep ==
  ASSUME IInv, TypeOK', [Next]_vars
  PROVE  [Stream!Next]_(Stream!vars)
<1>1. ASSUME UNCHANGED pipe PROVE UNCHANGED Stream!vars
  <2>1. Queue' = Queue /\ UNCHANGED <<ch, readopen, writeopen>>
    BY Zenon, <1>1 DEF Queue, Count, pipe
  <2> QED
    BY Zenon, <2>1 DEF Stream!vars, Queue
<1>2. ASSUME NEW p \in Procs, WriteStep(p) PROVE [Stream!Next]_(Stream!vars)
  BY Zenon, <1>1, <1>2, PutStep DEF WriteStep, WriteDone, WriteFail, WriteFull, WriteSleep,
     Sleep, WriteRelock, WriteFault, Stream!Next
<1>3. ASSUME NEW p \in Procs, ReadStep(p) PROVE [Stream!Next]_(Stream!vars)
  BY Zenon, <1>1, <1>3, GetStep DEF ReadStep, ReadEmpty, ReadSleep, Sleep, ReadRelock,
     ReadReady, ReadDone, Stream!Next
<1>4. ASSUME NEW p \in Procs, Call(p) \/ PipeClose(p) \/ FileClose(p) \/ Kill(p)
      PROVE  [Stream!Next]_(Stream!vars)
  BY Zenon, <1>1, <1>4, CloseStep DEF Call, CallWrite, CallRead, FileClose, Kill, Stream!Next
<1>5. CASE UNCHANGED vars
  BY Zenon, <1>1, <1>5 DEF vars, pipe
<1> QED
  BY Zenon, <1>2, <1>3, <1>4, <1>5 DEF Next, Step

\* pipe.c implements a bounded first-in first-out queue: no byte is lost in the
\* pipe, duplicated, reordered or overwritten, for any size of the pipe, any
\* number of processes, and however often nread and nwrite have wrapped around.
THEOREM PipeIsByteStream == Spec => IsByteStream
<1>1. Init => Stream!Init
  <2> SUFFICES ASSUME Init PROVE Stream!Init
    BY Zenon
  <2>1. TypeOK /\ nread = nwrite
    BY Zenon, InitInv DEF IInv, Init
  <2>2. Count = 0
    BY Zenon, <2>1, CountFacts DEF Empty
  <2>3. Queue = <<>>
    BY <2>2 DEF Queue
  <2> QED
    BY Zenon, <2>3, StreamQueue DEF Init
<1>2. IInv /\ IInv' /\ [Next]_vars => [Stream!Next]_(Stream!vars)
  BY Zenon, StreamStep DEF IInv
<1> QED
  BY <1>1, <1>2, Invariance, PTL DEF Spec, IsByteStream, Stream!Spec
=============================================================================
