-------------------------------- MODULE Pipe --------------------------------
(***************************************************************************)
(* One pipe of kernel/pipe.c between processes that hold its read end and  *)
(* processes that hold its write end, with the reference counts of         *)
(* kernel/file.c that decide when an end is closed.                        *)
(*                                                                         *)
(* pi->lock is held across the loops of pipewrite() and piperead() and is  *)
(* given up only in sleep(), but kill() does not take it: a step is one    *)
(* iteration of a loop.  Atomicity of sleep() and wakeup() is the subject  *)
(* of Sched.                                                               *)
(***************************************************************************)
EXTENDS Naturals, Sequences, FiniteSets

CONSTANTS Readers, Writers,  \* processes that hold the read end, the write end
          PIPESIZE,          \* bytes in pi->data
          UINT,              \* 2^32: pi->nread and pi->nwrite are uint
          Bytes,             \* byte values
          MaxCount,          \* bound on the n of a read() or write()
          MaxKills,          \* bound on the number of kill() calls
          None

ASSUME SizesAssumption ==
  /\ PIPESIZE \in Nat \ {0} /\ MaxCount \in Nat /\ MaxKills \in Nat
  /\ UINT \in Nat /\ UINT > PIPESIZE /\ UINT % PIPESIZE = 0
ASSUME ProcsAssumption ==
  /\ Readers \cap Writers = {} /\ None \notin Readers \cup Writers
  /\ IsFiniteSet(Readers) /\ IsFiniteSet(Writers) /\ Readers # {} /\ Writers # {}

Procs == Readers \cup Writers

VARIABLES
  data, nread, nwrite, readopen, writeopen,  \* struct pipe
  lock,          \* who holds pi->lock
  allocated,     \* the page of struct pipe has not been given to kfree()
  rref, wref,    \* f->ref of the files of the two ends
  pc, left,      \* of each process: where it is, and n - i of its call (0 outside)
  ch,            \* the byte piperead() took last
  killed, kills

pipe == <<data, nread, nwrite, readopen, writeopen, ch>>
files == <<allocated, rref, wref>>
vars == <<data, nread, nwrite, readopen, writeopen, lock, allocated, rref, wref,
          pc, left, ch, killed, kills>>

\* Inside pipewrite(), piperead() or pipeclose().
WritePCs == {"wloop", "wfull", "wsleep", "wrelock"}
ReadPCs == {"rwait", "rempty", "rsleep", "rrelock", "rcopy"}
PCs == WritePCs \cup ReadPCs \cup {"idle", "pipeclose", "closed"}

TypeOK ==
  /\ data \in [0..(PIPESIZE - 1) -> Bytes]
  /\ nread \in 0..(UINT - 1) /\ nwrite \in 0..(UINT - 1)
  /\ readopen \in BOOLEAN /\ writeopen \in BOOLEAN /\ allocated \in BOOLEAN
  /\ lock \in Procs \cup {None}
  /\ rref \in 0..Cardinality(Readers) /\ wref \in 0..Cardinality(Writers)
  /\ pc \in [Procs -> PCs] /\ left \in [Procs -> 0..MaxCount]
  /\ ch \in Bytes /\ killed \in [Procs -> BOOLEAN] /\ kills \in 0..MaxKills

\* pipealloc() has set the pipe up and its files have been passed on by fork().
\* Nothing clears pi->data.
Init ==
  /\ data \in [0..(PIPESIZE - 1) -> Bytes] /\ ch \in Bytes
  /\ nread = 0 /\ nwrite = 0 /\ readopen = TRUE /\ writeopen = TRUE
  /\ lock = None /\ allocated = TRUE
  /\ rref = Cardinality(Readers) /\ wref = Cardinality(Writers)
  /\ pc = [p \in Procs |-> "idle"] /\ left = [p \in Procs |-> 0]
  /\ killed = [p \in Procs |-> FALSE] /\ kills = 0

-----------------------------------------------------------------------------

\* wakeup(&pi->nread) and wakeup(&pi->nwrite).
WakeReaders == [p \in Procs |-> IF pc[p] = "rsleep" THEN "rrelock" ELSE pc[p]]
WakeWriters == [p \in Procs |-> IF pc[p] = "wsleep" THEN "wrelock" ELSE pc[p]]

Full_NoWrap == nwrite = nread + PIPESIZE

\* pi->nwrite == pi->nread + PIPESIZE, in uint arithmetic.
Full == nwrite = (nread + PIPESIZE) % UINT
Empty == nread = nwrite

\* acquire(&pi->lock) at the start of a call or at the end of sleep().
Lock(p, from, to) ==
  /\ pc[p] = from /\ lock = None
  /\ lock' = p
  /\ pc' = [pc EXCEPT ![p] = to]

\* release(&pi->lock) and return, after the wakeup that turned pc into woken.
Return(p, woken) ==
  /\ pc' = [woken EXCEPT ![p] = "idle"]
  /\ lock' = None
  /\ left' = [left EXCEPT ![p] = 0]

CallWrite(p, count) ==
  /\ Lock(p, "idle", "wloop")
  /\ left' = [left EXCEPT ![p] = count]
  /\ UNCHANGED <<pipe, files, killed, kills>>

\* The loop is over: wakeup(&pi->nread), release, return i.
WriteDone(p) ==
  /\ pc[p] = "wloop" /\ left[p] = 0
  /\ Return(p, WakeReaders)
  /\ UNCHANGED <<pipe, files, killed, kills>>

\* readopen is 0 or the writer is killed.
Refuse(p) == ~readopen \/ killed[p]

\* release, return -1.
WriteFail(p) ==
  /\ pc[p] = "wloop" /\ left[p] > 0
  /\ Refuse(p)
  /\ Return(p, pc)
  /\ UNCHANGED <<pipe, files, killed, kills>>

\* The pipe is full: wakeup(&pi->nread) and on to sleep().
WriteFull(p) ==
  /\ pc[p] = "wloop" /\ left[p] > 0 /\ ~Refuse(p)
  /\ Full
  /\ pc' = [WakeReaders EXCEPT ![p] = "wfull"]
  /\ UNCHANGED <<pipe, lock, files, left, killed, kills>>

\* copyin() of the next byte fails: the loop ends.
WriteFault(p) ==
  /\ pc[p] = "wloop" /\ left[p] > 0 /\ ~Refuse(p) /\ ~Full
  /\ Return(p, WakeReaders)
  /\ UNCHANGED <<pipe, files, killed, kills>>

\* pi->data[pi->nwrite++ % PIPESIZE] = ch
WriteByte(p, b) ==
  /\ pc[p] = "wloop" /\ left[p] > 0 /\ ~Refuse(p) /\ ~Full
  /\ data' = [data EXCEPT ![nwrite % PIPESIZE] = b]
  /\ nwrite' = (nwrite + 1) % UINT
  /\ left' = [left EXCEPT ![p] = @ - 1]
  /\ UNCHANGED <<nread, readopen, writeopen, ch, lock, files, pc, killed, kills>>

\* sleep() on either channel gives up pi->lock.
Sleep(p, from, to) ==
  /\ pc[p] = from
  /\ pc' = [pc EXCEPT ![p] = to]
  /\ lock' = None
  /\ UNCHANGED <<pipe, files, left, killed, kills>>

WriteSleep(p) == Sleep(p, "wfull", "wsleep")

WriteRelock(p) ==
  /\ Lock(p, "wrelock", "wloop")
  /\ UNCHANGED <<pipe, files, left, killed, kills>>

-----------------------------------------------------------------------------

CallRead(p, count) ==
  /\ Lock(p, "idle", "rwait")
  /\ left' = [left EXCEPT ![p] = count]
  /\ UNCHANGED <<pipe, files, killed, kills>>

\* The pipe is empty but writers remain: return -1 if killed, else sleep().
ReadEmpty(p) ==
  /\ pc[p] = "rwait" /\ Empty /\ writeopen
  /\ IF killed[p]
       THEN Return(p, pc)
       ELSE pc' = [pc EXCEPT ![p] = "rempty"] /\ UNCHANGED <<lock, left>>
  /\ UNCHANGED <<pipe, files, killed, kills>>

ReadSleep(p) == Sleep(p, "rempty", "rsleep")

ReadRelock(p) ==
  /\ Lock(p, "rrelock", "rwait")
  /\ UNCHANGED <<pipe, files, left, killed, kills>>

ReadReady(p) ==
  /\ pc[p] = "rwait" /\ ~(Empty /\ writeopen)
  /\ pc' = [pc EXCEPT ![p] = "rcopy"]
  /\ UNCHANGED <<pipe, lock, files, left, killed, kills>>

\* ch = pi->data[pi->nread++ % PIPESIZE]
TakeByte ==
  /\ nread' = (nread + 1) % UINT
  /\ ch' = data[nread % PIPESIZE]

\* copyout() succeeds.
ReadByte(p) ==
  /\ pc[p] = "rcopy" /\ left[p] > 0 /\ ~Empty
  /\ TakeByte
  /\ left' = [left EXCEPT ![p] = @ - 1]
  /\ UNCHANGED <<data, nwrite, readopen, writeopen, lock, files, pc, killed, kills>>

WakeAfterRead_Not == pc

WakeAfterRead == WakeWriters

\* wakeup(&pi->nwrite), release, return i.
ReadDone(p) ==
  /\ pc[p] = "rcopy" /\ (left[p] = 0 \/ Empty)
  /\ Return(p, WakeAfterRead)
  /\ UNCHANGED <<pipe, files, killed, kills>>

\* copyout() fails: the byte has been taken, the loop ends.
ReadFault(p) ==
  /\ pc[p] = "rcopy" /\ left[p] > 0 /\ ~Empty
  /\ TakeByte
  /\ Return(p, WakeAfterRead)
  /\ UNCHANGED <<data, nwrite, readopen, writeopen, files, killed, kills>>

-----------------------------------------------------------------------------

Last_Early(ref) == ref <= 2

\* --f->ref == 0
Last(ref) == ref = 1

\* fileclose() up to the release of ftable.lock, by close() or exit().
FileClose(p) ==
  /\ pc[p] = "idle"
  /\ IF p \in Readers THEN rref' = rref - 1 /\ UNCHANGED wref
                      ELSE wref' = wref - 1 /\ UNCHANGED rref
  /\ pc' = [pc EXCEPT ![p] = IF Last(IF p \in Readers THEN rref ELSE wref)
                               THEN "pipeclose" ELSE "closed"]
  /\ UNCHANGED <<pipe, lock, allocated, left, killed, kills>>

WakeOnClose_Swapped(p) == IF p \in Writers THEN WakeWriters ELSE WakeReaders

WakeOnClose(p) == IF p \in Writers THEN WakeReaders ELSE WakeWriters

\* pipeclose(), called after ftable.lock was released.
PipeClose(p) ==
  /\ pc[p] = "pipeclose" /\ lock = None
  /\ IF p \in Writers THEN writeopen' = FALSE /\ UNCHANGED readopen
                      ELSE readopen' = FALSE /\ UNCHANGED writeopen
  /\ pc' = [WakeOnClose(p) EXCEPT ![p] = "closed"]
  /\ allocated' = (readopen' \/ writeopen')
  /\ UNCHANGED <<data, nread, nwrite, ch, lock, rref, wref, left, killed, kills>>

\* kill() of p by anybody: it is woken from either sleep().
Kill(p) ==
  /\ kills < MaxKills /\ ~killed[p] /\ pc[p] # "closed"
  /\ kills' = kills + 1
  /\ killed' = [killed EXCEPT ![p] = TRUE]
  /\ pc' = [pc EXCEPT ![p] = IF @ = "rsleep" THEN "rrelock"
                             ELSE IF @ = "wsleep" THEN "wrelock" ELSE @]
  /\ UNCHANGED <<pipe, lock, files, left>>

-----------------------------------------------------------------------------

\* A killed process does not get past usertrap() into another system call.
Call(p) ==
  /\ ~killed[p]
  /\ \E count \in 0..MaxCount :
       (p \in Writers /\ CallWrite(p, count)) \/ (p \in Readers /\ CallRead(p, count))

WriteStep(p) ==
  \/ WriteDone(p) \/ WriteFail(p) \/ WriteFull(p) \/ WriteSleep(p) \/ WriteRelock(p)
  \/ WriteFault(p) \/ \E b \in Bytes : WriteByte(p, b)

ReadStep(p) ==
  \/ ReadEmpty(p) \/ ReadSleep(p) \/ ReadRelock(p) \/ ReadReady(p)
  \/ ReadByte(p) \/ ReadDone(p) \/ ReadFault(p)

Step(p) == WriteStep(p) \/ ReadStep(p) \/ PipeClose(p)

\* It ends when every process has closed the pipe.
Next == \E p \in Procs : Call(p) \/ Step(p) \/ FileClose(p) \/ Kill(p)

Spec == Init /\ [][Next]_vars

\* A process inside a call goes on, and every process closes its end in the
\* end (exit() does it for those that do not).
LiveSpec ==
  /\ Spec
  /\ \A p \in Procs : WF_vars(Step(p)) /\ SF_vars(FileClose(p))

-----------------------------------------------------------------------------

Count == (nwrite + UINT - nread) % UINT

Stream == INSTANCE ByteStream WITH
  queue <- [k \in 1..Count |-> data[(nread + k - 1) % PIPESIZE]],
  last <- ch, canRead <- readopen, canWrite <- writeopen, Capacity <- PIPESIZE

\* A pipe is a bounded FIFO queue: whatever the interleaving of readers, writers,
\* kills and closes, and after nread and nwrite have wrapped around, no byte is
\* lost in the pipe, duplicated, reordered or overwritten, and none is accepted
\* once the read end is closed.
IsByteStream == Stream!Spec

\* A writer asleep in pipewrite() has something to wait for: the pipe is full
\* and can still be read.
SleepingWriterBlocked ==
  lock = None => \A p \in Writers : pc[p] = "wsleep" => Full /\ readopen

\* A reader asleep in piperead() has something to wait for: the pipe is empty
\* and can still be written.  This needs that no writer has been killed: one
\* that finds itself killed between two bytes returns without waking anybody.
SleepingReaderBlocked ==
  lock = None /\ (\A w \in Writers : ~killed[w]) =>
    \A p \in Readers : pc[p] = "rsleep" => Empty /\ writeopen

\* The page of the pipe is freed exactly when nobody can reach it any more:
\* no use after kfree(), no leak, whoever closes last.
FreedExactly == TypeOK /\ (~allocated <=> \A p \in Procs : pc[p] = "closed")

\* Nobody sleeps in the pipe over what it waits for (pipewrite(), piperead()
\* and the wakeups of each other and of pipeclose()).
SleepersBlocked == SleepingWriterBlocked /\ SleepingReaderBlocked

\* Every read() and write() returns, and the pipe is freed in the end, if every
\* process closes its end sooner or later.
CallsReturn == \A p \in Procs : pc[p] \in WritePCs \cup ReadPCs ~> pc[p] \in {"idle", "closed"}
=============================================================================
