--------------------------------- MODULE Log ---------------------------------
(***************************************************************************)
(* The write-ahead log of kernel/log.c over the buffer cache and the disk, *)
(* with crashes at any moment and recovery at boot.                        *)
(*                                                                         *)
(* A step of begin_op(), end_op() and log_write() is one hold of log.lock; *)
(* a step of commit() and recover_from_log() is one bwrite(), which is     *)
(* synchronous.  A block's content is the number of the operation that     *)
(* wrote it last.  A write that a crash interrupts may leave a torn block; *)
(* the header, which lies in one disk sector, is written or not.           *)
(***************************************************************************)
EXTENDS Naturals, Sequences, FiniteSets, Functions

CONSTANTS Procs, Blocks,  \* processes; home blocks that are written
          MAXOPBLOCKS,    \* what begin_op() reserves for an operation
          OPBLOCKS,       \* max # of different blocks an operation writes
          LOGSIZE,        \* length of log.lh.block[]
          SIZE,           \* log.size = sb->nlog, header block included
          None, Torn,     \* no cached copy; content of an interrupted write
          MaxOps,         \* bound on the number of operations
          MaxCrashes      \* bound on the number of crashes

ASSUME SizesAssumption == /\ MAXOPBLOCKS \in Nat \ {0} /\ OPBLOCKS \in 0..MAXOPBLOCKS
                          /\ LOGSIZE \in Nat /\ LOGSIZE >= MAXOPBLOCKS
                          /\ SIZE \in Nat \ {0}
ASSUME BoundsAssumption == MaxOps \in Nat /\ MaxCrashes \in Nat /\ IsFiniteSet(Procs)

Values == 0..MaxOps

ASSUME MarksAssumption == None \notin Values /\ Torn \notin Values

VARIABLES
  home, logblk, head,      \* on disk: home blocks, log blocks, the header's block list
  cache, pin,              \* the buffer cache: cached content, references by bpin()
  lh,                      \* log.lh.block[0 .. log.lh.n - 1]
  outstanding, committing, \* log.outstanding, log.committing
  boot, btail,             \* progress of recover_from_log(), "up" when done; its tail
  pc, tail,                \* where each process is; its tail in the loops of commit()
  op, written,             \* the operation of each process and the blocks it wrote
  nops, crashes, panicked

disk == <<home, logblk, head>>
mem == <<cache, pin, lh, outstanding, committing>>
local == <<pc, tail, op, written>>
booting == <<boot, btail>>
vars == <<home, logblk, head, cache, pin, lh, outstanding, committing, boot, btail,
          pc, tail, op, written, nops, crashes, panicked>>

PCs == {"idle", "asleep", "begin", "op", "wlog", "whead", "install", "clear", "done"}

TypeOK ==
  /\ home \in [Blocks -> Values \cup {Torn}]
  /\ logblk \in [1..LOGSIZE -> Values \cup {Torn}]
  /\ head \in Seq(Blocks) /\ lh \in Seq(Blocks)
  /\ Len(head) <= LOGSIZE /\ Len(lh) <= LOGSIZE
  /\ cache \in [Blocks -> Values \cup {None}]
  /\ pin \in [Blocks -> Nat]
  /\ outstanding \in Nat /\ committing \in BOOLEAN
  /\ boot \in {"head", "install", "clear", "up"} /\ btail \in 1..(LOGSIZE + 1)
  /\ pc \in [Procs -> PCs] /\ tail \in [Procs -> 1..(LOGSIZE + 1)]
  /\ op \in [Procs -> Values] /\ written \in [Procs -> SUBSET Blocks]
  /\ nops \in 0..MaxOps /\ crashes \in 0..MaxCrashes /\ panicked \in BOOLEAN

NoCache == [b \in Blocks |-> None]
NoPins == [b \in Blocks |-> 0]
AllIdle == [p \in Procs |-> "idle"]

\* The first boot from a file system image: an empty log.
Init ==
  /\ home = [b \in Blocks |-> 0] /\ logblk = [i \in 1..LOGSIZE |-> 0] /\ head = <<>>
  /\ cache = NoCache /\ pin = NoPins
  /\ lh = <<>> /\ outstanding = 0 /\ committing = FALSE
  /\ boot = "head" /\ btail = 1
  /\ pc = AllIdle /\ tail = [p \in Procs |-> 1]
  /\ op = [p \in Procs |-> 0] /\ written = [p \in Procs |-> {}]
  /\ nops = 0 /\ crashes = 0 /\ panicked = FALSE

Up == boot = "up" /\ ~panicked

-----------------------------------------------------------------------------
(* The buffer cache, as far as the log depends on it.                      *)

\* The content bread() returns.
Content(b) == IF cache[b] # None THEN cache[b] ELSE home[b]

\* Some process reads a block.
bread(b) ==
  /\ Up /\ cache[b] = None
  /\ cache' = [cache EXCEPT ![b] = home[b]]
  /\ UNCHANGED <<disk, pin, lh, outstanding, committing, booting, local, nops, crashes, panicked>>

\* bget() recycles the buffer of a block that nobody references.
Recycle(b) ==
  /\ Up /\ cache[b] # None /\ pin[b] = 0
  /\ cache' = [cache EXCEPT ![b] = None]
  /\ UNCHANGED <<disk, pin, lh, outstanding, committing, booting, local, nops, crashes, panicked>>

-----------------------------------------------------------------------------

Wake == [p \in Procs |-> IF pc[p] = "asleep" THEN "begin" ELSE pc[p]]

MustWait_IgnoreCommit ==
  Len(lh) + (outstanding + 1) * MAXOPBLOCKS > LOGSIZE
MustWait_IgnoreSpace == committing

\* The two conditions on which begin_op() sleeps.
MustWait ==
  \/ committing
  \/ Len(lh) + (outstanding + 1) * MAXOPBLOCKS > LOGSIZE

\* begin_op(), from its call or from a return of its sleep().
begin_op(p) ==
  /\ Up
  /\ \/ /\ pc[p] = "idle" /\ nops < MaxOps
        /\ nops' = nops + 1 /\ op' = [op EXCEPT ![p] = nops + 1]
     \/ /\ pc[p] = "begin"
        /\ UNCHANGED <<nops, op>>
  /\ IF MustWait
       THEN /\ pc' = [pc EXCEPT ![p] = "asleep"]
            /\ UNCHANGED <<written, outstanding>>
       ELSE /\ outstanding' = outstanding + 1
            /\ pc' = [pc EXCEPT ![p] = "op"]
            /\ written' = [written EXCEPT ![p] = {}]
  /\ UNCHANGED <<disk, cache, pin, lh, committing, booting, tail, crashes, panicked>>

TooBig == Len(lh) >= LOGSIZE \/ Len(lh) >= SIZE - 1

\* The loop of log_write() and what follows: absorption, or a new entry and bpin().
Absorb(b) ==
  IF b \in Range(lh)
    THEN UNCHANGED <<lh, pin>>
    ELSE lh' = Append(lh, b) /\ pin' = [pin EXCEPT ![b] = @ + 1]

\* An operation modifies block b in the cache, under the buffer's lock, and
\* calls log_write().  It keeps to OPBLOCKS different blocks.
log_write(p, b) ==
  /\ Up /\ pc[p] = "op"
  /\ b \in written[p] \/ Cardinality(written[p]) < OPBLOCKS
  /\ IF TooBig \/ outstanding < 1
       THEN /\ panicked' = TRUE
            /\ UNCHANGED <<cache, lh, pin, written>>
       ELSE /\ cache' = [cache EXCEPT ![b] = op[p]]
            /\ Absorb(b)
            /\ written' = [written EXCEPT ![p] = @ \cup {b}]
            /\ UNCHANGED panicked
  /\ UNCHANGED <<disk, outstanding, committing, booting, pc, tail, op, nops, crashes>>

\* end_op() up to the release of log.lock; commit() does nothing if the log is
\* empty.
end_op(p) ==
  /\ Up /\ pc[p] = "op"
  /\ outstanding' = outstanding - 1
  /\ panicked' = committing
  /\ IF outstanding' = 0
       THEN /\ committing' = TRUE
            /\ pc' = [pc EXCEPT ![p] = IF lh = <<>> THEN "done" ELSE "wlog"]
            /\ tail' = [tail EXCEPT ![p] = 1]
       ELSE /\ pc' = [Wake EXCEPT ![p] = "idle"]
            /\ UNCHANGED <<committing, tail>>
  /\ UNCHANGED <<disk, cache, pin, lh, booting, op, written, nops, crashes>>

\* Where the process goes after iteration tail of a loop over the log.
Loop(p, next) ==
  IF tail[p] < Len(lh)
    THEN tail' = [tail EXCEPT ![p] = @ + 1] /\ UNCHANGED pc
    ELSE tail' = [tail EXCEPT ![p] = 1] /\ pc' = [pc EXCEPT ![p] = next]

AfterWriteLog_NoHead == "install"

\* commit() writes the header when all the log blocks are on disk.
AfterWriteLog == "whead"

\* An iteration of write_log(): one log block.
write_log(p) ==
  /\ Up /\ pc[p] = "wlog"
  /\ logblk' = [logblk EXCEPT ![tail[p]] = Content(lh[tail[p]])]
  /\ Loop(p, AfterWriteLog)
  /\ UNCHANGED <<home, head, mem, booting, op, written, nops, crashes, panicked>>

\* The first write_head() of commit(): the transaction commits.
write_head(p) ==
  /\ Up /\ pc[p] = "whead"
  /\ head' = lh
  /\ pc' = [pc EXCEPT ![p] = "install"]
  /\ UNCHANGED <<home, logblk, mem, booting, tail, op, written, nops, crashes, panicked>>

\* memmove() and bwrite() of one block from the log to its home.
CopyHome(b, i) ==
  /\ home' = [home EXCEPT ![b] = logblk[i]]
  /\ cache' = [cache EXCEPT ![b] = logblk[i]]

Unpin(b) == pin' = [pin EXCEPT ![b] = @ - 1]

\* An iteration of install_trans(0).
install_trans(p) ==
  /\ Up /\ pc[p] = "install"
  /\ CopyHome(lh[tail[p]], tail[p])
  /\ Unpin(lh[tail[p]])
  /\ Loop(p, "clear")
  /\ UNCHANGED <<logblk, head, lh, outstanding, committing, booting, op, written,
                 nops, crashes, panicked>>

\* log.lh.n = 0 and the second write_head() of commit().
clear_head(p) ==
  /\ Up /\ pc[p] = "clear"
  /\ lh' = <<>> /\ head' = <<>>
  /\ pc' = [pc EXCEPT ![p] = "done"]
  /\ UNCHANGED <<home, logblk, cache, pin, outstanding, committing, booting, tail, op, written,
                 nops, crashes, panicked>>

WakeAfterCommit_Not == pc

WakeAfterCommit == Wake

\* The end of end_op(): committing is over, wake who waits in begin_op().
commit_done(p) ==
  /\ Up /\ pc[p] = "done"
  /\ committing' = FALSE
  /\ pc' = [WakeAfterCommit EXCEPT ![p] = "idle"]
  /\ UNCHANGED <<disk, cache, pin, lh, outstanding, booting, tail, op, written,
                 nops, crashes, panicked>>

-----------------------------------------------------------------------------
(* recover_from_log(), before any process uses the file system.            *)

read_head ==
  /\ boot = "head"
  /\ lh' = head
  /\ boot' = IF head = <<>> THEN "clear" ELSE "install"
  /\ UNCHANGED <<disk, cache, pin, outstanding, committing, btail, local, nops, crashes, panicked>>

\* An iteration of install_trans(1).
recover_install ==
  /\ boot = "install"
  /\ CopyHome(lh[btail], btail)
  /\ IF btail < Len(lh)
       THEN btail' = btail + 1 /\ UNCHANGED boot
       ELSE btail' = 1 /\ boot' = "clear"
  /\ UNCHANGED <<logblk, head, pin, lh, outstanding, committing, local,
                 nops, crashes, panicked>>

recover_clear ==
  /\ boot = "clear"
  /\ lh' = <<>> /\ head' = <<>>
  /\ boot' = "up"
  /\ UNCHANGED <<home, logblk, cache, pin, outstanding, committing, btail, local,
                 nops, crashes, panicked>>

-----------------------------------------------------------------------------

\* The block a commit() or recover_from_log() is writing when a crash comes.
TornHome == IF boot = "install" THEN {lh[btail]}
            ELSE {lh[tail[p]] : p \in {q \in Procs : pc[q] = "install"}}
TornLog == {tail[p] : p \in {q \in Procs : pc[q] = "wlog"}}

\* Power is lost and the machine boots again: the disk stays, memory goes.
\* A block write in progress is not done at all, or leaves a torn block.
Crash ==
  /\ crashes < MaxCrashes /\ ~panicked
  /\ crashes' = crashes + 1
  /\ \/ UNCHANGED <<home, logblk>>
     \/ \E b \in TornHome : home' = [home EXCEPT ![b] = Torn] /\ UNCHANGED logblk
     \/ \E i \in TornLog : logblk' = [logblk EXCEPT ![i] = Torn] /\ UNCHANGED home
  /\ cache' = NoCache /\ pin' = NoPins
  /\ lh' = <<>> /\ outstanding' = 0 /\ committing' = FALSE
  /\ boot' = "head" /\ btail' = 1
  /\ pc' = AllIdle /\ tail' = [p \in Procs |-> 1]
  /\ op' = [p \in Procs |-> 0] /\ written' = [p \in Procs |-> {}]
  /\ UNCHANGED <<head, nops, panicked>>

Step(p) ==
  \/ begin_op(p) \/ end_op(p) \/ \E b \in Blocks : log_write(p, b)
  \/ write_log(p) \/ write_head(p) \/ install_trans(p) \/ clear_head(p) \/ commit_done(p)

Recover == read_head \/ recover_install \/ recover_clear

Next ==
  \/ \E p \in Procs : Step(p)
  \/ \E b \in Blocks : bread(b) \/ Recycle(b)
  \/ Recover
  \/ Crash

Spec == Init /\ [][Next]_vars

\* The recovery goes on, and so does some process that is in an operation, in
\* begin_op() or in a commit. This is little to ask of the scheduler: no fairness
\* between processes is needed while the operations are bounded.
Progress == \/ Recover
            \/ \E p \in Procs : \/ pc[p] = "begin" /\ begin_op(p)
                               \/ end_op(p) \/ write_log(p) \/ write_head(p)
                               \/ install_trans(p) \/ clear_head(p) \/ commit_done(p)
LiveSpec == Spec /\ WF_vars(Progress)

-----------------------------------------------------------------------------

\* What the home blocks will hold once recovery has replayed the log.
Recovered ==
  [b \in Blocks |->
     LET at == {i \in 1..Len(head) : head[i] = b}
     IN  IF at = {} THEN home[b] ELSE logblk[CHOOSE i \in at : TRUE]]

Abstract == INSTANCE AtomicDisk WITH
  durable <- Recovered,
  mem <- IF boot = "up" THEN [b \in Blocks |-> Content(b)] ELSE Recovered,
  active <- {p \in Procs : pc[p] = "op"}

\* Crash atomicity: log.c implements AtomicDisk.  Operations become durable
\* together, only when none is in progress, and a crash at any write of commit()
\* or of recovery itself, torn writes included, loses whole groups of operations
\* and nothing else.
AtomicCommit == Abstract!Spec

\* log_write() never panics with "too big a transaction": what begin_op()
\* reserves is enough for the operations it lets in, in a log of LOGSIZE blocks
\* as mkfs makes it, if each of them writes fewer than MAXOPBLOCKS blocks.
\* (Otherwise they may fill the log but for one block and rewrite one of theirs:
\* log_write() tests for space before it looks whether the block is in the log.)
LogFits == ~panicked

\* "The logging system only commits when there are no FS system calls active":
\* while a commit runs nobody is between begin_op() and end_op(), and only one
\* process commits.
CommitAlone ==
  \A p \in Procs : pc[p] \in {"wlog", "whead", "install", "clear", "done"} =>
    committing /\ \A q \in Procs \ {p} : pc[q] \in {"idle", "asleep", "begin"}

\* A buffer is pinned exactly once from its first log_write() until its block is
\* installed: a modified block cannot leave the cache early and no buffer stays
\* pinned for good.
ToInstall ==
  IF \E p \in Procs : pc[p] = "clear" THEN {}
  ELSE {lh[i] : i \in {k \in 1..Len(lh) : \A p \in Procs : pc[p] = "install" => k >= tail[p]}}
PinnedExact ==
  boot = "up" => \A b \in Blocks : pin[b] = IF b \in ToInstall THEN 1 ELSE 0

\* The state of struct log stays consistent: a commit runs alone, and exactly
\* what it has still to install is pinned.
CommitSafe == TypeOK /\ CommitAlone /\ PinnedExact

\* Nobody waits in begin_op() for ever: whoever sleeps there, for log space or
\* for a commit, is woken in time and gets in once the others are through.
BeginReturns == \A p \in Procs :
  pc[p] \in {"asleep", "begin"} ~> pc[p] \in {"op", "idle"}
=============================================================================
