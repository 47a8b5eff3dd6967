---------------------------------- MODULE Bio ----------------------------------
(***************************************************************************)
(* The buffer cache (kernel/bio.c), with the two ways its clients change a *)
(* block: write it through (log.c's bwrite) or pin it until the log has    *)
(* installed it (log_write, install_trans). The disk is DiskService, which *)
(* VirtioDisk implements. What runs under bcache.lock is one step.         *)
(* bpc[p]: "idle"; "lock" in acquiresleep(&b->lock); "io" in the driver;   *)
(* "held" with the locked buffer in hand; "put" in brelse, between         *)
(* releasesleep and acquire(&bcache.lock).                                 *)
(***************************************************************************)
EXTENDS Integers, FiniteSets, Sequences, Functions

CONSTANTS Users, Bufs, Blocks,
          Contents,             \* contents of a block
          MaxPins,              \* bound on the blocks the log keeps pinned
          Nobody, NoBuf, NoBlock, NoCall

ASSUME BioAssumption ==
  /\ IsFiniteSet(Users) /\ IsFiniteSet(Bufs)
  /\ Nobody \notin Users /\ NoBuf \notin Bufs /\ NoBlock \notin Blocks
  /\ NoCall \notin [buf : Bufs, blk : Blocks, write : BOOLEAN, done : BOOLEAN]

VARIABLES bpc, cur,                      \* each process: place, buffer
          blockno, bdata, refcnt, valid, \* fields of struct buf
          holder,                        \* who has b->lock
          lru,                           \* the list: head.next first
          pinned,                        \* blocks the log has pinned
          req, medium,                   \* the disk
          bpanic

biovars == <<bpc, cur, blockno, bdata, refcnt, valid, holder, lru, pinned, req, medium,
          bpanic>>

Disk == INSTANCE DiskService WITH Procs <- Users, NoReq <- NoCall,
                                 data <- bdata, disk <- medium

\* binit; the disk may hold anything.
BioInit ==
  /\ bpc = [p \in Users |-> "idle"]
  /\ cur = [p \in Users |-> NoBuf]
  /\ blockno = [b \in Bufs |-> NoBlock]
  /\ bdata \in {[b \in Bufs |-> v] : v \in Contents}
  /\ medium \in [Blocks -> Contents]
  /\ refcnt = [b \in Bufs |-> 0]
  /\ valid = [b \in Bufs |-> FALSE]
  /\ holder = [b \in Bufs |-> Nobody]
  /\ lru = CHOOSE s \in [1..Cardinality(Bufs) -> Bufs] : Range(s) = Bufs
  /\ pinned = {}
  /\ req = [p \in Users |-> NoCall]
  /\ bpanic = FALSE

BGoto(p, l) == bpc' = [bpc EXCEPT ![p] = l]
MoveToFront(b) == LET i == CHOOSE j \in DOMAIN lru : lru[j] = b IN
                  [j \in DOMAIN lru |-> IF j = 1 THEN b
                                       ELSE IF j <= i THEN lru[j - 1] ELSE lru[j]]
Cached(k) == {b \in Bufs : blockno[b] = k}
Unused_Any == DOMAIN lru
Unused == {i \in DOMAIN lru : refcnt[lru[i]] = 0}

\* The references of a buffer, as bio.c means to count them: the processes
\* between bget and the end of brelse, and the log's pin.
Refs(b) == Cardinality({p \in Users : cur[p] = b})
           + (IF blockno[b] \in pinned THEN 1 ELSE 0)

\* bget under bcache.lock: the buffer that caches the block ...
bgetHit(p, k) ==
  /\ bpc[p] = "idle"
  /\ \E b \in Cached(k) : /\ refcnt' = [refcnt EXCEPT ![b] = @ + 1]
                          /\ cur' = [cur EXCEPT ![p] = b]
  /\ BGoto(p, "lock")
  /\ UNCHANGED <<blockno, bdata, valid, holder, lru, pinned, req, medium, bpanic>>

Invalidated_Not(b) == valid
Invalidated(b) == [valid EXCEPT ![b] = FALSE]

\* ... else the least recently used of the unused buffers, else a panic. By
\* log.c's reservations the callers never want more buffers than there are.
bgetRecycle(p, k) ==
  /\ bpc[p] = "idle" /\ Cached(k) = {}
  /\ \E b \in Bufs : Refs(b) = 0
  /\ IF Unused = {}
     THEN bpanic' = TRUE /\ UNCHANGED <<bpc, cur, blockno, valid, refcnt>>
     ELSE LET b == lru[CHOOSE i \in Unused : \A j \in Unused : j <= i] IN
          /\ blockno' = [blockno EXCEPT ![b] = k]
          /\ valid' = Invalidated(b)
          /\ refcnt' = [refcnt EXCEPT ![b] = 1]
          /\ cur' = [cur EXCEPT ![p] = b]
          /\ BGoto(p, "lock")
          /\ UNCHANGED bpanic
  /\ UNCHANGED <<bdata, holder, lru, pinned, req, medium>>

\* acquiresleep(&b->lock), then bread's test of valid.
bread(p) ==
  LET b == cur[p] IN
  /\ bpc[p] = "lock" /\ holder[b] = Nobody
  /\ holder' = [holder EXCEPT ![b] = p]
  /\ UNCHANGED <<cur, blockno, bdata, refcnt, valid, lru, pinned, bpanic>>
  /\ IF valid[b] THEN BGoto(p, "held") /\ UNCHANGED <<req, medium>>
     ELSE BGoto(p, "io") /\ Disk!Call(p, b, blockno[b], FALSE)

\* The disk copies the block at some moment of the call.
Transfer(p) ==
  /\ Disk!Serve(p)
  /\ UNCHANGED <<bpc, cur, blockno, refcnt, valid, holder, lru, pinned, bpanic>>

\* virtio_disk_rw returns; bread then sets valid (after bwrite it is set).
IODone(p) ==
  /\ Disk!Return(p)
  /\ valid' = [valid EXCEPT ![cur[p]] = TRUE]
  /\ BGoto(p, "held")
  /\ UNCHANGED <<cur, blockno, refcnt, holder, lru, pinned, bpanic>>

\* A client puts v in its locked buffer and writes it through.
bwrite(p, v) ==
  LET b == cur[p] IN
  /\ bpc[p] = "held"
  /\ bdata' = [bdata EXCEPT ![b] = v]
  /\ Disk!Call(p, b, blockno[b], TRUE)
  /\ BGoto(p, "io")
  /\ UNCHANGED <<cur, blockno, refcnt, valid, holder, lru, pinned, bpanic>>

\* ... or leaves the write to the log: log_write pins the buffer the first
\* time its block enters the transaction.
bpin(p, v) ==
  LET b == cur[p] IN
  /\ bpc[p] = "held"
  /\ blockno[b] \in pinned \/ Cardinality(pinned) < MaxPins
  /\ bdata' = [bdata EXCEPT ![b] = v]
  /\ pinned' = pinned \cup {blockno[b]}
  /\ refcnt' = [refcnt EXCEPT ![b] = IF blockno[b] \in pinned THEN @ ELSE @ + 1]
  /\ UNCHANGED <<bpc, cur, blockno, valid, holder, lru, req, medium, bpanic>>

\* install_trans unpins a buffer that it has just written home.
bunpin(p) ==
  LET b == cur[p] IN
  /\ bpc[p] = "held" /\ blockno[b] \in pinned /\ medium[blockno[b]] = bdata[b]
  /\ pinned' = pinned \ {blockno[b]}
  /\ refcnt' = [refcnt EXCEPT ![b] = @ - 1]
  /\ UNCHANGED <<bpc, cur, blockno, bdata, valid, holder, lru, req, medium, bpanic>>

\* brelse: releasesleep first ...
ReleaseSleep(p) ==
  /\ bpc[p] = "held"
  /\ holder' = [holder EXCEPT ![cur[p]] = Nobody]
  /\ BGoto(p, "put")
  /\ UNCHANGED <<cur, blockno, bdata, refcnt, valid, lru, pinned, req, medium, bpanic>>

\* ... then the count, under bcache.lock, and the list if it was the last.
brelse(p) ==
  LET b == cur[p] IN
  /\ bpc[p] = "put"
  /\ refcnt' = [refcnt EXCEPT ![b] = @ - 1]
  /\ lru' = IF refcnt[b] = 1 THEN MoveToFront(b) ELSE lru
  /\ cur' = [cur EXCEPT ![p] = NoBuf]
  /\ BGoto(p, "idle")
  /\ UNCHANGED <<blockno, bdata, valid, holder, pinned, req, medium, bpanic>>

BioNext == \E p \in Users :
          \/ \E k \in Blocks : bgetHit(p, k) \/ bgetRecycle(p, k)
          \/ \E v \in Contents : bwrite(p, v) \/ bpin(p, v)
          \/ bunpin(p)
          \/ bread(p) \/ Transfer(p) \/ IODone(p) \/ ReleaseSleep(p) \/ brelse(p)

BioSpec == BioInit /\ [][BioNext]_biovars
-------------------------------------------------------------------------------
(* Properties *)

\* The cache's bookkeeping: at most one buffer caches a block, refcnt counts the
\* users and the pin exactly, the list holds every buffer once, a buffer's lock
\* is with the process that is using it, a pinned block stays cached, and bget
\* never runs out of buffers.
CacheConsistent ==
  /\ \A k \in Blocks : Cardinality(Cached(k)) <= 1
  /\ \A b \in Bufs : refcnt[b] = Refs(b)
  /\ Len(lru) = Cardinality(Bufs) /\ Range(lru) = Bufs
  /\ \A b \in Bufs, p \in Users :
       holder[b] = p <=> cur[p] = b /\ bpc[p] \in {"io", "held"}
  /\ \A k \in pinned : \E b \in Cached(k) : valid[b]
  /\ ~bpanic

\* What a block holds, and who has it: what the valid buffer says, if there is one.
ValidFor(k) == {b \in Cached(k) : valid[b]}
BlockContent == [k \in Blocks |-> IF ValidFor(k) = {} THEN medium[k]
                                  ELSE bdata[CHOOSE b \in ValidFor(k) : TRUE]]
BlockOwner == [k \in Blocks |-> IF ValidFor(k) = {} THEN Nobody
                                ELSE holder[CHOOSE b \in ValidFor(k) : TRUE]]

\* The cache implements BlockStore: a process that has a block sees what the
\* block's last user left there, through recycling, misses and pins.
Store == INSTANCE BlockStore WITH Procs <- Users, Values <- Contents,
                                  content <- BlockContent, owner <- BlockOwner
IsBlockStore == Store!Spec
=============================================================================
