-------------------------------- MODULE FileData --------------------------------
(***************************************************************************)
(* The contents of files: the free bitmap and the block maps of inodes     *)
(* (balloc, bfree, bmap, itrunc, readi and writei of kernel/fs.c) under    *)
(* the read, write and O_TRUNC of several processes (kernel/file.c,        *)
(* sys_open), some of which share an open file and its offset.             *)
(*                                                                         *)
(* A block is BSIZE words; a word is a datum or, in an indirect block, a   *)
(* block number. Data is abstracted to where it belongs: who writes offset *)
(* o of inode i writes Datum(i, o). An inode is only changed under its     *)
(* lock, so the steps are the uses of what inodes share, the bitmap.       *)
(***************************************************************************)
EXTENDS Integers, FiniteSets, FiniteSetsExt

CONSTANTS Callers, NoCaller,
          Files,           \* a set of numbers
          OpenFiles,       \* open files, a set of records [id, ip]
          Lens,            \* the n of read and write, as ints
          BSIZE, NDIRECT, NBLOCKS, MAXOPBLOCKS,
          BPB,             \* blocks that a bitmap block describes
          UINT             \* 2^32

NINDIRECT == BSIZE
MAXFILE == NDIRECT + NINDIRECT

ASSUME FileAssumption ==
  /\ BSIZE \in Nat \ {0} /\ BPB \in Nat \ {0} /\ {NDIRECT, NBLOCKS, UINT, MAXOPBLOCKS} \subseteq Nat
  /\ MAXFILE * BSIZE < UINT
  /\ Files \subseteq Nat /\ IsFiniteSet(Files) /\ Lens \subseteq Int
  /\ \A f \in OpenFiles : f.ip \in Files
  /\ NoCaller \notin Callers
  /\ MAXOPBLOCKS > 5

Blocks == 1..NBLOCKS
Zeros == [w \in 0..BSIZE - 1 |-> 0]
Datum(i, o) == NBLOCKS + 1 + (MAXFILE * BSIZE) * i + o      \* no block number, no other datum
Stale == [w \in 0..BSIZE - 1 |-> -1]      \* what a free block happens to hold
NoOp == [f |-> NoCaller, i |-> 0, rem |-> 0, n1 |-> 0, tot |-> 0]

VARIABLES used, blk,          \* the bitmap; the blocks, through the cache
          addrs, size, ilocked,  \* fields of struct inode
          off,                \* f->off
          dpc, op,             \* where a call is, and its locals
          logged,             \* the blocks a transaction has log_written
          dpanic

datavars == <<used, blk, addrs, size, ilocked, off, dpc, op, logged, dpanic>>

DataInit ==
  /\ used = {}
  /\ blk = [b \in Blocks |-> Stale]
  /\ addrs = [i \in Files |-> [k \in 0..NDIRECT |-> 0]]
  /\ size = [i \in Files |-> 0]
  /\ ilocked = [i \in Files |-> NoCaller]
  /\ off = [f \in OpenFiles |-> 0]
  /\ dpc = [p \in Callers |-> "idle"]
  /\ op = [p \in Callers |-> NoOp]
  /\ logged = [p \in Callers |-> {}]
  /\ dpanic = FALSE

Goto(p, l, o) == dpc' = [dpc EXCEPT ![p] = l] /\ op' = [op EXCEPT ![p] = o]
log_write(p, bs) == logged' = [logged EXCEPT ![p] = @ \cup bs]
Bitmap(b) == <<"bitmap", b \div BPB>>
Data(b) == <<"data", b>>
Dinode(i) == <<"inode", i>>

\* iunlock and end_op.
EndOp(p, i) == /\ ilocked' = [ilocked EXCEPT ![i] = NoCaller]
               /\ logged' = [logged EXCEPT ![p] = {}]

\* The address bmap finds for block bn of inode i, 0 if there is none.
Mapped(i, bn) == IF bn < NDIRECT THEN addrs[i][bn]
                 ELSE IF addrs[i][NDIRECT] = 0 THEN 0
                 ELSE blk[addrs[i][NDIRECT]][bn - NDIRECT]
InRange(bn) == bn < MAXFILE

\* One balloc of bmap, of a data block or of the indirect block before it: the
\* first free block, zeroed, recorded in the inode or in the indirect block.
bmap(p, i, bn) ==
  LET b == Min(Blocks \ used)
      ind == addrs[i][NDIRECT]
      k == IF bn < NDIRECT THEN bn ELSE NDIRECT
  IN /\ used' = used \cup {b}
     /\ IF bn < NDIRECT \/ ind = 0
        THEN /\ addrs' = [addrs EXCEPT ![i][k] = b]
             /\ blk' = [blk EXCEPT ![b] = Zeros]
             /\ log_write(p, {Bitmap(b), Data(b)})
        ELSE /\ blk' = [blk EXCEPT ![b] = Zeros, ![ind][bn - NDIRECT] = b]
             /\ log_write(p, {Bitmap(b), Data(b), Data(ind)})
             /\ UNCHANGED addrs

\* filewrite of n bytes; n <= 0 writes nothing.
BeginWrite(p, f, n) ==
  /\ dpc[p] = "idle" /\ n > 0
  /\ Goto(p, "chunk", [f |-> f, i |-> f.ip, rem |-> n, n1 |-> 0, tot |-> 0])
  /\ UNCHANGED <<used, blk, addrs, size, ilocked, off, logged, dpanic>>

\* A round of its loop: begin_op, ilock, and the checks of writei.
max_NoSpare == ((MAXOPBLOCKS - 1 - 1) \div 2) * BSIZE
max == ((MAXOPBLOCKS - 1 - 1 - 2) \div 2) * BSIZE
Chunk(p) ==
  LET o == op[p]
      n1 == IF o.rem > max THEN max ELSE o.rem
  IN /\ dpc[p] = "chunk" /\ ilocked[o.i] = NoCaller
     /\ IF off[o.f] > size[o.i] \/ off[o.f] + n1 > MAXFILE * BSIZE
        THEN Goto(p, "idle", NoOp) /\ UNCHANGED ilocked
        ELSE /\ Goto(p, "writei", [o EXCEPT !.n1 = n1, !.tot = 0])
             /\ ilocked' = [ilocked EXCEPT ![o.i] = p]
     /\ UNCHANGED <<used, blk, addrs, size, off, logged, dpanic>>

Offset(o) == off[o.f] + o.tot
Bn(o) == Offset(o) \div BSIZE

\* writei needs a block that is not there.
Extend(p) ==
  LET o == op[p] IN
  /\ dpc[p] = "writei" /\ o.tot < o.n1
  /\ Mapped(o.i, Bn(o)) = 0
  /\ IF used = Blocks
     THEN /\ Goto(p, "written", o)               \* out of blocks: break
          /\ UNCHANGED <<used, blk, addrs, logged>>
     ELSE bmap(p, o.i, Bn(o)) /\ UNCHANGED <<dpc, op>>
  /\ dpanic' = (dpanic \/ ~InRange(Bn(o)))
  /\ UNCHANGED <<size, ilocked, off>>

\* The first k words of what the call writes into its block.
CopyIn(o, b, k) ==
  [blk EXCEPT ![b] = [w \in 0..BSIZE - 1 |->
     IF w - (Offset(o) % BSIZE) \in 0..k - 1
     THEN Datum(o.i, Bn(o) * BSIZE + w) ELSE @[w]]]

\* writei copies into a block; either_copyin may fail after any part of it.
CopyBlock(p) ==
  LET o == op[p]
      b == Mapped(o.i, Bn(o))
      m == Min({o.n1 - o.tot, BSIZE - (Offset(o) % BSIZE)})
  IN /\ dpc[p] = "writei" /\ o.tot < o.n1 /\ b # 0
     /\ \/ /\ blk' = CopyIn(o, b, m)
           /\ log_write(p, {Data(b)})
           /\ Goto(p, "writei", [o EXCEPT !.tot = @ + m])
        \/ /\ \E k \in 0..m - 1 : blk' = CopyIn(o, b, k)
           /\ Goto(p, "written", o)
           /\ UNCHANGED logged
     /\ UNCHANGED <<used, addrs, size, ilocked, off, dpanic>>

\* The end of writei: the size, iupdate; then filewrite's offset and loop.
Written(p) ==
  LET o == op[p] IN
  /\ dpc[p] = "written" \/ (dpc[p] = "writei" /\ o.tot = o.n1)
  /\ size' = [size EXCEPT ![o.i] = IF Offset(o) > @ THEN Offset(o) ELSE @]
  /\ log_write(p, {Dinode(o.i)})
  /\ off' = [off EXCEPT ![o.f] = Offset(o)]
  /\ Goto(p, "endop", [o EXCEPT !.rem = IF o.tot = o.n1 THEN @ - o.tot ELSE 0])
  /\ UNCHANGED <<used, blk, addrs, ilocked, dpanic>>

EndChunk(p) ==
  LET o == op[p] IN
  /\ dpc[p] = "endop"
  /\ EndOp(p, o.i)
  /\ IF o.rem > 0 THEN Goto(p, "chunk", [o EXCEPT !.n1 = 0, !.tot = 0])
     ELSE Goto(p, "idle", NoOp)
  /\ UNCHANGED <<used, blk, addrs, size, off, dpanic>>

\* fileread: one step, under the inode's lock. readi takes n as unsigned; a
\* copyout that fails leaves f->off. bmap may not allocate here: a log_write
\* outside a transaction panics.
readi(i, o, n) == IF o > size[i] \/ (o + n) % UINT < o THEN 0
                  ELSE IF (o + n) % UINT > size[i] THEN size[i] - o ELSE n
FileRead(p, f, n) ==
  LET r == readi(f.ip, off[f], n % UINT) IN
  /\ dpc[p] = "idle" /\ ilocked[f.ip] = NoCaller
  /\ off' = [off EXCEPT ![f] = @ + r] \/ UNCHANGED off
  /\ dpanic' = (dpanic \/ \E k \in off[f]..off[f] + r - 1 :
                                Mapped(f.ip, k \div BSIZE) = 0)
  /\ UNCHANGED <<used, blk, addrs, size, ilocked, dpc, op, logged>>

\* open with O_TRUNC, or the iput that frees i: itrunc in a transaction.
BeginTrunc(p, i) ==
  /\ dpc[p] = "idle" /\ ilocked[i] = NoCaller
  /\ ilocked' = [ilocked EXCEPT ![i] = p]
  /\ Goto(p, "itrunc", [NoOp EXCEPT !.i = i])
  /\ UNCHANGED <<used, blk, addrs, size, off, logged, dpanic>>

bfree(p, b) == /\ used' = used \ {b}
               /\ blk' = [blk EXCEPT ![b] = Stale]
               /\ log_write(p, {Bitmap(b)})
               /\ dpanic' = (dpanic \/ b \notin used)

\* The entries of the indirect block that are in use, from the j-th on.
Indirect_OffByOne(i, j) == IF addrs[i][NDIRECT] = 0 THEN {}
                           ELSE {k \in j..NINDIRECT - 2 : blk[addrs[i][NDIRECT]][k] # 0}
Indirect(i, j) == IF addrs[i][NDIRECT] = 0 THEN {}
                  ELSE {k \in j..NINDIRECT - 1 : blk[addrs[i][NDIRECT]][k] # 0}

\* itrunc frees block by block: the direct ones, those of the indirect block
\* (whose entries stay as they are; tot is the loop's j), the indirect block.
itrunc(p) ==
  LET i == op[p].i
      direct == {k \in 0..NDIRECT - 1 : addrs[i][k] # 0}
      ind == addrs[i][NDIRECT]
      left == Indirect(i, op[p].tot)
  IN /\ dpc[p] = "itrunc"
     /\ \/ /\ direct # {}
           /\ bfree(p, addrs[i][Min(direct)])
           /\ addrs' = [addrs EXCEPT ![i][Min(direct)] = 0]
           /\ UNCHANGED <<size, ilocked, dpc, op>>
        \/ /\ direct = {} /\ left # {}
           /\ bfree(p, blk[ind][Min(left)])
           /\ op' = [op EXCEPT ![p].tot = Min(left) + 1]
           /\ UNCHANGED <<addrs, size, ilocked, dpc>>
        \/ /\ direct = {} /\ left = {} /\ ind # 0
           /\ bfree(p, ind)
           /\ addrs' = [addrs EXCEPT ![i][NDIRECT] = 0]
           /\ UNCHANGED <<size, ilocked, dpc, op>>
        \/ /\ direct = {} /\ ind = 0
           /\ size' = [size EXCEPT ![i] = 0]
           /\ EndOp(p, i)
           /\ Goto(p, "idle", NoOp)
           /\ UNCHANGED <<used, blk, addrs, dpanic>>
     /\ UNCHANGED off

DataNext == \E p \in Callers :
          \/ \E f \in OpenFiles, n \in Lens : BeginWrite(p, f, n) \/ FileRead(p, f, n)
          \/ \E i \in Files : BeginTrunc(p, i)
          \/ Chunk(p) \/ Extend(p) \/ CopyBlock(p) \/ Written(p) \/ EndChunk(p)
          \/ itrunc(p)

DataSpec == DataInit /\ [][DataNext]_datavars
-------------------------------------------------------------------------------
(* Properties *)

\* The places that hold a block number: of an inode, or of its indirect block
\* unless itrunc has freed that entry already.
Freed(i) == IF \E p \in Callers : dpc[p] = "itrunc" /\ op[p].i = i
            THEN op[CHOOSE p \in Callers : ilocked[i] = p].tot ELSE 0
Places(i) == (0..NDIRECT) \cup {NDIRECT + 1 + j : j \in Freed(i)..NINDIRECT - 1}
BlockAt(i, k) == IF k <= NDIRECT THEN addrs[i][k] ELSE Mapped(i, k - 1)

\* Every block is either free or in exactly one place of one file, in all
\* interleavings of writes and truncations and when the disk is full; bmap is
\* never out of range, a block is never freed twice, and a read never allocates.
BlocksExact ==
  LET places == {x \in Files \X (0..NDIRECT + NINDIRECT) :
                   x[2] \in Places(x[1]) /\ BlockAt(x[1], x[2]) # 0}
  IN /\ {BlockAt(x[1], x[2]) : x \in places} = used
     /\ Cardinality(places) = Cardinality(used)
     /\ ~dpanic

\* What a file holds below its size is what was written to it at that offset:
\* no hole, nothing of another file or of a block's previous use. (An inode
\* that is being truncated is locked until its size is 0.)
HoldsWhatWasWritten ==
  \A i \in Files :
    \/ \E p \in Callers : dpc[p] = "itrunc" /\ op[p].i = i
    \/ \A o \in 0..size[i] - 1 :
         LET b == Mapped(i, o \div BSIZE)
         IN  b # 0 /\ blk[b][o % BSIZE] = Datum(i, o)

\* A chunk of filewrite logs at most MAXOPBLOCKS blocks, as begin_op reserves,
\* though every block it allocates may be described by another bitmap block.
ChunkFits == \A p \in Callers : dpc[p] # "itrunc" =>
                                Cardinality(logged[p]) <= MAXOPBLOCKS

\* Writes are exact and stay within their transaction (bmap, writei, filewrite).
ContentExact == HoldsWhatWasWritten /\ ChunkFits
=============================================================================
