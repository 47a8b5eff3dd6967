---------------------------- MODULE FileDataProofs ----------------------------
(***************************************************************************)
(* Proofs about FileData, for any number of files, open files and callers, *)
(* any sizes of blocks, disk and block maps, and calls of any length.      *)
(***************************************************************************)
EXTENDS FileData, TLAPS

-----------------------------------------------------------------------------
(* The invariant.                                                          *)

\* The states of a call in which it has its inode locked.
HasInode == {"writei", "written", "endop", "itrunc"}

Labels == HasInode \cup {"idle", "chunk"}
Ops == [f : OpenFiles \cup {NoCaller}, i : Files \cup {0}, rem : Nat, n1 : Nat, tot : Nat]

DataTypes ==
  /\ used \subseteq Blocks
  /\ blk \in [Blocks -> [0..(BSIZE - 1) -> Int]]
  /\ addrs \in [Files -> [0..NDIRECT -> 0..NBLOCKS]]
  /\ size \in [Files -> 0..(MAXFILE * BSIZE)]
  /\ ilocked \in [Files -> Callers \cup {NoCaller}]
  /\ off \in [OpenFiles -> Nat]
  /\ dpc \in [Callers -> Labels] /\ op \in [Callers -> Ops]

\* An inode is locked by the call that is at work on it.
InodeLocks ==
  /\ \A p \in Callers : dpc[p] \in HasInode => op[p].i \in Files /\ ilocked[op[p].i] = p
  /\ \A i \in Files : ilocked[i] # NoCaller =>
                        dpc[ilocked[i]] \in HasInode /\ op[ilocked[i]].i = i

\* What a call of filewrite has checked, and how far it can be.
WriteCalls ==
  \A p \in Callers :
    LET o == op[p] IN
    /\ dpc[p] \in {"chunk", "writei", "written", "endop"} => o.f \in OpenFiles /\ o.i = o.f.ip
    /\ dpc[p] \in {"writei", "written"} =>
         /\ off[o.f] <= size[o.i] /\ off[o.f] + o.n1 <= MAXFILE * BSIZE
         /\ o.tot <= o.n1 /\ o.n1 <= o.rem

\* The places of all files, and the block in each of them.
AllPlaces == Files \X (0..MAXFILE)
Held == [x \in AllPlaces |-> IF x[2] \in Places(x[1]) THEN BlockAt(x[1], x[2]) ELSE 0]

\* The blocks of U are those in the places of A, each in one.
Exact(A, U) ==
  /\ \A x \in DOMAIN A : A[x] # 0 => A[x] \in U
  /\ \A b \in U : \E x \in DOMAIN A : A[x] = b
  /\ \A x, y \in DOMAIN A : A[x] # 0 /\ A[x] = A[y] => x = y

\* An indirect block has block numbers.
IndirectTyped ==
  \A i \in Files : addrs[i][NDIRECT] # 0 =>
    \A j \in 0..(BSIZE - 1) : blk[addrs[i][NDIRECT]][j] \in 0..NBLOCKS

Truncating(i) == \E p \in Callers : dpc[p] = "itrunc" /\ op[p].i = i

\* Offset o of file i is written.
Good(i, o) ==
  LET b == Mapped(i, o \div BSIZE) IN b # 0 /\ blk[b][o % BSIZE] = Datum(i, o)
\* All of a file is, and what a call has written before it sets the size.
Contents ==
  /\ \A i \in Files : Truncating(i) \/ \A o \in 0..(size[i] - 1) : Good(i, o)
  /\ \A p \in Callers : dpc[p] \in {"writei", "written"} =>
       \A o \in off[op[p].f]..(off[op[p].f] + op[p].tot - 1) : Good(op[p].i, o)

DataInv == /\ DataTypes /\ InodeLocks /\ WriteCalls /\ Exact(Held, used) /\ IndirectTyped
           /\ Contents /\ ~dpanic

-----------------------------------------------------------------------------
(* Constants and places.                                                   *)

\* What the sizes are.
LEMMA Sizes ==
  /\ BSIZE \in Nat \ {0} /\ NDIRECT \in Nat /\ NBLOCKS \in Nat /\ UINT \in Nat
  /\ MAXFILE \in Nat /\ MAXFILE = NDIRECT + BSIZE /\ NINDIRECT = BSIZE
  /\ MAXFILE * BSIZE \in Nat /\ MAXFILE * BSIZE < UINT
<1>1. /\ BSIZE \in Nat \ {0} /\ NDIRECT \in Nat /\ NBLOCKS \in Nat /\ UINT \in Nat
      /\ MAXFILE * BSIZE < UINT
  BY FileAssumption
<1>2. MAXFILE \in Nat /\ MAXFILE = NDIRECT + BSIZE /\ NINDIRECT = BSIZE
  BY <1>1 DEF MAXFILE, NINDIRECT
<1>3. MAXFILE * BSIZE \in Nat
  BY <1>1, <1>2
<1> QED
  BY Zenon, <1>1, <1>2, <1>3

\* The place of an entry of the indirect block.
LEMMA EntryPlace ==
  ASSUME NEW n \in 0..(BSIZE - 1)
  PROVE  LET k == NDIRECT + 1 + n IN
         /\ NDIRECT \in 0..NDIRECT /\ NDIRECT \in 0..MAXFILE /\ k \in 0..MAXFILE /\ k # NDIRECT
         /\ k \notin 0..NDIRECT /\ \A m \in 0..(BSIZE - 1) : NDIRECT + 1 + m = k <=> m = n
<1>1. n \in Nat /\ n < BSIZE
  BY Sizes
<1> QED
  BY <1>1, Sizes

\* Where bmap records a block in the inode.
LEMMA AddrPlace ==
  ASSUME NEW k \in 0..NDIRECT
  PROVE  /\ NDIRECT \in 0..NDIRECT /\ k \in 0..MAXFILE
         /\ \A m \in 0..(BSIZE - 1) : NDIRECT + 1 + m # k
<1>1. k \in Nat /\ k <= NDIRECT
  BY Sizes
<1> QED
  BY <1>1, Sizes

\* A block as balloc leaves it.
LEMMA ZerosType == Zeros \in [0..(BSIZE - 1) -> Int]
  BY DEF Zeros

\* The place of the indirect block in an inode.
LEMMA LastAddr == NDIRECT \in 0..NDIRECT
  BY Sizes

\* What \div and % mean, for the provers.
LEMMA DivMod ==
  ASSUME NEW a \in Nat, NEW b \in Nat \ {0}
  PROVE  /\ a \div b \in Nat /\ a % b \in 0..(b - 1)
         /\ a = b * (a \div b) + (a % b)
  OBVIOUS

\* The next multiple of b is b further.
LEMMA NextMultiple ==
  ASSUME NEW b \in Nat \ {0}, NEW q \in Int, NEW s \in Int, q < s
  PROVE  b * s >= b * q + b
<1>1. b * (s - q - 1) >= 0
  OBVIOUS
<1>2. b * (s - q - 1) = b * s - b * q - b
  OBVIOUS
<1> QED
  BY <1>1, <1>2

\* Quotient and remainder are the only ones.
LEMMA DivUnique ==
  ASSUME NEW a \in Nat, NEW b \in Nat \ {0}, NEW q \in Int, NEW x \in 0..(b - 1), a = b * q + x
  PROVE  a % b = x /\ a \div b = q
<1> DEFINE s == a \div b
           t == a % b
<1>1. s \in Nat /\ t \in 0..(b - 1) /\ a = b * s + t
  BY Zenon, DivMod
<1> HIDE DEF s, t
<1>2. b * s \in Int /\ b * q \in Int
  BY <1>1
<1>3. CASE s < q
  BY <1>1, <1>2, <1>3, NextMultiple
<1>4. CASE q < s
  BY <1>1, <1>2, <1>4, NextMultiple
<1>5. CASE q = s
  BY <1>1, <1>2, <1>5 DEF t, s
<1> QED
  BY <1>1, <1>3, <1>4, <1>5

\* A datum tells its file and offset, and is no block number, zero or stale word.
LEMMA DatumTells ==
  ASSUME NEW i \in Files, NEW x \in 0..(MAXFILE * BSIZE - 1)
  PROVE  /\ Datum(i, x) \in Nat /\ Datum(i, x) > NBLOCKS
         /\ \A j \in Files, y \in 0..(MAXFILE * BSIZE - 1) : Datum(i, x) = Datum(j, y) => i = j /\ x = y
<1>1. PICK m \in Nat : m = MAXFILE * BSIZE
  BY Zenon, Sizes
<1>2. NBLOCKS \in Nat /\ x \in 0..(m - 1) /\ m \in Nat \ {0}
  BY <1>1, Sizes
<1>3. \A j \in Files : \A y : j \in Nat /\ Datum(j, y) = NBLOCKS + 1 + m * j + y
  BY Zenon, <1>1, FileAssumption DEF Datum
<1>4. ASSUME NEW j \in Files, NEW y \in 0..(m - 1)
      PROVE  /\ m * j + y \in Nat /\ m * j + y = Datum(j, y) - NBLOCKS - 1
             /\ (m * j + y) % m = y /\ (m * j + y) \div m = j
  <2>1. j \in Nat /\ y \in Nat /\ Datum(j, y) = NBLOCKS + 1 + m * j + y
    BY <1>2, <1>3
  <2>2. m * j \in Nat
    BY <1>2, <2>1
  <2>3. m * j + y \in Nat /\ m * j + y = Datum(j, y) - NBLOCKS - 1 /\ j \in Int
    BY <1>2, <2>1, <2>2
  <2> QED
    BY Zenon, <1>2, <2>3, DivUnique
<1>5. Datum(i, x) \in Nat /\ Datum(i, x) > NBLOCKS
  <2>1. m * i + x \in Nat
    BY Zenon, <1>2, <1>4
  <2>2. Datum(i, x) = NBLOCKS + 1 + m * i + x /\ m * i \in Int /\ x \in Int
    BY <1>2, <1>3
  <2> QED
    BY <1>2, <2>1, <2>2
<1>6. ASSUME NEW j \in Files, NEW y \in 0..(MAXFILE * BSIZE - 1), Datum(i, x) = Datum(j, y)
      PROVE  i = j /\ x = y
  <2>1. y \in 0..(m - 1)
    BY Zenon, <1>1, <1>6
  <2>2. m * i + x = Datum(i, x) - NBLOCKS - 1 /\ m * j + y = Datum(j, y) - NBLOCKS - 1
    BY Zenon, <1>2, <1>4, <2>1
  <2>3. m * i + x = m * j + y
    BY <1>6, <2>2
  <2>4. /\ (m * i + x) % m = x /\ (m * i + x) \div m = i
        /\ (m * j + y) % m = y /\ (m * j + y) \div m = j
    BY Zenon, <1>2, <1>4, <2>1
  <2> QED
    BY Zenon, <2>3, <2>4
<1> QED
  BY Zenon, <1>5, <1>6

\* Below c blocks there are blocks up to c - 1.
LEMMA DivBelow ==
  ASSUME NEW a \in Nat, NEW b \in Nat \ {0}, NEW c \in Nat, a < c * b
  PROVE  a \div b \in 0..(c - 1)
<1> DEFINE s == a \div b
           t == a % b
<1>1. s \in Nat /\ t \in 0..(b - 1) /\ a = b * s + t
  BY Zenon, DivMod
<1> HIDE DEF s, t
<1>2. s < c
  <2>1. SUFFICES ASSUME ~(s < c) PROVE FALSE
    OBVIOUS
  <2>2. c < s + 1
    BY <1>1, <2>1
  <2>3. b * (s + 1) >= b * c + b
    BY <1>1, <2>2, NextMultiple
  <2>4. b * (s + 1) = b * s + b /\ b * c = c * b /\ b * s \in Int /\ c * b \in Int
    BY <1>1
  <2> QED
    BY <1>1, <2>3, <2>4
<1>3. s \in 0..(c - 1)
  BY <1>1, <1>2
<1> QED
  BY Zenon, <1>3 DEF s

\* The remainder of a number that is off by less than one range.
LEMMA ModAround ==
  ASSUME NEW a \in Int, NEW b \in Nat \ {0}, a < b + b, a >= 0 - b
  PROVE  a % b = IF a < 0 THEN a + b ELSE IF a < b THEN a ELSE a - b
  OBVIOUS

\* A place is in the inode or in the indirect block.
LEMMA PlaceIs ==
  ASSUME NEW k \in 0..MAXFILE
  PROVE  k \in 0..NDIRECT \/ \E j \in 0..(BSIZE - 1) : k = NDIRECT + 1 + j
<1>1. CASE k <= NDIRECT
  BY <1>1, Sizes
<1>2. CASE ~(k <= NDIRECT)
  <2>1. k - NDIRECT - 1 \in 0..(BSIZE - 1) /\ k = NDIRECT + 1 + (k - NDIRECT - 1)
    BY <1>2, Sizes
  <2> QED
    BY Zenon, <2>1
<1> QED
  BY <1>1, <1>2

\* A function on the places.
OnPlaces(A) == A = [x \in AllPlaces |-> A[x]]

\* Functions on the places that agree on both kinds of places are equal.
LEMMA PlacesEqual ==
  ASSUME NEW A, NEW B, OnPlaces(A), OnPlaces(B),
         \A i \in Files, k \in 0..NDIRECT : A[<<i, k>>] = B[<<i, k>>],
         \A i \in Files, j \in 0..(BSIZE - 1) :
           A[<<i, NDIRECT + 1 + j>>] = B[<<i, NDIRECT + 1 + j>>]
  PROVE  A = B
<1>1. ASSUME NEW x \in AllPlaces PROVE A[x] = B[x]
  <2>1. PICK i \in Files, k \in 0..MAXFILE : x = <<i, k>>
    BY DEF AllPlaces
  <2> QED
    BY Zenon, <2>1, PlaceIs
<1> QED
  BY Zenon, <1>1 DEF OnPlaces

\* A free block is put into an empty place.
LEMMA ExactAdd ==
  ASSUME NEW A, NEW U, Exact(A, U), 0 \notin U, NEW x \in DOMAIN A, A[x] = 0,
         NEW b, b \notin U, b # 0
  PROVE  Exact([A EXCEPT ![x] = b], U \cup {b})
<1> DEFINE B == [A EXCEPT ![x] = b]
<1>1. DOMAIN B = DOMAIN A /\ B[x] = b /\ \A y \in DOMAIN A : y # x => B[y] = A[y]
  BY Zenon
<1> HIDE DEF B
<1>2. \A y \in DOMAIN B : B[y] # 0 => B[y] \in U \cup {b}
  BY Zenon, <1>1 DEF Exact
<1>3. ASSUME NEW c \in U \cup {b} PROVE \E y \in DOMAIN B : B[y] = c
  <2>1. CASE c = b
    BY Zenon, <2>1, <1>1
  <2>2. CASE c \in U /\ c # b
    <3>1. PICK y \in DOMAIN A : A[y] = c
      BY Zenon, <2>2 DEF Exact
    <3>2. y # x
      BY Zenon, <3>1, <2>2
    <3> QED
      BY Zenon, <3>1, <3>2, <1>1
  <2> QED
    BY Zenon, <2>1, <2>2
<1>4. \A y, z \in DOMAIN B : B[y] # 0 /\ B[y] = B[z] => y = z
  BY Zenon, <1>1 DEF Exact
<1> QED
  BY Zenon, <1>2, <1>3, <1>4 DEF Exact, B

\* A block is taken out of its place and freed.
LEMMA ExactRemove ==
  ASSUME NEW A, NEW U, Exact(A, U), NEW x \in DOMAIN A, A[x] # 0
  PROVE  Exact([A EXCEPT ![x] = 0], U \ {A[x]})
<1> DEFINE B == [A EXCEPT ![x] = 0]
<1>1. DOMAIN B = DOMAIN A /\ B[x] = 0 /\ \A y \in DOMAIN A : y # x => B[y] = A[y]
  BY Zenon
<1> HIDE DEF B
<1>2. \A y \in DOMAIN B : B[y] # 0 => B[y] \in U \ {A[x]}
  BY Zenon, <1>1 DEF Exact
<1>3. ASSUME NEW c \in U \ {A[x]} PROVE \E y \in DOMAIN B : B[y] = c
  BY Zenon, <1>1, <1>3 DEF Exact
<1>4. \A y, z \in DOMAIN B : B[y] # 0 /\ B[y] = B[z] => y = z
  BY Zenon, <1>1 DEF Exact
<1> QED
  BY Zenon, <1>2, <1>3, <1>4 DEF Exact, B

-----------------------------------------------------------------------------
(* The blocks in the places.                                               *)

\* What is in place j of the indirect block.
Entry(i, j) == IF Freed(i) <= j /\ addrs[i][NDIRECT] # 0 THEN blk[addrs[i][NDIRECT]][j] ELSE 0

HeldView ==
  /\ OnPlaces(Held)
  /\ \A i \in Files, k \in 0..NDIRECT : Held[<<i, k>>] = addrs[i][k]
  /\ \A i \in Files, j \in 0..(BSIZE - 1) : Held[<<i, NDIRECT + 1 + j>>] = Entry(i, j)

\* How far itrunc has come in the indirect block.
FreedView ==
  \A i \in Files : /\ Freed(i) \in Nat
                   /\ ~Truncating(i) => Freed(i) = 0
                   /\ \A p \in Callers : dpc[p] = "itrunc" /\ op[p].i = i => Freed(i) = op[p].tot

LEMMA FreedIs == DataTypes /\ InodeLocks => FreedView
<1> SUFFICES ASSUME DataTypes, InodeLocks, NEW i \in Files
             PROVE  /\ Freed(i) \in Nat
                    /\ ~Truncating(i) => Freed(i) = 0
                    /\ \A p \in Callers : dpc[p] = "itrunc" /\ op[p].i = i => Freed(i) = op[p].tot
  BY Zenon DEF FreedView
<1>1. CASE ~Truncating(i)
  <2>1. Freed(i) = 0
    BY Zenon, <1>1 DEF Freed, Truncating
  <2> QED
    BY <1>1, <2>1 DEF Truncating
<1>2. ASSUME NEW p \in Callers, dpc[p] = "itrunc", op[p].i = i
      PROVE  Freed(i) = op[p].tot
  <2>1. ilocked[i] = p
    BY Zenon, <1>2 DEF InodeLocks, HasInode
  <2>2. (CHOOSE q \in Callers : ilocked[i] = q) = p
    BY Zenon, <2>1
  <2> QED
    BY Zenon, <1>2, <2>2 DEF Freed
<1>3. CASE Truncating(i)
  <2>1. PICK p \in Callers : dpc[p] = "itrunc" /\ op[p].i = i
    BY Zenon, <1>3 DEF Truncating
  <2>2. op[p].tot \in Nat
    BY DEF DataTypes, Ops
  <2> QED
    BY Zenon, <1>2, <1>3, <2>1, <2>2
<1> QED
  BY Zenon, <1>1, <1>3

\* Only the call that has an inode truncates it.
LEMMA NotTruncating ==
  ASSUME InodeLocks, NEW i \in Files, ilocked[i] = NoCaller \/ dpc[ilocked[i]] # "itrunc"
  PROVE  ~Truncating(i)
<1> SUFFICES ASSUME NEW q \in Callers, dpc[q] = "itrunc", op[q].i = i PROVE FALSE
  BY Zenon DEF Truncating
<1>1. dpc[q] \in HasInode
  BY Zenon DEF HasInode
<1>2. ilocked[i] = q
  BY Zenon, <1>1 DEF InodeLocks
<1>3. q # NoCaller
  BY Zenon, FileAssumption
<1> QED
  BY Zenon, <1>2, <1>3

LEMMA HeldIs == DataTypes /\ InodeLocks => HeldView
<1> SUFFICES ASSUME DataTypes, InodeLocks PROVE HeldView
  OBVIOUS
<1>1. OnPlaces(Held)
  BY Zenon DEF Held, OnPlaces
<1>2. ASSUME NEW i \in Files, NEW k \in 0..NDIRECT PROVE Held[<<i, k>>] = addrs[i][k]
  <2>1. <<i, k>> \in AllPlaces /\ k <= NDIRECT
    BY Sizes DEF AllPlaces
  <2> QED
    BY Zenon, <2>1 DEF Held, Places, BlockAt
<1>3. ASSUME NEW i \in Files, NEW j \in 0..(BSIZE - 1)
      PROVE  Held[<<i, NDIRECT + 1 + j>>] = Entry(i, j)
  <2> DEFINE k == NDIRECT + 1 + j
  <2>1. /\ <<i, k>> \in AllPlaces /\ ~(k <= NDIRECT) /\ ~(k - 1 < NDIRECT) /\ k \notin 0..NDIRECT
        /\ k - 1 - NDIRECT = j
    BY Sizes DEF AllPlaces
  <2>2. Freed(i) \in Nat
    BY Zenon, FreedIs DEF FreedView
  <2>3. k \in {NDIRECT + 1 + x : x \in Freed(i)..NINDIRECT - 1} <=> Freed(i) <= j
    <3>1. \A x \in Freed(i)..(BSIZE - 1) : NDIRECT + 1 + x = k => x = j
      BY <2>2, Sizes
    <3>2. j \in Freed(i)..(BSIZE - 1) <=> Freed(i) <= j
      BY <2>2, Sizes
    <3> QED
      BY Zenon, <3>1, <3>2, Sizes
  <2>4. Held[<<i, k>>] = IF Freed(i) <= j THEN Mapped(i, k - 1) ELSE 0
    BY Zenon, <2>1, <2>3 DEF Held, Places, BlockAt
  <2> QED
    BY Zenon, <2>1, <2>4 DEF Mapped, Entry
<1> QED
  BY Zenon, <1>1, <1>2, <1>3 DEF HeldView

\* The place of block bn of a file.
PlaceOf(bn) == IF bn < NDIRECT THEN bn ELSE NDIRECT + 1 + (bn - NDIRECT)

LEMMA PlaceOfIs ==
  ASSUME NEW bn \in 0..(MAXFILE - 1)
  PROVE  /\ PlaceOf(bn) \in 0..MAXFILE /\ PlaceOf(bn) # NDIRECT
         /\ \A m \in 0..(MAXFILE - 1) : PlaceOf(m) = PlaceOf(bn) => m = bn
         /\ bn < NDIRECT => bn \in 0..NDIRECT
         /\ ~(bn < NDIRECT) => bn - NDIRECT \in 0..(BSIZE - 1)
  BY Sizes DEF PlaceOf

\* bmap finds what is in that place, unless the file is being truncated.
LEMMA MappedPlace ==
  ASSUME DataTypes, InodeLocks, NEW i \in Files, ~Truncating(i), NEW bn \in 0..(MAXFILE - 1)
  PROVE  <<i, PlaceOf(bn)>> \in AllPlaces /\ Held[<<i, PlaceOf(bn)>>] = Mapped(i, bn)
<1>1. <<i, PlaceOf(bn)>> \in AllPlaces
  BY Zenon, PlaceOfIs DEF AllPlaces
<1>2. HeldView /\ Freed(i) = 0
  BY Zenon, HeldIs, FreedIs DEF FreedView
<1>3. CASE bn < NDIRECT
  <2>1. bn \in 0..NDIRECT /\ PlaceOf(bn) = bn /\ Mapped(i, bn) = addrs[i][bn]
    BY Zenon, <1>3, PlaceOfIs DEF PlaceOf, Mapped
  <2>2. Held[<<i, bn>>] = addrs[i][bn]
    BY Zenon, <1>2, <2>1 DEF HeldView
  <2> QED
    BY Zenon, <1>1, <2>1, <2>2
<1>4. CASE ~(bn < NDIRECT)
  <2>1. bn - NDIRECT \in 0..(BSIZE - 1) /\ 0 <= bn - NDIRECT
    BY <1>4, PlaceOfIs
  <2>2. PlaceOf(bn) = NDIRECT + 1 + (bn - NDIRECT) /\ Mapped(i, bn) = Entry(i, bn - NDIRECT)
    BY Zenon, <1>2, <1>4, <2>1 DEF PlaceOf, Mapped, Entry
  <2>3. Held[<<i, NDIRECT + 1 + (bn - NDIRECT)>>] = Entry(i, bn - NDIRECT)
    BY Zenon, <1>2, <2>1 DEF HeldView
  <2> QED
    BY Zenon, <1>1, <2>2, <2>3
<1> QED
  BY Zenon, <1>1, <1>3, <1>4

\* What Exact says of the places.
LEMMA HeldOnce ==
  ASSUME Exact(Held, used)
  PROVE  /\ \A x \in AllPlaces : Held[x] # 0 => Held[x] \in used
         /\ \A x, y \in AllPlaces : Held[x] # 0 /\ Held[x] = Held[y] => x = y
<1>1. DOMAIN Held = AllPlaces
  BY Zenon DEF Held
<1> QED
  BY <1>1 DEF Exact

\* A block of an inode is in no other place.
LEMMA AddrFacts ==
  ASSUME DataInv, NEW i \in Files, NEW k \in 0..NDIRECT, addrs[i][k] # 0
  PROVE  /\ addrs[i][k] \in used /\ addrs[i][k] \in Blocks
         /\ \A j \in Files, m \in 0..NDIRECT : addrs[j][m] = addrs[i][k] => j = i /\ m = k
         /\ \A j \in Files, m \in 0..(MAXFILE - 1) :
              ~Truncating(j) /\ Mapped(j, m) = addrs[i][k] => j = i /\ PlaceOf(m) = k
<1>1. HeldView /\ DOMAIN Held = AllPlaces /\ Exact(Held, used) /\ used \subseteq Blocks
  BY Zenon, HeldIs DEF DataInv, DataTypes, Held
<1>2. \A j \in Files, m \in 0..NDIRECT : <<j, m>> \in AllPlaces /\ Held[<<j, m>>] = addrs[j][m]
  <2>1. \A m \in 0..NDIRECT : m \in 0..MAXFILE
    BY Sizes
  <2> QED
    BY Zenon, <2>1, <1>1 DEF HeldView, AllPlaces
<1>3. \A j \in Files, m \in 0..(MAXFILE - 1) :
        ~Truncating(j) => <<j, PlaceOf(m)>> \in AllPlaces /\ Held[<<j, PlaceOf(m)>>] = Mapped(j, m)
  BY Zenon, MappedPlace DEF DataInv
<1>4. addrs[i][k] \in used /\ addrs[i][k] \in Blocks
  <2>1. <<i, k>> \in AllPlaces /\ Held[<<i, k>>] = addrs[i][k]
    BY Zenon, <1>2
  <2> QED
    BY Zenon, <1>1, <2>1, HeldOnce
<1>5. ASSUME NEW j \in Files, NEW m \in Nat, <<j, m>> \in AllPlaces, Held[<<j, m>>] = addrs[i][k]
      PROVE  j = i /\ m = k
  <2>1. <<i, k>> \in AllPlaces /\ Held[<<i, k>>] = addrs[i][k]
    BY Zenon, <1>2
  <2>2. <<j, m>> = <<i, k>>
    BY Zenon, <1>1, <1>5, <2>1, HeldOnce
  <2> QED
    BY <2>2
<1>6. ASSUME NEW j \in Files, NEW m \in 0..NDIRECT, addrs[j][m] = addrs[i][k]
      PROVE  j = i /\ m = k
  <2>1. m \in Nat
    BY Sizes
  <2> QED
    BY Zenon, <1>2, <1>5, <1>6, <2>1
<1>7. ASSUME NEW j \in Files, NEW m \in 0..(MAXFILE - 1), ~Truncating(j), Mapped(j, m) = addrs[i][k]
      PROVE  j = i /\ PlaceOf(m) = k
  <2>1. PlaceOf(m) \in Nat
    BY PlaceOfIs, Sizes
  <2> QED
    BY Zenon, <1>3, <1>5, <1>7, <2>1
<1> QED
  BY Zenon, <1>4, <1>6, <1>7

\* The same of an indirect block.
LEMMA IndirectFacts ==
  ASSUME DataInv, NEW i \in Files, addrs[i][NDIRECT] # 0
  PROVE  /\ addrs[i][NDIRECT] \in used /\ addrs[i][NDIRECT] \in Blocks
         /\ \A j \in Files : addrs[j][NDIRECT] = addrs[i][NDIRECT] => j = i
<1>1. PICK k \in 0..NDIRECT : k = NDIRECT
  BY Sizes
<1>2. addrs[i][k] # 0
  BY Zenon, <1>1
<1> QED
  BY Zenon, <1>1, <1>2, AddrFacts

\* A block of a file's contents is in use, and neither the indirect block nor
\* in the contents of another file or elsewhere in the same.
LEMMA MapFacts ==
  ASSUME DataInv, NEW i \in Files, ~Truncating(i), NEW bn \in 0..(MAXFILE - 1),
         Mapped(i, bn) # 0
  PROVE  /\ Mapped(i, bn) \in used /\ Mapped(i, bn) \in Blocks
         /\ \A j \in Files : addrs[j][NDIRECT] # Mapped(i, bn)
         /\ \A j \in Files, m \in 0..(MAXFILE - 1) :
              ~Truncating(j) /\ Mapped(j, m) = Mapped(i, bn) => j = i /\ m = bn
<1>1. DOMAIN Held = AllPlaces /\ Exact(Held, used) /\ used \subseteq Blocks
  BY Zenon DEF DataInv, DataTypes, Held
<1>2. \A j \in Files, m \in 0..(MAXFILE - 1) :
        ~Truncating(j) => <<j, PlaceOf(m)>> \in AllPlaces /\ Held[<<j, PlaceOf(m)>>] = Mapped(j, m)
  BY Zenon, MappedPlace DEF DataInv
<1>3. Mapped(i, bn) \in used /\ Mapped(i, bn) \in Blocks
  <2>1. <<i, PlaceOf(bn)>> \in AllPlaces /\ Held[<<i, PlaceOf(bn)>>] = Mapped(i, bn)
    BY Zenon, <1>2
  <2> QED
    BY Zenon, <1>1, <2>1, HeldOnce
<1>4. ASSUME NEW j \in Files, addrs[j][NDIRECT] = Mapped(i, bn) PROVE FALSE
  <2>1. NDIRECT \in 0..NDIRECT
    BY Sizes
  <2>2. PlaceOf(bn) = NDIRECT
    BY Zenon, <2>1, <1>4, AddrFacts
  <2> QED
    BY Zenon, <2>2, PlaceOfIs
<1>5. ASSUME NEW j \in Files, NEW m \in 0..(MAXFILE - 1), ~Truncating(j), Mapped(j, m) = Mapped(i, bn)
      PROVE  j = i /\ m = bn
  <2>1. /\ <<i, PlaceOf(bn)>> \in AllPlaces /\ Held[<<i, PlaceOf(bn)>>] = Mapped(i, bn)
        /\ <<j, PlaceOf(m)>> \in AllPlaces /\ Held[<<j, PlaceOf(m)>>] = Mapped(i, bn)
    BY Zenon, <1>2, <1>5
  <2>2. <<j, PlaceOf(m)>> = <<i, PlaceOf(bn)>>
    BY Zenon, <1>1, <2>1, HeldOnce
  <2>3. j = i /\ PlaceOf(m) = PlaceOf(bn)
    BY <2>2
  <2> QED
    BY Zenon, <2>3, PlaceOfIs
<1> QED
  BY Zenon, <1>3, <1>4, <1>5

-----------------------------------------------------------------------------
(* Steps that leave the block maps alone.                                  *)

\* Who truncates a file, and how far it is, when itrunc of it takes no step.
LEMMA FreedSame ==
  ASSUME DataTypes, InodeLocks, DataTypes', InodeLocks', NEW i \in Files,
         \A q \in Callers :
           /\ dpc'[q] = "itrunc" /\ op'[q].i = i <=> dpc[q] = "itrunc" /\ op[q].i = i
           /\ dpc[q] = "itrunc" /\ op[q].i = i => op'[q] = op[q]
  PROVE  Freed(i)' = Freed(i) /\ (Truncating(i)' <=> Truncating(i))
<1>1. FreedView /\ FreedView'
  BY FreedIs, PTL
<1>2. Truncating(i)' <=> Truncating(i)
  BY Zenon DEF Truncating
<1>3. CASE ~Truncating(i)
  BY Zenon, <1>1, <1>2, <1>3 DEF FreedView
<1>4. CASE Truncating(i)
  <2>1. PICK p \in Callers : dpc[p] = "itrunc" /\ op[p].i = i
    BY Zenon, <1>4 DEF Truncating
  <2>2. Freed(i) = op[p].tot /\ Freed(i)' = op'[p].tot
    BY Zenon, <1>1, <2>1 DEF FreedView
  <2> QED
    BY Zenon, <1>2, <2>1, <2>2
<1> QED
  BY Zenon, <1>3, <1>4

LEMMA FreedKept ==
  ASSUME DataTypes, InodeLocks, DataTypes', InodeLocks',
         \A q \in Callers : /\ dpc'[q] = "itrunc" <=> dpc[q] = "itrunc"
                            /\ dpc[q] = "itrunc" => op'[q] = op[q]
  PROVE  \A i \in Files : Freed(i)' = Freed(i) /\ (Truncating(i)' <=> Truncating(i))
<1> SUFFICES ASSUME NEW i \in Files
             PROVE  Freed(i)' = Freed(i) /\ (Truncating(i)' <=> Truncating(i))
  BY Zenon
<1>1. \A q \in Callers :
        /\ dpc'[q] = "itrunc" /\ op'[q].i = i <=> dpc[q] = "itrunc" /\ op[q].i = i
        /\ dpc[q] = "itrunc" /\ op[q].i = i => op'[q] = op[q]
  BY Zenon
<1> QED
  BY Zenon, <1>1, FreedSame

\* What is in the places in the next state.
NextHeld(B) ==
  /\ OnPlaces(B)
  /\ \A i \in Files, k \in 0..NDIRECT : addrs'[i][k] = B[<<i, k>>]
  /\ \A i \in Files, j \in 0..(BSIZE - 1) : Entry(i, j)' = B[<<i, NDIRECT + 1 + j>>]

LEMMA HeldNext ==
  ASSUME DataTypes', InodeLocks', NEW B, NextHeld(B)
  PROVE  Held' = B
<1>1. HeldView'
  BY HeldIs, PTL
<1>2. PICK A : A = Held'
  OBVIOUS
<1>3. /\ OnPlaces(A)
      /\ \A i \in Files, k \in 0..NDIRECT : A[<<i, k>>] = addrs'[i][k]
      /\ \A i \in Files, j \in 0..(BSIZE - 1) : A[<<i, NDIRECT + 1 + j>>] = Entry(i, j)'
  BY Zenon, <1>1, <1>2 DEF HeldView, AllPlaces, OnPlaces
<1>4. OnPlaces(B) /\ \A i \in Files, k \in 0..NDIRECT : A[<<i, k>>] = B[<<i, k>>]
  BY Zenon, <1>3 DEF NextHeld
<1>5. \A i \in Files, j \in 0..(BSIZE - 1) : A[<<i, NDIRECT + 1 + j>>] = B[<<i, NDIRECT + 1 + j>>]
  BY Zenon, <1>3 DEF NextHeld
<1>6. A = B
  BY Zenon, <1>3, <1>4, <1>5, PlacesEqual
<1> QED
  BY Zenon, <1>2, <1>6

\* Then the maps and the contents are what they were.
LEMMA SameMaps ==
  ASSUME DataInv, DataTypes', InodeLocks', UNCHANGED <<used, blk, addrs>>,
         \A i \in Files : Freed(i)' = Freed(i) \/ addrs[i][NDIRECT] = 0
  PROVE  /\ Exact(Held, used)' /\ IndirectTyped'
         /\ \A i \in Files, o \in Nat : Good(i, o)' <=> Good(i, o)
<1>1. HeldView
  BY Zenon, HeldIs DEF DataInv
<1>2. \A i \in Files, j \in 0..(BSIZE - 1) : Entry(i, j)' = Entry(i, j)
  BY Zenon DEF Entry
<1>3. Held' = Held
  <2>1. NextHeld(Held)
    BY Zenon, <1>1, <1>2 DEF HeldView, NextHeld
  <2> QED
    BY Zenon, <2>1, HeldNext
<1>4. Exact(Held, used)'
  BY Zenon, <1>3 DEF DataInv, Exact
<1>5. IndirectTyped'
  BY Zenon DEF DataInv, IndirectTyped
<1>6. \A i \in Files, o \in Nat : Good(i, o)' <=> Good(i, o)
  BY Zenon DEF Good, Mapped
<1> QED
  BY Zenon, <1>4, <1>5, <1>6

-----------------------------------------------------------------------------
(* Calls and locks.                                                        *)

\* One caller moves.
Moves(p, l, o) ==
  /\ dpc' \in [Callers -> Labels] /\ op' \in [Callers -> Ops]
  /\ dpc'[p] = l /\ op'[p] = o
  /\ \A q \in Callers : q # p => dpc'[q] = dpc[q] /\ op'[q] = op[q]

LEMMA GotoMoves ==
  ASSUME DataTypes, NEW p \in Callers, NEW l \in Labels, NEW o \in Ops, Goto(p, l, o)
  PROVE  Moves(p, l, o)
<1>1. dpc \in [Callers -> Labels] /\ op \in [Callers -> Ops]
  BY Zenon DEF DataTypes
<1>2. dpc' = [dpc EXCEPT ![p] = l] /\ op' = [op EXCEPT ![p] = o]
  BY Zenon DEF Goto
<1>3. dpc' \in [Callers -> Labels] /\ op' \in [Callers -> Ops]
  BY Zenon, <1>1, <1>2
<1> QED
  BY Zenon, <1>1, <1>2, <1>3 DEF Moves

\* Nobody moves.
LEMMA LocksSame ==
  ASSUME DataTypes, InodeLocks, UNCHANGED <<ilocked, dpc>>, \A q \in Callers : op'[q].i = op[q].i
  PROVE  InodeLocks'
<1>1. \A q \in Callers : dpc'[q] \in HasInode => op'[q].i \in Files /\ ilocked'[op'[q].i] = q
  BY Zenon DEF InodeLocks
<1>2. ASSUME NEW i \in Files, ilocked'[i] # NoCaller
      PROVE  dpc'[ilocked'[i]] \in HasInode /\ op'[ilocked'[i]].i = i
  <2>1. ilocked[i] \in Callers
    BY Zenon, <1>2 DEF DataTypes
  <2> QED
    BY Zenon, <1>2, <2>1 DEF InodeLocks
<1> QED
  BY Zenon, <1>1, <1>2 DEF InodeLocks

\* A call goes on with the inode it has, or without one.
LEMMA LocksKept ==
  ASSUME DataTypes, InodeLocks, NEW p \in Callers, NEW l, NEW o, Moves(p, l, o), UNCHANGED ilocked,
         dpc[p] \in HasInode <=> l \in HasInode,
         dpc[p] \in HasInode => o.i = op[p].i
  PROVE  InodeLocks'
<1>1. ASSUME NEW q \in Callers, dpc'[q] \in HasInode
      PROVE  op'[q].i \in Files /\ ilocked'[op'[q].i] = q
  <2>1. CASE q = p
    BY Zenon, <1>1, <2>1 DEF Moves, InodeLocks
  <2>2. CASE q # p
    BY Zenon, <1>1, <2>2 DEF Moves, InodeLocks
  <2> QED
    BY Zenon, <2>1, <2>2
<1>2. ASSUME NEW i \in Files, ilocked'[i] # NoCaller
      PROVE  dpc'[ilocked'[i]] \in HasInode /\ op'[ilocked'[i]].i = i
  <2>1. dpc[ilocked[i]] \in HasInode /\ op[ilocked[i]].i = i /\ ilocked'[i] = ilocked[i]
    BY Zenon, <1>2 DEF InodeLocks
  <2>2. ilocked[i] \in Callers
    BY Zenon, <1>2 DEF DataTypes
  <2>3. CASE ilocked[i] = p
    BY Zenon, <2>1, <2>3 DEF Moves
  <2>4. CASE ilocked[i] # p
    BY Zenon, <2>1, <2>4, <2>2 DEF Moves
  <2> QED
    BY Zenon, <2>3, <2>4
<1> QED
  BY Zenon, <1>1, <1>2 DEF InodeLocks

\* A call locks a free inode.
LEMMA LocksTaken ==
  ASSUME DataTypes, InodeLocks, NEW p \in Callers, NEW l \in HasInode, NEW o, Moves(p, l, o),
         dpc[p] \notin HasInode, NEW i \in Files, o.i = i, ilocked[i] = NoCaller,
         ilocked' = [ilocked EXCEPT ![i] = p]
  PROVE  InodeLocks' /\ ilocked' \in [Files -> Callers \cup {NoCaller}]
<1>1. ilocked \in [Files -> Callers \cup {NoCaller}] /\ NoCaller \notin Callers
  BY Zenon, FileAssumption DEF DataTypes
<1>2. /\ ilocked' \in [Files -> Callers \cup {NoCaller}]
      /\ ilocked'[i] = p /\ \A j \in Files : j # i => ilocked'[j] = ilocked[j]
  BY Zenon, <1>1
<1>3. ASSUME NEW q \in Callers, dpc'[q] \in HasInode
      PROVE  op'[q].i \in Files /\ ilocked'[op'[q].i] = q
  <2>1. CASE q = p
    BY Zenon, <1>2, <2>1 DEF Moves
  <2>2. CASE q # p
    <3>1. dpc[q] \in HasInode /\ op'[q] = op[q]
      BY Zenon, <1>3, <2>2 DEF Moves
    <3>2. op[q].i \in Files /\ ilocked[op[q].i] = q /\ op[q].i # i
      BY Zenon, <1>1, <3>1 DEF InodeLocks
    <3> QED
      BY Zenon, <1>2, <3>1, <3>2
  <2> QED
    BY Zenon, <2>1, <2>2
<1>4. ASSUME NEW j \in Files, ilocked'[j] # NoCaller
      PROVE  dpc'[ilocked'[j]] \in HasInode /\ op'[ilocked'[j]].i = j
  <2>1. CASE j = i
    BY Zenon, <1>2, <2>1 DEF Moves
  <2>2. CASE j # i
    <3>1. ilocked'[j] = ilocked[j] /\ ilocked[j] \in Callers
      BY Zenon, <1>1, <1>2, <1>4, <2>2
    <3>2. dpc[ilocked[j]] \in HasInode /\ op[ilocked[j]].i = j
      BY Zenon, <1>4, <3>1 DEF InodeLocks
    <3>3. ilocked[j] # p
      BY Zenon, <3>2
    <3> QED
      BY Zenon, <3>1, <3>2, <3>3 DEF Moves
  <2> QED
    BY Zenon, <2>1, <2>2
<1> QED
  BY Zenon, <1>2, <1>3, <1>4 DEF InodeLocks

\* A call gives its inode back.
LEMMA LocksGiven ==
  ASSUME DataTypes, InodeLocks, NEW p \in Callers, NEW l, l \notin HasInode, NEW o, Moves(p, l, o),
         dpc[p] \in HasInode, ilocked' = [ilocked EXCEPT ![op[p].i] = NoCaller]
  PROVE  InodeLocks' /\ ilocked' \in [Files -> Callers \cup {NoCaller}]
<1> DEFINE i == op[p].i
<1>1. ilocked \in [Files -> Callers \cup {NoCaller}] /\ i \in Files /\ ilocked[i] = p
  BY Zenon DEF DataTypes, InodeLocks
<1>2. /\ ilocked' \in [Files -> Callers \cup {NoCaller}]
      /\ ilocked'[i] = NoCaller /\ \A j \in Files : j # i => ilocked'[j] = ilocked[j]
  BY Zenon, <1>1
<1> HIDE DEF i
<1>3. ASSUME NEW q \in Callers, dpc'[q] \in HasInode
      PROVE  op'[q].i \in Files /\ ilocked'[op'[q].i] = q
  <2>1. q # p
    BY Zenon, <1>3 DEF Moves
  <2>2. dpc[q] \in HasInode /\ op'[q] = op[q]
    BY Zenon, <1>3, <2>1 DEF Moves
  <2>3. op[q].i \in Files /\ ilocked[op[q].i] = q
    BY Zenon, <2>2 DEF InodeLocks
  <2>4. op[q].i # i
    BY Zenon, <1>1, <2>1, <2>3
  <2> QED
    BY Zenon, <1>2, <2>2, <2>3, <2>4
<1>4. ASSUME NEW j \in Files, ilocked'[j] # NoCaller
      PROVE  dpc'[ilocked'[j]] \in HasInode /\ op'[ilocked'[j]].i = j
  <2>1. j # i /\ ilocked'[j] = ilocked[j] /\ ilocked[j] \in Callers
    BY Zenon, <1>1, <1>2, <1>4
  <2>2. dpc[ilocked[j]] \in HasInode /\ op[ilocked[j]].i = j
    BY Zenon, <1>4, <2>1 DEF InodeLocks
  <2>3. ilocked[j] # p
    BY Zenon, <2>1, <2>2 DEF i
  <2> QED
    BY Zenon, <2>1, <2>2, <2>3 DEF Moves
<1> QED
  BY Zenon, <1>2, <1>3, <1>4 DEF InodeLocks

-----------------------------------------------------------------------------
(* The steps that leave the block maps alone.                              *)

Writing == {"writei", "written"}
WriteOK(l, o) ==
  /\ l \in {"chunk", "writei", "written", "endop"} => o.f \in OpenFiles /\ o.i = o.f.ip
  /\ l \in Writing => /\ off[o.f] <= size[o.i] /\ off[o.f] + o.n1 <= MAXFILE * BSIZE
                      /\ o.tot <= o.n1 /\ o.n1 <= o.rem

LEMMA WriteCallsAre == WriteCalls <=> \A p \in Callers : WriteOK(dpc[p], op[p])
  BY Zenon DEF WriteCalls, WriteOK, Writing

\* What is written stays, where sizes and offsets say no more than before.
LEMMA Quiet ==
  ASSUME DataInv, DataTypes', InodeLocks', WriteCalls', UNCHANGED <<used, blk, addrs>>, ~dpanic',
         \A i \in Files : Freed(i)' = Freed(i) \/ addrs[i][NDIRECT] = 0,
         \A i \in Files : Truncating(i)' \/ \A x \in 0..(size'[i] - 1) : Good(i, x),
         \A q \in Callers : dpc'[q] \in Writing =>
           \A x \in off'[op'[q].f]..(off'[op'[q].f] + op'[q].tot - 1) : Good(op'[q].i, x)
  PROVE  DataInv'
<1>1. /\ Exact(Held, used)' /\ IndirectTyped'
      /\ \A i \in Files, x \in Nat : Good(i, x)' <=> Good(i, x)
  BY Zenon, SameMaps
<1>2. ASSUME NEW i \in Files, ~Truncating(i)', NEW x \in 0..(size'[i] - 1) PROVE Good(i, x)'
  <2>1. x \in Nat
    <3>1. size'[i] \in 0..(MAXFILE * BSIZE)
      BY Zenon DEF DataTypes
    <3> QED
      BY <3>1, Sizes
  <2> QED
    BY Zenon, <1>1, <1>2, <2>1
<1>3. ASSUME NEW q \in Callers, dpc'[q] \in Writing,
             NEW x \in off'[op'[q].f]..(off'[op'[q].f] + op'[q].tot - 1)
      PROVE  Good(op[q].i, x)'
  <2>1. op'[q].i \in Files
    BY Zenon, <1>3 DEF InodeLocks, HasInode, Writing
  <2>2. op'[q].f \in OpenFiles
    BY Zenon, <1>3 DEF WriteCalls, Writing
  <2>3. off'[op'[q].f] \in Nat /\ op'[q].tot \in Nat
    BY <2>2 DEF DataTypes, Ops
  <2>4. x \in Nat
    BY <2>3
  <2>5. PICK i \in Files : i = op'[q].i
    BY Zenon, <2>1
  <2>6. Good(i, x)'
    BY Zenon, <1>1, <1>3, <2>4, <2>5
  <2> QED
    BY Zenon, <2>5, <2>6 DEF Good, Mapped
<1>4. Contents'
  BY Zenon, <1>2, <1>3 DEF Contents, Writing
<1> QED
  BY Zenon, <1>1, <1>4 DEF DataInv

\* A call goes from one place of filewrite to another, with nothing written.
LEMMA Pass ==
  ASSUME DataInv, NEW p \in Callers, NEW l, NEW o, Moves(p, l, o), InodeLocks',
         ilocked' \in [Files -> Callers \cup {NoCaller}],
         UNCHANGED <<used, blk, addrs, size, off>>, ~dpanic',
         l # "itrunc", dpc[p] # "itrunc", WriteOK(l, o),
         l \in Writing => o.tot = 0 \/ (dpc[p] \in Writing /\ o = op[p])
  PROVE  DataInv'
<1>1. DataTypes'
  BY Zenon DEF DataInv, DataTypes, Moves
<1>2. WriteCalls'
  <2>1. ASSUME NEW q \in Callers PROVE WriteOK(dpc[q], op[q])'
    <3>1. CASE q = p
      BY Zenon, <3>1 DEF Moves, WriteOK
    <3>2. CASE q # p
      <4>1. dpc'[q] = dpc[q] /\ op'[q] = op[q] /\ WriteOK(dpc[q], op[q])
        BY Zenon, <3>2, WriteCallsAre DEF Moves, DataInv
      <4> QED
        BY Zenon, <4>1 DEF WriteOK
    <3> QED
      BY Zenon, <3>1, <3>2
  <2>2. (\A q \in Callers : WriteOK(dpc[q], op[q]))'
    BY Zenon, <2>1
  <2> QED
    BY Zenon, <2>2 DEF WriteCalls, WriteOK, Writing
<1>3. \A q \in Callers : /\ dpc'[q] = "itrunc" <=> dpc[q] = "itrunc"
                         /\ dpc[q] = "itrunc" => op'[q] = op[q]
  BY Zenon DEF Moves
<1>4. \A i \in Files : Freed(i)' = Freed(i) /\ (Truncating(i)' <=> Truncating(i))
  BY Zenon, <1>1, <1>3, FreedKept DEF DataInv
<1>5. \A i \in Files : Truncating(i)' \/ \A x \in 0..(size'[i] - 1) : Good(i, x)
  BY Zenon, <1>4 DEF DataInv, Contents
<1>6. ASSUME NEW q \in Callers, dpc'[q] \in Writing,
             NEW x \in off'[op'[q].f]..(off'[op'[q].f] + op'[q].tot - 1)
      PROVE  Good(op'[q].i, x)
  <2>1. CASE dpc[q] \in Writing /\ op'[q] = op[q]
    BY Zenon, <1>6, <2>1 DEF DataInv, Contents, Writing
  <2>2. CASE op'[q].tot = 0
    <3>1. op'[q].f \in OpenFiles
      BY Zenon, <1>2, <1>6 DEF WriteCalls, Writing
    <3>2. off'[op'[q].f] \in Nat
      BY Zenon, <1>1, <3>1 DEF DataTypes
    <3> QED
      BY <1>6, <2>2, <3>2
  <2>3. q # p \/ (l \in Writing /\ o = op'[q])
    BY Zenon, <1>6 DEF Moves
  <2> QED
    BY Zenon, <1>6, <2>1, <2>2, <2>3 DEF Moves
<1> QED
  BY Zenon, <1>1, <1>2, <1>4, <1>5, <1>6, Quiet

LEMMA BeginWriteKeeps ==
  ASSUME DataInv, NEW p \in Callers, NEW f \in OpenFiles, NEW n \in Lens, BeginWrite(p, f, n)
  PROVE  DataInv'
<1> DEFINE o == [f |-> f, i |-> f.ip, rem |-> n, n1 |-> 0, tot |-> 0]
<1>1. o \in Ops /\ o.f = f /\ o.i = f.ip
  BY FileAssumption DEF Ops, BeginWrite
<1>2. Goto(p, "chunk", o) /\ dpc[p] = "idle" /\ UNCHANGED <<used, blk, addrs, size, ilocked, off, dpanic>>
  BY Zenon DEF BeginWrite
<1> HIDE DEF o
<1>3. Moves(p, "chunk", o)
  BY Zenon, <1>1, <1>2, GotoMoves DEF DataInv, Labels
<1>4. "chunk" \notin HasInode /\ "idle" \notin HasInode /\ "chunk" \notin Writing
  BY Zenon DEF HasInode, Writing
<1>5. InodeLocks' /\ ilocked' \in [Files -> Callers \cup {NoCaller}]
  BY Zenon, <1>2, <1>3, <1>4, LocksKept DEF DataInv, DataTypes
<1>6. WriteOK("chunk", o)
  BY Zenon, <1>1, <1>4 DEF WriteOK
<1>7. ~dpanic'
  BY Zenon, <1>2 DEF DataInv
<1> QED
  BY Zenon, <1>2, <1>3, <1>4, <1>5, <1>6, <1>7, Pass

LEMMA ChunkKeeps ==
  ASSUME DataInv, NEW p \in Callers, Chunk(p)
  PROVE  DataInv'
<1> DEFINE o == op[p]
           n1 == IF o.rem > max THEN max ELSE o.rem
           o2 == [o EXCEPT !.n1 = n1, !.tot = 0]
<1>1. /\ dpc[p] = "chunk" /\ ilocked[o.i] = NoCaller
      /\ UNCHANGED <<used, blk, addrs, size, off, dpanic>>
  BY Zenon DEF Chunk
<1>2. /\ o \in Ops /\ o.f \in OpenFiles /\ o.i = o.f.ip /\ o.i \in Files
      /\ off[o.f] \in Nat /\ size[o.i] \in Nat
  <2>1. o \in Ops /\ o.f \in OpenFiles /\ o.i = o.f.ip
    BY Zenon, <1>1 DEF DataInv, DataTypes, WriteCalls
  <2>2. o.i \in Files
    BY Zenon, <2>1, FileAssumption
  <2> QED
    BY <2>1, <2>2, Sizes DEF DataInv, DataTypes
<1>3. "chunk" \notin HasInode /\ "idle" \notin HasInode /\ "idle" \notin Writing
  BY Zenon DEF HasInode, Writing
<1>4. ~dpanic'
  BY Zenon, <1>1 DEF DataInv
<1>5. CASE Goto(p, "idle", NoOp) /\ UNCHANGED ilocked
  <2>1. NoOp \in Ops
    BY DEF NoOp, Ops
  <2>2. Moves(p, "idle", NoOp)
    BY Zenon, <1>5, <2>1, GotoMoves DEF DataInv, Labels
  <2>3. InodeLocks' /\ ilocked' \in [Files -> Callers \cup {NoCaller}]
    BY Zenon, <1>1, <1>3, <1>5, <2>2, LocksKept DEF DataInv, DataTypes
  <2>4. WriteOK("idle", NoOp)
    BY Zenon, <1>3 DEF WriteOK
  <2> QED
    BY Zenon, <1>1, <1>3, <1>4, <2>2, <2>3, <2>4, Pass
<1>6. CASE /\ ~(off[o.f] > size[o.i] \/ off[o.f] + n1 > MAXFILE * BSIZE)
           /\ Goto(p, "writei", o2) /\ ilocked' = [ilocked EXCEPT ![o.i] = p]
  <2>1. max \in Nat
    <3>1. MAXOPBLOCKS \in Nat /\ MAXOPBLOCKS > 5 /\ BSIZE \in Nat
      BY FileAssumption
    <3>2. (MAXOPBLOCKS - 1 - 1 - 2) \div 2 \in Nat
      BY <3>1
    <3> QED
      BY <3>1, <3>2 DEF max
  <2>2. o.rem \in Nat /\ n1 \in Nat /\ n1 <= o.rem
    BY <1>2, <2>1 DEF Ops
  <2> HIDE DEF n1, o
  <2>3. o2 \in Ops /\ o2.f = o.f /\ o2.i = o.i /\ o2.rem = o.rem /\ o2.n1 = n1 /\ o2.tot = 0
    BY Zenon, <1>2, <2>2 DEF Ops
  <2> HIDE DEF o2
  <2>4. Moves(p, "writei", o2) /\ "writei" \in HasInode /\ "writei" \in Labels
    BY Zenon, <1>6, <2>3, GotoMoves DEF DataInv, Labels, HasInode
  <2>5. InodeLocks' /\ ilocked' \in [Files -> Callers \cup {NoCaller}]
    BY Zenon, <1>1, <1>2, <1>3, <1>6, <2>3, <2>4, LocksTaken DEF DataInv
  <2>6. WriteOK("writei", o2)
    <3>1. off[o.f] <= size[o.i] /\ off[o.f] + n1 <= MAXFILE * BSIZE /\ 0 <= n1
      BY <1>2, <1>6, <2>2, Sizes
    <3> QED
      BY Zenon, <1>2, <2>2, <2>3, <3>1 DEF WriteOK
  <2> QED
    BY Zenon, <1>1, <1>4, <2>3, <2>4, <2>5, <2>6, Pass
<1> QED
  BY Zenon, <1>5, <1>6 DEF Chunk

LEMMA EndChunkKeeps ==
  ASSUME DataInv, NEW p \in Callers, EndChunk(p)
  PROVE  DataInv'
<1> DEFINE o == op[p]
           o2 == [o EXCEPT !.n1 = 0, !.tot = 0]
<1>1. /\ dpc[p] = "endop" /\ ilocked' = [ilocked EXCEPT ![op[p].i] = NoCaller]
      /\ UNCHANGED <<used, blk, addrs, size, off, dpanic>>
      /\ Goto(p, "chunk", o2) \/ Goto(p, "idle", NoOp)
  BY Zenon DEF EndChunk, EndOp
<1>2. o \in Ops /\ o.f \in OpenFiles /\ o.i = o.f.ip
  BY Zenon, <1>1 DEF DataInv, DataTypes, WriteCalls
<1>3. o2 \in Ops /\ o2.f = o.f /\ o2.i = o.i
  BY Zenon, <1>2 DEF Ops
<1>4. /\ {"idle", "chunk"} \cap (HasInode \cup Writing) = {} /\ dpc[p] \in HasInode /\ dpc[p] # "itrunc"
      /\ {"idle", "chunk"} \subseteq Labels
  BY Zenon, <1>1 DEF HasInode, Writing, Labels
<1>5. NoOp \in Ops
  BY DEF NoOp, Ops
<1> HIDE DEF o2
<1>6. \E l \in {"idle", "chunk"}, o3 \in Ops : Moves(p, l, o3) /\ WriteOK(l, o3)
  <2>1. CASE Goto(p, "chunk", o2)
    <3>1. Moves(p, "chunk", o2)
      BY Zenon, <1>3, <1>4, <2>1, GotoMoves DEF DataInv
    <3>2. WriteOK("chunk", o2)
      BY Zenon, <1>2, <1>3 DEF WriteOK, Writing
    <3> QED
      BY Zenon, <1>3, <3>1, <3>2
  <2>2. CASE Goto(p, "idle", NoOp)
    <3>1. Moves(p, "idle", NoOp)
      BY Zenon, <1>5, <1>4, <2>2, GotoMoves DEF DataInv
    <3>2. WriteOK("idle", NoOp)
      BY Zenon DEF WriteOK, Writing
    <3> QED
      BY Zenon, <1>5, <3>1, <3>2
  <2> QED
    BY Zenon, <1>1, <2>1, <2>2
<1>7. PICK l \in {"idle", "chunk"}, o3 \in Ops : Moves(p, l, o3) /\ WriteOK(l, o3)
  BY Zenon, <1>6
<1>8. l \notin HasInode /\ l \notin Writing /\ l # "itrunc"
  BY Zenon, <1>4
<1>9. InodeLocks' /\ ilocked' \in [Files -> Callers \cup {NoCaller}]
  BY Zenon, <1>1, <1>4, <1>7, <1>8, LocksGiven DEF DataInv
<1>10. ~dpanic'
  BY Zenon, <1>1 DEF DataInv
<1> QED
  BY Zenon, <1>1, <1>4, <1>7, <1>8, <1>9, <1>10, Pass

LEMMA BeginTruncKeeps ==
  ASSUME DataInv, NEW p \in Callers, NEW i \in Files, BeginTrunc(p, i)
  PROVE  DataInv'
<1> DEFINE o == [NoOp EXCEPT !.i = i]
<1>1. /\ dpc[p] = "idle" /\ ilocked[i] = NoCaller /\ ilocked' = [ilocked EXCEPT ![i] = p]
      /\ Goto(p, "itrunc", o) /\ UNCHANGED <<used, blk, addrs, size, off, dpanic>>
  BY Zenon DEF BeginTrunc
<1>2. o \in Ops /\ o.i = i /\ o.tot = 0
  BY DEF NoOp, Ops
<1> HIDE DEF o
<1>3. "itrunc" \in HasInode /\ "itrunc" \in Labels /\ "idle" \notin HasInode /\ "itrunc" \notin Writing
  BY Zenon DEF HasInode, Labels, Writing
<1>4. Moves(p, "itrunc", o)
  BY Zenon, <1>1, <1>2, <1>3, GotoMoves DEF DataInv
<1>5. InodeLocks' /\ ilocked' \in [Files -> Callers \cup {NoCaller}]
  BY Zenon, <1>1, <1>2, <1>3, <1>4, LocksTaken DEF DataInv
<1>6. DataTypes'
  BY Zenon, <1>1, <1>4, <1>5 DEF DataInv, DataTypes, Moves
<1>7. ASSUME NEW q \in Callers, q # p PROVE dpc'[q] = dpc[q] /\ op'[q] = op[q]
  BY Zenon, <1>4, <1>7 DEF Moves
<1>8. dpc'[p] = "itrunc" /\ op'[p] = o
  BY Zenon, <1>4 DEF Moves
<1>9. WriteCalls'
  <2>1. ASSUME NEW q \in Callers PROVE WriteOK(dpc[q], op[q])'
    <3>1. CASE q = p
      BY Zenon, <1>3, <1>8, <3>1 DEF WriteOK
    <3>2. CASE q # p
      <4>1. dpc'[q] = dpc[q] /\ op'[q] = op[q] /\ WriteOK(dpc[q], op[q])
        BY Zenon, <1>7, <3>2, WriteCallsAre DEF DataInv
      <4> QED
        BY Zenon, <1>1, <4>1 DEF WriteOK
    <3> QED
      BY Zenon, <3>1, <3>2
  <2>2. (\A q \in Callers : WriteOK(dpc[q], op[q]))'
    BY Zenon, <2>1
  <2> QED
    BY Zenon, <2>2 DEF WriteCalls, WriteOK, Writing
<1>10. FreedView /\ FreedView'
  <2>1. FreedView
    BY Zenon, FreedIs DEF DataInv
  <2>2. FreedView'
    BY <1>5, <1>6, FreedIs, PTL
  <2> QED
    BY Zenon, <2>1, <2>2
<1>11. ASSUME NEW j \in Files PROVE Freed(j)' = Freed(j) /\ (j # i => (Truncating(j)' <=> Truncating(j)))
  <2>1. CASE j = i
    <3>1. ~Truncating(i)
      BY Zenon, <1>1, NotTruncating DEF DataInv
    <3>2. Freed(i) = 0
      BY Zenon, <3>1, <1>10 DEF FreedView
    <3>3. Freed(i)' = op'[p].tot
      BY Zenon, <1>2, <1>8, <1>10 DEF FreedView
    <3> QED
      BY Zenon, <1>2, <1>8, <2>1, <3>2, <3>3
  <2>2. CASE j # i
    <3>1. Truncating(j)' <=> Truncating(j)
      <4>1. ASSUME NEW q \in Callers PROVE dpc'[q] = "itrunc" /\ op'[q].i = j <=> dpc[q] = "itrunc" /\ op[q].i = j
        BY Zenon, <1>1, <1>2, <1>7, <1>8, <2>2
      <4> QED
        BY Zenon, <4>1 DEF Truncating
    <3>2. CASE ~Truncating(j)
      BY Zenon, <1>10, <3>1, <3>2 DEF FreedView
    <3>3. CASE Truncating(j)
      <4>1. PICK q \in Callers : dpc[q] = "itrunc" /\ op[q].i = j
        BY Zenon, <3>3 DEF Truncating
      <4>2. q # p
        BY Zenon, <1>1, <4>1
      <4>3. dpc'[q] = dpc[q] /\ op'[q] = op[q]
        BY Zenon, <1>7, <4>2
      <4>4. Freed(j) = op[q].tot /\ Freed(j)' = op'[q].tot
        BY Zenon, <1>10, <4>1, <4>3 DEF FreedView
      <4> QED
        BY Zenon, <3>1, <4>3, <4>4
    <3> QED
      BY Zenon, <3>1, <3>2, <3>3
  <2> QED
    BY Zenon, <2>1, <2>2
<1>12. ASSUME NEW j \in Files PROVE Truncating(j)' \/ \A x \in 0..(size'[j] - 1) : Good(j, x)
  <2>1. CASE j = i
    BY Zenon, <1>2, <1>8, <2>1 DEF Truncating
  <2>2. CASE j # i
    BY Zenon, <1>1, <1>11, <2>2 DEF DataInv, Contents
  <2> QED
    BY Zenon, <2>1, <2>2
<1>13. ASSUME NEW q \in Callers, dpc'[q] \in Writing,
              NEW x \in off'[op'[q].f]..(off'[op'[q].f] + op'[q].tot - 1)
       PROVE  Good(op'[q].i, x)
  <2>1. dpc[q] \in Writing /\ op'[q] = op[q] /\ off' = off
    BY Zenon, <1>1, <1>3, <1>7, <1>8, <1>13
  <2> QED
    BY Zenon, <1>13, <2>1 DEF DataInv, Contents, Writing
<1>14. ~dpanic'
  BY Zenon, <1>1 DEF DataInv
<1> QED
  BY Zenon, <1>1, <1>5, <1>6, <1>9, <1>11, <1>12, <1>13, <1>14, Quiet

\* Nobody is writing to an inode that is free, or that another one has.
LEMMA WritesElsewhere ==
  ASSUME DataInv, NEW p \in Callers, NEW i \in Files, ilocked[i] \in {p, NoCaller},
         NEW q \in Callers, q # p, dpc[q] \in Writing
  PROVE  op[q].i # i /\ \A f \in OpenFiles : f.ip = i => op[q].f # f
<1>1. dpc[q] \in HasInode
  BY Zenon DEF HasInode, Writing
<1>2. ilocked[op[q].i] = q /\ q # NoCaller
  BY Zenon, <1>1, FileAssumption DEF DataInv, InodeLocks
<1>3. op[q].i # i
  BY Zenon, <1>2
<1>4. op[q].i = op[q].f.ip
  BY Zenon DEF DataInv, WriteCalls, Writing
<1> QED
  BY Zenon, <1>3, <1>4

LEMMA WrittenKeeps ==
  ASSUME DataInv, NEW p \in Callers, Written(p)
  PROVE  DataInv'
<1> DEFINE o == op[p]
           i == o.i
           s == IF Offset(o) > size[i] THEN Offset(o) ELSE size[i]
           o2 == [o EXCEPT !.rem = IF o.tot = o.n1 THEN o.rem - o.tot ELSE 0]
<1>1. /\ dpc[p] \in Writing
      /\ size' = [size EXCEPT ![i] = s] /\ off' = [off EXCEPT ![o.f] = Offset(o)]
      /\ Goto(p, "endop", o2) /\ UNCHANGED <<used, blk, addrs, ilocked, dpanic>>
  BY Zenon DEF Written, Writing
<1>2. "endop" \in HasInode /\ "endop" \in Labels /\ "endop" \notin Writing /\ dpc[p] \in HasInode
      /\ dpc[p] # "itrunc"
  BY Zenon, <1>1 DEF HasInode, Labels, Writing
<1>3. o \in Ops /\ o.f \in OpenFiles /\ i = o.f.ip /\ i \in Files /\ ilocked[i] = p
  BY Zenon, <1>1, <1>2 DEF DataInv, DataTypes, WriteCalls, InodeLocks, Writing
<1>4. /\ off[o.f] <= size[i] /\ off[o.f] + o.n1 <= MAXFILE * BSIZE /\ o.tot <= o.n1 /\ o.n1 <= o.rem
  BY Zenon, <1>1 DEF DataInv, WriteCalls, Writing
<1>5. /\ off[o.f] \in Nat /\ size[i] \in 0..(MAXFILE * BSIZE)
      /\ o.tot \in Nat /\ o.n1 \in Nat /\ o.rem \in Nat
  BY <1>3 DEF DataInv, DataTypes, Ops
<1>6. /\ Offset(o) \in Nat /\ Offset(o) = off[o.f] + o.tot
      /\ s \in 0..(MAXFILE * BSIZE) /\ s \in {Offset(o), size[i]}
  BY <1>4, <1>5, Sizes DEF Offset
<1>7. o2 \in Ops /\ o2.f = o.f /\ o2.i = i
  <2>1. (IF o.tot = o.n1 THEN o.rem - o.tot ELSE 0) \in Nat
    BY <1>4, <1>5
  <2> HIDE DEF o
  <2> QED
    BY <1>3, <2>1 DEF Ops
<1> HIDE DEF o2, s
<1>8. Moves(p, "endop", o2)
  BY Zenon, <1>1, <1>2, <1>7, GotoMoves DEF DataInv
<1>9. InodeLocks'
  BY Zenon, <1>1, <1>2, <1>7, <1>8, LocksKept DEF DataInv
<1>10. size' \in [Files -> 0..(MAXFILE * BSIZE)] /\ off' \in [OpenFiles -> Nat]
  BY Zenon, <1>1, <1>3, <1>6 DEF DataInv, DataTypes
<1>11. DataTypes'
  BY Zenon, <1>1, <1>8, <1>10 DEF DataInv, DataTypes, Moves
<1>12. /\ size'[i] = s /\ \A j \in Files : j # i => size'[j] = size[j]
       /\ \A f \in OpenFiles : f # o.f => off'[f] = off[f]
  BY Zenon, <1>1, <1>3 DEF DataInv, DataTypes
<1>13. ASSUME NEW q \in Callers, dpc'[q] \in Writing
       PROVE  /\ dpc[q] \in Writing /\ op'[q] = op[q] /\ op[q].f \in OpenFiles /\ op[q].i \in Files
              /\ off'[op[q].f] = off[op[q].f] /\ size'[op[q].i] = size[op[q].i]
  <2>1. q # p
    BY Zenon, <1>2, <1>8, <1>13 DEF Moves
  <2>2. dpc'[q] = dpc[q] /\ op'[q] = op[q]
    BY Zenon, <1>8, <2>1 DEF Moves
  <2>3. op[q].i # i /\ op[q].f # o.f
    BY Zenon, <1>3, <1>13, <2>1, <2>2, WritesElsewhere
  <2>4. op[q].f \in OpenFiles /\ op[q].i \in Files
    BY Zenon, <1>13, <2>2 DEF DataInv, WriteCalls, InodeLocks, HasInode, Writing
  <2> QED
    BY Zenon, <1>12, <1>13, <2>2, <2>3, <2>4
<1>14. WriteCalls'
  <2>1. ASSUME NEW q \in Callers PROVE WriteOK(dpc[q], op[q])'
    <3>1. CASE q = p
      BY Zenon, <1>2, <1>3, <1>7, <1>8, <3>1 DEF WriteOK, Moves
    <3>2. CASE q # p
      <4>1. dpc'[q] = dpc[q] /\ op'[q] = op[q] /\ WriteOK(dpc[q], op[q])
        BY Zenon, <1>8, <3>2, WriteCallsAre DEF DataInv, Moves
      <4> QED
        BY Zenon, <1>13, <4>1 DEF WriteOK
    <3> QED
      BY Zenon, <3>1, <3>2
  <2>2. (\A q \in Callers : WriteOK(dpc[q], op[q]))'
    BY Zenon, <2>1
  <2> QED
    BY Zenon, <2>2 DEF WriteCalls, WriteOK, Writing
<1>15. \A q \in Callers : /\ dpc'[q] = "itrunc" <=> dpc[q] = "itrunc"
                          /\ dpc[q] = "itrunc" => op'[q] = op[q]
  BY Zenon, <1>2, <1>8 DEF Moves, HasInode
<1>16. \A j \in Files : Freed(j)' = Freed(j) /\ (Truncating(j)' <=> Truncating(j))
  BY Zenon, <1>9, <1>11, <1>15, FreedKept DEF DataInv
<1>17. ASSUME NEW j \in Files PROVE Truncating(j)' \/ \A x \in 0..(size'[j] - 1) : Good(j, x)
  <2>1. CASE j # i
    BY Zenon, <1>12, <1>16, <2>1 DEF DataInv, Contents
  <2>2. CASE j = i
    <3>1. ~Truncating(i)
      BY Zenon, <1>2, <1>3, NotTruncating DEF DataInv
    <3>2. ASSUME NEW x \in 0..(s - 1) PROVE Good(i, x)
      <4>1. CASE x < size[i]
        <5>1. x \in 0..(size[i] - 1)
          BY <1>5, <1>6, <4>1, Sizes
        <5> QED
          BY Zenon, <3>1, <5>1, <1>3 DEF DataInv, Contents
      <4>2. CASE ~(x < size[i])
        <5>1. x \in off[o.f]..(off[o.f] + o.tot - 1)
          BY <1>4, <1>5, <1>6, <4>2, Sizes
        <5> QED
          BY Zenon, <1>1, <5>1 DEF DataInv, Contents, Writing
      <4> QED
        BY Zenon, <4>1, <4>2
    <3> QED
      BY Zenon, <1>12, <2>2, <3>2
  <2> QED
    BY Zenon, <2>1, <2>2
<1>18. ASSUME NEW q \in Callers, dpc'[q] \in Writing,
              NEW x \in off'[op'[q].f]..(off'[op'[q].f] + op'[q].tot - 1)
       PROVE  Good(op'[q].i, x)
  BY Zenon, <1>13, <1>18 DEF DataInv, Contents, Writing
<1>19. ~dpanic'
  BY Zenon, <1>1 DEF DataInv
<1> QED
  BY Zenon, <1>1, <1>9, <1>11, <1>14, <1>16, <1>17, <1>18, <1>19, Quiet

\* readi stays below the size.
LEMMA ReadFits ==
  ASSUME DataTypes, NEW i \in Files, NEW x \in Nat, NEW n \in Int
  PROVE  LET r == readi(i, x, n % UINT) IN r \in Nat /\ (r = 0 \/ x + r <= size[i])
<1> DEFINE m == n % UINT
           t == x + m
<1>1. size[i] \in 0..(MAXFILE * BSIZE)
  BY Zenon DEF DataTypes
<1>2. size[i] \in Nat /\ size[i] < UINT /\ UINT \in Nat \ {0}
  BY <1>1, Sizes
<1>3. m \in 0..(UINT - 1)
  BY <1>2
<1> SUFFICES readi(i, x, m) \in Nat /\ (readi(i, x, m) = 0 \/ x + readi(i, x, m) <= size[i])
  OBVIOUS
<1> HIDE DEF m
<1>4. CASE x > size[i]
  <2>1. readi(i, x, m) = 0
    BY Zenon, <1>4 DEF readi
  <2> QED
    BY <2>1
<1>5. CASE ~(x > size[i])
  <2>1. t \in Int /\ t < UINT + UINT /\ t >= 0 - UINT /\ t \in Nat
    BY <1>2, <1>3, <1>5
  <2>2. t % UINT = IF t < 0 THEN t + UINT ELSE IF t < UINT THEN t ELSE t - UINT
    <3> HIDE DEF t
    <3> QED
      BY Zenon, <1>2, <2>1, ModAround
  <2>3. readi(i, x, m) = IF t % UINT < x THEN 0
                         ELSE IF t % UINT > size[i] THEN size[i] - x ELSE m
    BY Zenon, <1>5 DEF readi
  <2>4. CASE t < UINT
    <3>1. t % UINT = x + m
      BY <2>1, <2>2, <2>4
    <3>2. readi(i, x, m) \in Nat /\ (readi(i, x, m) = 0 \/ x + readi(i, x, m) <= size[i])
      BY <1>2, <1>3, <1>5, <2>3, <3>1
    <3> QED
      BY Zenon, <3>2
  <2>5. CASE ~(t < UINT)
    <3>1. t % UINT < x
      BY <1>2, <1>3, <2>1, <2>2, <2>5
    <3>2. readi(i, x, m) = 0
      BY Zenon, <2>3, <3>1
    <3> QED
      BY <3>2
  <2> QED
    BY Zenon, <2>4, <2>5
<1> QED
  BY Zenon, <1>4, <1>5

LEMMA FileReadKeeps ==
  ASSUME DataInv, NEW p \in Callers, NEW f \in OpenFiles, NEW n \in Lens, FileRead(p, f, n)
  PROVE  DataInv'
<1> DEFINE i == f.ip
           r == readi(f.ip, off[f], n % UINT)
<1>1. /\ dpc[p] = "idle" /\ ilocked[i] = NoCaller
      /\ off' = [off EXCEPT ![f] = off[f] + r] \/ off' = off
      /\ dpanic' = (dpanic \/ \E k \in off[f]..off[f] + r - 1 : Mapped(i, k \div BSIZE) = 0)
      /\ UNCHANGED <<used, blk, addrs, size, ilocked, dpc, op>>
  BY Zenon DEF FileRead
<1>2. i \in Files /\ off \in [OpenFiles -> Nat] /\ off[f] \in Nat /\ n \in Int /\ NoCaller \notin Callers
  BY FileAssumption DEF DataInv, DataTypes
<1>3. r \in Nat /\ (r = 0 \/ off[f] + r <= size[i])
  BY Zenon, <1>2, ReadFits DEF DataInv
<1>4. ~Truncating(i)
  BY Zenon, <1>1, <1>2, NotTruncating DEF DataInv
<1> HIDE DEF r
<1>5. ~dpanic'
  <2>1. ASSUME NEW k \in off[f]..off[f] + r - 1 PROVE Mapped(i, k \div BSIZE) # 0
    <3>1. size[i] \in 0..(MAXFILE * BSIZE)
      BY Zenon, <1>2 DEF DataInv, DataTypes
    <3>2. k \in 0..(size[i] - 1)
      BY <1>2, <1>3, <3>1, Sizes
    <3>3. Good(i, k)
      BY Zenon, <1>2, <1>4, <3>2 DEF DataInv, Contents
    <3> QED
      BY Zenon, <3>3 DEF Good
  <2> QED
    BY Zenon, <1>1, <2>1 DEF DataInv
<1>6. off' \in [OpenFiles -> Nat] /\ \A g \in OpenFiles : g # f => off'[g] = off[g]
  <2>1. off[f] + r \in Nat
    BY <1>2, <1>3
  <2> QED
    BY Zenon, <1>1, <1>2, <2>1
<1>7. DataTypes' /\ InodeLocks'
  BY Zenon, <1>1, <1>6 DEF DataInv, DataTypes, InodeLocks
<1>8. ASSUME NEW q \in Callers, dpc[q] \in Writing
      PROVE  op[q].f \in OpenFiles /\ off'[op[q].f] = off[op[q].f]
  <2>1. q # p
    BY Zenon, <1>1, <1>8 DEF Writing
  <2>2. op[q].f \in OpenFiles
    BY Zenon, <1>8 DEF DataInv, WriteCalls, Writing
  <2>3. op[q].f # f
    BY Zenon, <1>1, <1>2, <1>8, <2>1, WritesElsewhere
  <2> QED
    BY Zenon, <1>6, <2>2, <2>3
<1>9. WriteCalls'
  BY Zenon, <1>1, <1>8 DEF DataInv, WriteCalls, Writing
<1>10. \A j \in Files : Freed(j)' = Freed(j) /\ (Truncating(j)' <=> Truncating(j))
  BY Zenon, <1>1, <1>7, FreedKept DEF DataInv
<1>11. \A j \in Files : Truncating(j)' \/ \A x \in 0..(size'[j] - 1) : Good(j, x)
  BY Zenon, <1>1, <1>10 DEF DataInv, Contents
<1>12. ASSUME NEW q \in Callers, dpc'[q] \in Writing,
              NEW x \in off'[op'[q].f]..(off'[op'[q].f] + op'[q].tot - 1)
       PROVE  Good(op'[q].i, x)
  <2>1. dpc' = dpc /\ op' = op /\ dpc[q] \in Writing
    BY Zenon, <1>1, <1>12
  <2>2. off'[op[q].f] = off[op[q].f]
    BY Zenon, <1>8, <2>1
  <2> QED
    BY Zenon, <1>12, <2>1, <2>2 DEF DataInv, Contents, Writing
<1> QED
  BY Zenon, <1>1, <1>5, <1>7, <1>9, <1>10, <1>11, <1>12, Quiet

\* The last step of itrunc: everything is freed.
TruncDone(p) ==
  /\ dpc[p] = "itrunc" /\ addrs[op[p].i][NDIRECT] = 0
  /\ size' = [size EXCEPT ![op[p].i] = 0] /\ ilocked' = [ilocked EXCEPT ![op[p].i] = NoCaller]
  /\ Goto(p, "idle", NoOp)
  /\ UNCHANGED <<used, blk, addrs, dpanic, off>>

LEMMA TruncDoneKeeps ==
  ASSUME DataInv, NEW p \in Callers, TruncDone(p)
  PROVE  DataInv'
<1> DEFINE i == op[p].i
<1>1. "idle" \notin HasInode /\ "idle" \notin Writing /\ "idle" \in Labels /\ "itrunc" \in HasInode
  BY Zenon DEF HasInode, Writing, Labels
<1>2. dpc[p] = "itrunc" /\ i \in Files /\ ilocked[i] = p
  BY Zenon, <1>1 DEF TruncDone, DataInv, InodeLocks
<1>3. NoOp \in Ops
  BY DEF NoOp, Ops
<1>4. Moves(p, "idle", NoOp)
  BY Zenon, <1>1, <1>3, GotoMoves DEF TruncDone, DataInv
<1>5. InodeLocks' /\ ilocked' \in [Files -> Callers \cup {NoCaller}]
  BY Zenon, <1>1, <1>2, <1>4, LocksGiven DEF TruncDone, DataInv
<1>6. 0 \in 0..(MAXFILE * BSIZE)
  BY Sizes
<1>7. /\ size' \in [Files -> 0..(MAXFILE * BSIZE)] /\ size'[i] = 0
      /\ \A j \in Files : j # i => size'[j] = size[j]
  BY Zenon, <1>2, <1>6 DEF TruncDone, DataInv, DataTypes
<1>8. DataTypes'
  BY Zenon, <1>4, <1>5, <1>7 DEF TruncDone, DataInv, DataTypes, Moves
<1>9. ASSUME NEW q \in Callers, dpc'[q] \in Writing
      PROVE  dpc[q] \in Writing /\ op'[q] = op[q] /\ op[q].i \in Files /\ size'[op[q].i] = size[op[q].i]
  <2>1. q # p
    BY Zenon, <1>1, <1>4, <1>9 DEF Moves
  <2>2. dpc[q] \in Writing /\ op'[q] = op[q]
    BY Zenon, <1>4, <1>9, <2>1 DEF Moves
  <2>3. op[q].i # i /\ op[q].i \in Files
    BY Zenon, <1>2, <2>1, <2>2, WritesElsewhere DEF DataInv, InodeLocks, HasInode, Writing
  <2> QED
    BY Zenon, <1>7, <2>2, <2>3
<1>10. WriteCalls'
  <2>1. ASSUME NEW q \in Callers PROVE WriteOK(dpc[q], op[q])'
    <3>1. CASE q = p
      BY Zenon, <1>1, <1>4, <3>1 DEF WriteOK, Moves
    <3>2. CASE q # p
      <4>1. dpc'[q] = dpc[q] /\ op'[q] = op[q] /\ WriteOK(dpc[q], op[q]) /\ off' = off
        BY Zenon, <1>4, <3>2, WriteCallsAre DEF DataInv, Moves, TruncDone
      <4> QED
        BY Zenon, <1>9, <4>1 DEF WriteOK
    <3> QED
      BY Zenon, <3>1, <3>2
  <2>2. (\A q \in Callers : WriteOK(dpc[q], op[q]))'
    BY Zenon, <2>1
  <2> QED
    BY Zenon, <2>2 DEF WriteCalls, WriteOK, Writing
<1>11. ASSUME NEW j \in Files, j # i
       PROVE  Freed(j)' = Freed(j) /\ (Truncating(j)' <=> Truncating(j))
  <2>1. ASSUME NEW q \in Callers
        PROVE  /\ dpc'[q] = "itrunc" /\ op'[q].i = j <=> dpc[q] = "itrunc" /\ op[q].i = j
               /\ dpc[q] = "itrunc" /\ op[q].i = j => op'[q] = op[q]
    BY Zenon, <1>4, <1>11 DEF Moves
  <2> QED
    BY Zenon, <1>5, <1>8, <2>1, FreedSame DEF DataInv
<1>12. \A j \in Files : Freed(j)' = Freed(j) \/ addrs[j][NDIRECT] = 0
  BY Zenon, <1>11 DEF TruncDone
<1>13. ASSUME NEW j \in Files PROVE Truncating(j)' \/ \A x \in 0..(size'[j] - 1) : Good(j, x)
  <2>1. CASE j # i
    BY Zenon, <1>7, <1>11, <2>1 DEF DataInv, Contents
  <2>2. CASE j = i
    <3>1. \A x \in 0..(0 - 1) : FALSE
      OBVIOUS
    <3> QED
      BY Zenon, <1>7, <2>2, <3>1
  <2> QED
    BY Zenon, <2>1, <2>2
<1>14. ASSUME NEW q \in Callers, dpc'[q] \in Writing,
              NEW x \in off'[op'[q].f]..(off'[op'[q].f] + op'[q].tot - 1)
       PROVE  Good(op'[q].i, x)
  <2>1. dpc[q] \in Writing /\ op'[q] = op[q] /\ off' = off
    BY Zenon, <1>9, <1>14 DEF TruncDone
  <2> QED
    BY Zenon, <1>14, <2>1 DEF DataInv, Contents, Writing
<1> QED
  BY Zenon, <1>5, <1>8, <1>10, <1>12, <1>13, <1>14, Quiet DEF TruncDone, DataInv

-----------------------------------------------------------------------------
(* The steps that change the block maps.                                   *)

\* A file's block is one of the first MAXFILE.
LEMMA BnFits ==
  ASSUME NEW x \in 0..(MAXFILE * BSIZE - 1)
  PROVE  x \in Nat /\ x \div BSIZE \in 0..(MAXFILE - 1) /\ x % BSIZE \in 0..(BSIZE - 1)
<1>1. x \in Nat /\ x < MAXFILE * BSIZE /\ BSIZE \in Nat \ {0} /\ MAXFILE \in Nat
  BY Sizes
<1> QED
  BY Zenon, <1>1, DivBelow, DivMod

\* A file is not truncated while a call writes to it.
LEMMA WriterAlone ==
  ASSUME DataInv, NEW p \in Callers, dpc[p] \in Writing
  PROVE  /\ op[p].i \in Files /\ ilocked[op[p].i] = p /\ ~Truncating(op[p].i)
         /\ op[p].f \in OpenFiles /\ op[p].i = op[p].f.ip /\ op[p] \in Ops
         /\ off[op[p].f] \in Nat /\ op[p].tot \in Nat /\ op[p].n1 \in Nat
         /\ off[op[p].f] + op[p].n1 <= MAXFILE * BSIZE /\ op[p].tot <= op[p].n1
         /\ off[op[p].f] <= size[op[p].i]
<1>1. dpc[p] \in HasInode /\ dpc[p] # "itrunc"
  BY Zenon DEF HasInode, Writing
<1>2. op[p].i \in Files /\ ilocked[op[p].i] = p
  BY Zenon, <1>1 DEF DataInv, InodeLocks
<1>3. ~Truncating(op[p].i)
  BY Zenon, <1>1, <1>2, NotTruncating DEF DataInv
<1>4. /\ op[p].f \in OpenFiles /\ op[p].i = op[p].f.ip /\ op[p] \in Ops
      /\ off[op[p].f] + op[p].n1 <= MAXFILE * BSIZE /\ op[p].tot <= op[p].n1
      /\ off[op[p].f] <= size[op[p].i]
  BY Zenon DEF DataInv, DataTypes, WriteCalls, Writing
<1>5. off[op[p].f] \in Nat
  BY Zenon, <1>4 DEF DataInv, DataTypes
<1>6. op[p].tot \in Nat /\ op[p].n1 \in Nat
  BY <1>4 DEF Ops
<1> QED
  BY Zenon, <1>2, <1>3, <1>4, <1>5, <1>6

\* The contents, when what is written stays written.
LEMMA ContentsNext ==
  ASSUME DataInv, DataTypes', InodeLocks', UNCHANGED <<size, off>>,
         \A j \in Files : Truncating(j)' <=> Truncating(j),
         \A j \in Files, x \in 0..(MAXFILE * BSIZE - 1) :
           ~Truncating(j) /\ Good(j, x) => Good(j, x)',
         \A q \in Callers : dpc'[q] \in Writing =>
           /\ dpc[q] \in Writing /\ op'[q].f = op[q].f /\ op'[q].i = op[q].i
           /\ op'[q].tot = op[q].tot \/
              \A x \in (off[op[q].f] + op[q].tot)..(off[op[q].f] + op'[q].tot - 1) :
                \A j \in Files : j = op[q].i => Good(j, x)'
  PROVE  Contents'
<1>1. ASSUME NEW i \in Files, ~Truncating(i)', NEW x \in 0..(size'[i] - 1) PROVE Good(i, x)'
  <2>1. size'[i] = size[i] /\ size[i] \in 0..(MAXFILE * BSIZE) /\ ~Truncating(i)
    BY Zenon, <1>1 DEF DataInv, DataTypes
  <2>2. x \in 0..(MAXFILE * BSIZE - 1) /\ x \in 0..(size[i] - 1)
    BY <2>1, Sizes
  <2>3. Good(i, x)
    BY Zenon, <2>1, <2>2 DEF DataInv, Contents
  <2> QED
    BY Zenon, <2>1, <2>2, <2>3
<1>2. ASSUME NEW q \in Callers, dpc'[q] \in Writing,
             NEW x \in off'[op'[q].f]..(off'[op'[q].f] + op'[q].tot - 1)
      PROVE  Good(op[q].i, x)'
  <2>1. dpc[q] \in Writing /\ op'[q].f = op[q].f /\ op'[q].i = op[q].i /\ off' = off
    BY Zenon, <1>2
  <2>2. /\ op[q].i \in Files /\ ~Truncating(op[q].i) /\ off[op[q].f] \in Nat /\ op[q].tot \in Nat
        /\ op[q].n1 \in Nat /\ off[op[q].f] + op[q].n1 <= MAXFILE * BSIZE /\ op[q].tot <= op[q].n1
    BY Zenon, <2>1, WriterAlone
  <2>3. x \in off[op[q].f]..(off[op[q].f] + op'[q].tot - 1) /\ op'[q].tot \in Nat
    <3>1. op'[q] \in Ops
      BY Zenon DEF DataTypes
    <3> QED
      BY <1>2, <2>1, <3>1 DEF Ops
  <2>4. PICK i \in Files : i = op[q].i
    BY Zenon, <2>2
  <2>5. Good(i, x)'
    <3>1. CASE x < off[op[q].f] + op[q].tot
      <4>1. x \in off[op[q].f]..(off[op[q].f] + op[q].tot - 1) /\ x \in 0..(MAXFILE * BSIZE - 1)
        BY <2>2, <2>3, <3>1, Sizes
      <4>2. Good(op[q].i, x)
        BY Zenon, <2>1, <4>1 DEF DataInv, Contents, Writing
      <4> QED
        BY Zenon, <2>2, <2>4, <4>1, <4>2
    <3>2. CASE ~(x < off[op[q].f] + op[q].tot)
      <4>1. x \in (off[op[q].f] + op[q].tot)..(off[op[q].f] + op'[q].tot - 1) /\ op'[q].tot # op[q].tot
        BY <2>2, <2>3, <3>2
      <4>2. \A j \in Files : j = op[q].i => Good(j, x)'
        BY Zenon, <1>2, <4>1
      <4> QED
        BY Zenon, <2>4, <4>2
    <3> QED
      BY Zenon, <3>1, <3>2
  <2> QED
    BY Zenon, <2>1, <2>4, <2>5 DEF Good, Mapped
<1> QED
  BY Zenon, <1>1, <1>2 DEF Contents, Writing

\* A file that is not truncated keeps the blocks it has.
MapsKept ==
  \A j \in Files : ~Truncating(j) =>
    /\ addrs[j][NDIRECT] # 0 => addrs'[j][NDIRECT] = addrs[j][NDIRECT]
    /\ \A bn \in 0..(MAXFILE - 1) : Mapped(j, bn) # 0 => Mapped(j, bn)' = Mapped(j, bn)

LEMMA SameKept ==
  ASSUME UNCHANGED <<blk, addrs>>
  PROVE  MapsKept
<1>1. \A j \in Files, bn \in 0..(MAXFILE - 1) : Mapped(j, bn)' = Mapped(j, bn)
  BY Zenon DEF Mapped
<1> QED
  BY Zenon, <1>1 DEF MapsKept

\* What a file holds stays when its addresses and their blocks do.
LEMMA GoodStays ==
  ASSUME NEW j \in Files, NEW x \in 0..(MAXFILE * BSIZE - 1), Good(j, x),
         Mapped(j, x \div BSIZE)' = Mapped(j, x \div BSIZE),
         blk'[Mapped(j, x \div BSIZE)] = blk[Mapped(j, x \div BSIZE)]
  PROVE  Good(j, x)'
  BY Zenon DEF Good

\* One value of a function changes.
LEMMA FunctionSet ==
  ASSUME NEW S, NEW T, NEW g \in [S -> T], NEW x \in S, NEW y \in T, NEW h, h = [g EXCEPT ![x] = y]
  PROVE  h \in [S -> T] /\ h[x] = y /\ \A a \in S : a # x => h[a] = g[a]
  BY Zenon

\* One address of an inode changes.
LEMMA AddrSet ==
  ASSUME DataTypes, NEW i \in Files, NEW k \in 0..NDIRECT, NEW v \in 0..NBLOCKS,
         addrs' = [addrs EXCEPT ![i][k] = v]
  PROVE  /\ addrs' \in [Files -> [0..NDIRECT -> 0..NBLOCKS]]
         /\ addrs'[i][k] = v /\ \A m \in 0..NDIRECT : m # k => addrs'[i][m] = addrs[i][m]
         /\ \A j \in Files : j # i => addrs'[j] = addrs[j]
<1> DEFINE a == [addrs[i] EXCEPT ![k] = v]
<1>1. addrs \in [Files -> [0..NDIRECT -> 0..NBLOCKS]]
  BY Zenon DEF DataTypes
<1>2. a \in [0..NDIRECT -> 0..NBLOCKS] /\ a[k] = v /\ \A m \in 0..NDIRECT : m # k => a[m] = addrs[i][m]
  BY Zenon, <1>1
<1>3. addrs' = [addrs EXCEPT ![i] = a]
  BY Zenon
<1> HIDE DEF a
<1>4. addrs' \in [Files -> [0..NDIRECT -> 0..NBLOCKS]] /\ addrs'[i] = a
      /\ \A j \in Files : j # i => addrs'[j] = addrs[j]
  BY Zenon, <1>1, <1>2, <1>3
<1> QED
  BY Zenon, <1>2, <1>4

\* One block changes.
LEMMA BlockSet ==
  ASSUME DataTypes, NEW b \in Blocks, NEW c \in [0..(BSIZE - 1) -> Int], blk' = [blk EXCEPT ![b] = c]
  PROVE  /\ blk' \in [Blocks -> [0..(BSIZE - 1) -> Int]]
         /\ blk'[b] = c /\ \A d \in Blocks : d # b => blk'[d] = blk[d]
  BY Zenon DEF DataTypes

\* Numbers of blocks.
LEMMA BlockNumbers == 0 \notin Blocks /\ Blocks \subseteq 0..NBLOCKS /\ Blocks \subseteq Nat
                      /\ \A b \in 0..NBLOCKS : b # 0 => b \in Blocks
  BY Sizes DEF Blocks

\* What is in the places, one of which changes.
OneChange(i, k, v) ==
  /\ \A j \in Files, m \in 0..NDIRECT : addrs'[j][m] = IF j = i /\ m = k THEN v ELSE addrs[j][m]
  /\ \A j \in Files, m \in 0..(BSIZE - 1) :
       Entry(j, m)' = IF j = i /\ NDIRECT + 1 + m = k THEN v ELSE Entry(j, m)

LEMMA HeldSet ==
  ASSUME DataInv, DataTypes', InodeLocks', NEW i \in Files, NEW k \in 0..MAXFILE, NEW v,
         OneChange(i, k, v)
  PROVE  Held' = [Held EXCEPT ![<<i, k>>] = v]
<1> DEFINE B == [Held EXCEPT ![<<i, k>>] = v]
<1>1. HeldView /\ <<i, k>> \in AllPlaces /\ OnPlaces(Held)
  BY Zenon, HeldIs DEF DataInv, AllPlaces, HeldView
<1>2. /\ OnPlaces(B)
      /\ \A x \in AllPlaces : B[x] = IF x = <<i, k>> THEN v ELSE Held[x]
  BY Zenon, <1>1 DEF OnPlaces
<1> HIDE DEF B
<1>3. ASSUME NEW j \in Files, NEW m \in 0..MAXFILE
      PROVE  B[<<j, m>>] = IF j = i /\ m = k THEN v ELSE Held[<<j, m>>]
  <2>1. <<j, m>> \in AllPlaces
    BY Zenon DEF AllPlaces
  <2>2. <<j, m>> = <<i, k>> <=> j = i /\ m = k
    OBVIOUS
  <2> QED
    BY Zenon, <1>2, <2>1, <2>2
<1>4. ASSUME NEW j \in Files, NEW m \in 0..NDIRECT PROVE addrs'[j][m] = B[<<j, m>>]
  <2>1. m \in 0..MAXFILE
    BY Sizes
  <2>2. Held[<<j, m>>] = addrs[j][m]
    BY Zenon, <1>1 DEF HeldView
  <2> QED
    BY Zenon, <1>3, <2>1, <2>2 DEF OneChange
<1>5. ASSUME NEW j \in Files, NEW m \in 0..(BSIZE - 1)
      PROVE  Entry(j, m)' = B[<<j, NDIRECT + 1 + m>>]
  <2>1. NDIRECT + 1 + m \in 0..MAXFILE
    BY Sizes
  <2>2. Held[<<j, NDIRECT + 1 + m>>] = Entry(j, m)
    BY Zenon, <1>1 DEF HeldView
  <2>3. PICK n \in 0..MAXFILE : n = NDIRECT + 1 + m
    BY Zenon, <2>1
  <2> QED
    BY Zenon, <1>3, <2>2, <2>3 DEF OneChange
<1>6. Held' = B
  <2>1. NextHeld(B)
    BY Zenon, <1>2, <1>4, <1>5 DEF NextHeld
  <2> QED
    BY Zenon, <2>1, HeldNext
<1> QED
  BY Zenon, <1>6 DEF B

\* Step of itrunc that takes block b out of place k of its file.
Frees(p, k, b) ==
  /\ dpc[p] = "itrunc" /\ bfree(p, b)
  /\ Held' = [Held EXCEPT ![<<op[p].i, k>>] = 0]
  /\ UNCHANGED <<size, ilocked, dpc, off>>
  /\ \A q \in Callers : op'[q].i = op[q].i /\ (q # p => op'[q] = op[q])
  /\ \A j \in Files : j # op[p].i => addrs'[j] = addrs[j]
  /\ addrs'[op[p].i][NDIRECT] \in {addrs[op[p].i][NDIRECT], 0} \ {b}

LEMMA FreesKeeps ==
  ASSUME DataInv, NEW p \in Callers, NEW k \in 0..MAXFILE, NEW b,
         b # 0, Held[<<op[p].i, k>>] = b, Frees(p, k, b),
         addrs' \in [Files -> [0..NDIRECT -> 0..NBLOCKS]], op' \in [Callers -> Ops],
         op[p].i \in Files
  PROVE  DataInv' /\ MapsKept
<1> DEFINE i == op[p].i
           x == <<i, k>>
<1>1. i \in Files /\ ilocked[i] = p /\ Truncating(i) /\ dpc[p] = "itrunc"
  BY Zenon DEF Frees, DataInv, InodeLocks, Truncating, HasInode
<1>2. x \in AllPlaces /\ Held[x] = b
  BY Zenon, <1>1 DEF AllPlaces
<1>3. b \in used /\ b \in Blocks
  BY Zenon, <1>2, HeldOnce DEF DataInv, DataTypes
<1>4. used' = used \ {b} /\ blk' = [blk EXCEPT ![b] = Stale] /\ ~dpanic'
  BY Zenon, <1>3 DEF Frees, bfree, DataInv
<1>5. Stale \in [0..(BSIZE - 1) -> Int]
  BY Sizes DEF Stale
<1>6. blk' \in [Blocks -> [0..(BSIZE - 1) -> Int]] /\ \A d \in Blocks : d # b => blk'[d] = blk[d]
  BY Zenon, <1>3, <1>4, <1>5, BlockSet DEF DataInv
<1>7. DataTypes'
  BY Zenon, <1>4, <1>6 DEF Frees, DataInv, DataTypes
<1>8. InodeLocks'
  <2>1. UNCHANGED <<ilocked, dpc>> /\ \A q \in Callers : op'[q].i = op[q].i
    BY Zenon DEF Frees
  <2> QED
    BY Zenon, <2>1, LocksSame DEF DataInv
<1>9. WriteCalls'
  <2>1. ASSUME NEW q \in Callers PROVE WriteOK(dpc[q], op[q])'
    <3>1. CASE q = p
      <4>1. dpc'[q] = "itrunc"
        BY Zenon, <1>1, <3>1 DEF Frees
      <4> QED
        BY Zenon, <4>1 DEF WriteOK, Writing
    <3>2. CASE q # p
      <4>1. dpc' = dpc /\ op'[q] = op[q] /\ WriteOK(dpc[q], op[q]) /\ off' = off /\ size' = size
        BY Zenon, <3>2, WriteCallsAre DEF DataInv, Frees
      <4> QED
        BY Zenon, <4>1 DEF WriteOK
    <3> QED
      BY Zenon, <3>1, <3>2
  <2>2. (\A q \in Callers : WriteOK(dpc[q], op[q]))'
    BY Zenon, <2>1
  <2> QED
    BY Zenon, <2>2 DEF WriteCalls, WriteOK, Writing
<1>10. Exact(Held, used)'
  <2>1. x \in DOMAIN Held /\ Held[x] # 0 /\ Exact(Held, used)
    BY Zenon, <1>2 DEF Held, DataInv
  <2>2. Exact([Held EXCEPT ![x] = 0], used \ {Held[x]})
    BY Zenon, <2>1, ExactRemove
  <2>3. Held' = [Held EXCEPT ![x] = 0] /\ used' = used \ {Held[x]}
    BY Zenon, <1>2, <1>4 DEF Frees
  <2> QED
    BY Zenon, <2>2, <2>3 DEF Exact
<1>11. ASSUME NEW j \in Files, j # i
       PROVE  addrs[j][NDIRECT] # b /\ addrs'[j] = addrs[j]
  <2>1. NDIRECT \in 0..NDIRECT /\ NDIRECT \in 0..MAXFILE
    BY Sizes
  <2>2. <<j, NDIRECT>> \in AllPlaces /\ Held[<<j, NDIRECT>>] = addrs[j][NDIRECT]
    BY Zenon, <2>1, HeldIs DEF HeldView, DataInv, AllPlaces
  <2>3. <<j, NDIRECT>> # x
    BY <1>11
  <2>4. addrs[j][NDIRECT] # b
    BY Zenon, <1>2, <2>2, <2>3, HeldOnce DEF DataInv
  <2> QED
    BY Zenon, <1>11, <2>4 DEF Frees
<1>12. IndirectTyped'
  <2>1. ASSUME NEW j \in Files, addrs'[j][NDIRECT] # 0
        PROVE  \A m \in 0..(BSIZE - 1) : blk'[addrs'[j][NDIRECT]][m] \in 0..NBLOCKS
    <3>1. addrs'[j][NDIRECT] = addrs[j][NDIRECT] /\ addrs[j][NDIRECT] # b
      BY Zenon, <1>11, <2>1 DEF Frees
    <3>2. addrs[j][NDIRECT] \in 0..NBLOCKS
      BY Sizes DEF DataInv, DataTypes
    <3>3. addrs[j][NDIRECT] \in Blocks
      BY Zenon, <2>1, <3>1, <3>2, BlockNumbers
    <3> QED
      BY Zenon, <1>6, <2>1, <3>1, <3>3 DEF DataInv, IndirectTyped
  <2> QED
    BY Zenon, <2>1 DEF IndirectTyped
<1>13. \A j \in Files : Truncating(j)' <=> Truncating(j)
  BY Zenon DEF Truncating, Frees
<1>14. ASSUME NEW j \in Files, NEW y \in 0..(MAXFILE * BSIZE - 1), ~Truncating(j), Good(j, y)
       PROVE  Good(j, y)'
  <2> DEFINE bn == y \div BSIZE
             m == Mapped(j, bn)
  <2>1. bn \in 0..(MAXFILE - 1) /\ m # 0 /\ j # i
    BY Zenon, <1>1, <1>14, BnFits DEF Good
  <2> HIDE DEF bn
  <2>2. m \in Blocks /\ m \in used
    BY Zenon, <1>14, <2>1, MapFacts
  <2>3. m # b
    <3>1. <<j, PlaceOf(bn)>> \in AllPlaces /\ Held[<<j, PlaceOf(bn)>>] = m
      BY Zenon, <1>14, <2>1, MappedPlace DEF DataInv
    <3>2. <<j, PlaceOf(bn)>> # x
      BY <2>1
    <3> QED
      BY Zenon, <1>2, <2>1, <3>1, <3>2, HeldOnce DEF DataInv
  <2>4. blk'[m] = blk[m]
    BY Zenon, <1>6, <2>2, <2>3
  <2>5. addrs'[j] = addrs[j] /\ (addrs[j][NDIRECT] # 0 => blk'[addrs[j][NDIRECT]] = blk[addrs[j][NDIRECT]])
    <3>1. addrs[j][NDIRECT] \in 0..NBLOCKS
      BY Sizes DEF DataInv, DataTypes
    <3> QED
      BY Zenon, <1>6, <1>11, <2>1, <3>1, BlockNumbers
  <2>6. Mapped(j, bn)' = m
    BY Zenon, <2>5 DEF Mapped, bn
  <2> QED
    BY Zenon, <1>14, <2>4, <2>6, GoodStays DEF bn
<1>15. ASSUME NEW q \in Callers, dpc'[q] \in Writing
       PROVE  dpc[q] \in Writing /\ op'[q] = op[q]
  <2>1. dpc' = dpc /\ q # p
    BY Zenon, <1>1, <1>15 DEF Frees, Writing
  <2> QED
    BY Zenon, <1>15, <2>1 DEF Frees
<1>16. Contents'
  <2>1. size' = size /\ off' = off
    BY Zenon DEF Frees
  <2> QED
    BY Zenon, <1>7, <1>8, <1>13, <1>14, <1>15, <2>1, ContentsNext
<1>17. ASSUME NEW j \in Files, ~Truncating(j)
       PROVE  addrs'[j] = addrs[j] /\ \A bn \in 0..(MAXFILE - 1) : Mapped(j, bn)' = Mapped(j, bn)
  <2>1. j # i
    BY Zenon, <1>1, <1>17
  <2>2. addrs[j][NDIRECT] \in 0..NBLOCKS
    BY Sizes DEF DataInv, DataTypes
  <2>3. addrs'[j] = addrs[j] /\ (addrs[j][NDIRECT] # 0 => blk'[addrs[j][NDIRECT]] = blk[addrs[j][NDIRECT]])
    BY Zenon, <1>6, <1>11, <2>1, <2>2, BlockNumbers
  <2> QED
    BY Zenon, <2>3 DEF Mapped
<1>18. MapsKept
  BY Zenon, <1>17 DEF MapsKept
<1> QED
  BY Zenon, <1>4, <1>7, <1>8, <1>9, <1>10, <1>12, <1>16, <1>18 DEF DataInv

LEMMA FreeTypes ==
  ASSUME DataInv, NEW p \in Callers, NEW b \in Blocks, bfree(p, b),
         addrs' \in [Files -> [0..NDIRECT -> 0..NBLOCKS]], op' \in [Callers -> Ops],
         \A q \in Callers : op'[q].i = op[q].i, UNCHANGED <<size, ilocked, dpc, off>>
  PROVE  /\ DataTypes' /\ InodeLocks'
         /\ \A d \in Blocks : d # b => blk'[d] = blk[d]
<1>1. used' = used \ {b} /\ blk' = [blk EXCEPT ![b] = Stale]
  BY Zenon DEF bfree
<1>2. Stale \in [0..(BSIZE - 1) -> Int]
  BY Sizes DEF Stale
<1>3. blk' \in [Blocks -> [0..(BSIZE - 1) -> Int]] /\ \A d \in Blocks : d # b => blk'[d] = blk[d]
  BY Zenon, <1>1, <1>2, BlockSet DEF DataInv
<1>4. DataTypes'
  BY Zenon, <1>1, <1>3 DEF DataInv, DataTypes
<1>5. InodeLocks'
  BY Zenon, LocksSame DEF DataInv
<1> QED
  BY Zenon, <1>3, <1>4, <1>5

\* The entries of an indirect block that is not changed.
LEMMA EntryKept ==
  ASSUME DataTypes, NEW j \in Files, NEW m \in 0..(BSIZE - 1),
         addrs'[j][NDIRECT] = addrs[j][NDIRECT], Freed(j)' = Freed(j),
         NEW b, \A d \in Blocks : d # b => blk'[d] = blk[d], addrs[j][NDIRECT] # b
  PROVE  Entry(j, m)' = Entry(j, m)
<1>1. addrs[j][NDIRECT] \in 0..NBLOCKS
  BY Zenon, LastAddr DEF DataTypes
<1>2. addrs[j][NDIRECT] # 0 => blk'[addrs[j][NDIRECT]] = blk[addrs[j][NDIRECT]]
  BY Zenon, <1>1, BlockNumbers
<1> QED
  BY Zenon, <1>2 DEF Entry

\* A direct block is freed.
LEMMA FreeDirectKeeps ==
  ASSUME DataInv, NEW p \in Callers, dpc[p] = "itrunc", NEW k \in 0..(NDIRECT - 1),
         addrs[op[p].i][k] # 0, bfree(p, addrs[op[p].i][k]),
         addrs' = [addrs EXCEPT ![op[p].i][k] = 0], UNCHANGED <<size, ilocked, dpc, op, off>>
  PROVE  DataInv' /\ MapsKept
<1> DEFINE i == op[p].i
           b == addrs[i][k]
<1>1. i \in Files
  BY Zenon DEF DataInv, InodeLocks, HasInode
<1>2. k \in 0..NDIRECT /\ k \in 0..MAXFILE /\ k # NDIRECT /\ 0 \in 0..NBLOCKS /\ NDIRECT \in 0..NDIRECT
      /\ \A m \in 0..(BSIZE - 1) : NDIRECT + 1 + m # k
  BY Sizes
<1>3. b \in Blocks /\ b # 0 /\ \A j \in Files, m \in 0..NDIRECT : addrs[j][m] = b => j = i /\ m = k
  BY Zenon, <1>1, <1>2, AddrFacts
<1>4. Held[<<i, k>>] = b
  BY Zenon, <1>1, <1>2, HeldIs DEF HeldView, DataInv
<1> HIDE DEF b, i
<1>5. /\ addrs' \in [Files -> [0..NDIRECT -> 0..NBLOCKS]]
      /\ addrs'[i][k] = 0 /\ \A m \in 0..NDIRECT : m # k => addrs'[i][m] = addrs[i][m]
      /\ \A j \in Files : j # i => addrs'[j] = addrs[j]
  BY Zenon, <1>1, <1>2, AddrSet DEF DataInv, i
<1>6. op' \in [Callers -> Ops] /\ \A q \in Callers : op'[q] = op[q]
  BY Zenon DEF DataInv, DataTypes
<1>7. DataTypes' /\ InodeLocks' /\ \A d \in Blocks : d # b => blk'[d] = blk[d]
  BY Zenon, <1>3, <1>5, <1>6, FreeTypes DEF b, i
<1>8. ASSUME NEW j \in Files, NEW m \in 0..(BSIZE - 1)
      PROVE  Entry(j, m)' = IF j = i /\ NDIRECT + 1 + m = k THEN 0 ELSE Entry(j, m)
  <2>1. Freed(j)' = Freed(j)
    BY Zenon, <1>6, <1>7, FreedKept DEF DataInv
  <2>2. addrs'[j][NDIRECT] = addrs[j][NDIRECT] /\ addrs[j][NDIRECT] # b
    BY Zenon, <1>2, <1>3, <1>5
  <2> QED
    BY Zenon, <1>2, <1>7, <2>1, <2>2, EntryKept DEF DataInv
<1>9. \A j \in Files, m \in 0..NDIRECT : addrs'[j][m] = IF j = i /\ m = k THEN 0 ELSE addrs[j][m]
  BY Zenon, <1>5
<1>10. Held' = [Held EXCEPT ![<<i, k>>] = 0]
  <2>1. OneChange(i, k, 0)
    BY Zenon, <1>8, <1>9 DEF OneChange
  <2>2. i \in Files /\ k \in 0..MAXFILE /\ DataTypes' /\ InodeLocks'
    BY Zenon, <1>1, <1>2, <1>7
  <2> QED
    BY Zenon, <2>1, <2>2, HeldSet
<1>11. addrs'[i][NDIRECT] \in {addrs[i][NDIRECT], 0} \ {b}
  <2>1. addrs'[i][NDIRECT] = addrs[i][NDIRECT]
    BY Zenon, <1>2, <1>5
  <2>2. addrs[i][NDIRECT] # b
    BY Zenon, <1>1, <1>2, <1>3
  <2> QED
    BY Zenon, <2>1, <2>2
<1>12. Frees(p, k, b)
  BY Zenon, <1>5, <1>6, <1>10, <1>11 DEF Frees, i, b
<1> QED
  BY Zenon, <1>1, <1>2, <1>3, <1>4, <1>5, <1>6, <1>12, FreesKeeps DEF i

\* The indirect block is freed, after all it lists.
LEMMA FreeIndirectKeeps ==
  ASSUME DataInv, NEW p \in Callers, dpc[p] = "itrunc", Indirect(op[p].i, op[p].tot) = {},
         addrs[op[p].i][NDIRECT] # 0, bfree(p, addrs[op[p].i][NDIRECT]),
         addrs' = [addrs EXCEPT ![op[p].i][NDIRECT] = 0], UNCHANGED <<size, ilocked, dpc, op, off>>
  PROVE  DataInv' /\ MapsKept
<1> DEFINE i == op[p].i
           b == addrs[i][NDIRECT]
<1>1. i \in Files
  BY Zenon DEF DataInv, InodeLocks, HasInode
<1>2. NDIRECT \in 0..NDIRECT /\ NDIRECT \in 0..MAXFILE /\ 0 \in 0..NBLOCKS
      /\ \A m \in 0..(BSIZE - 1) : NDIRECT + 1 + m # NDIRECT
  BY Sizes
<1>3. b \in Blocks /\ b # 0 /\ \A j \in Files, m \in 0..NDIRECT : addrs[j][m] = b => j = i /\ m = NDIRECT
  BY Zenon, <1>1, <1>2, AddrFacts
<1>4. Held[<<i, NDIRECT>>] = b
  BY Zenon, <1>1, <1>2, HeldIs DEF HeldView, DataInv
<1>5. /\ addrs' \in [Files -> [0..NDIRECT -> 0..NBLOCKS]]
      /\ addrs'[i][NDIRECT] = 0 /\ \A m \in 0..NDIRECT : m # NDIRECT => addrs'[i][m] = addrs[i][m]
      /\ \A j \in Files : j # i => addrs'[j] = addrs[j]
  BY Zenon, <1>1, <1>2, AddrSet DEF DataInv
<1>6. \A m \in 0..(BSIZE - 1) : Entry(i, m) = 0
  <2>1. Freed(i) = op[p].tot /\ op[p].tot \in Nat
    <3>1. op[p] \in Ops
      BY Zenon DEF DataInv, DataTypes
    <3>2. op[p].tot \in Nat
      BY <3>1 DEF Ops
    <3> QED
      BY Zenon, <1>1, <3>2, FreedIs DEF FreedView, DataInv
  <2>2. ASSUME NEW m \in 0..(BSIZE - 1), op[p].tot <= m PROVE blk[b][m] = 0
    <3>1. m \in op[p].tot..NINDIRECT - 1
      BY <2>1, <2>2, Sizes
    <3> QED
      BY Zenon, <3>1 DEF Indirect
  <2> QED
    BY Zenon, <2>1, <2>2 DEF Entry
<1> HIDE DEF b, i
<1>7. op' \in [Callers -> Ops] /\ \A q \in Callers : op'[q] = op[q]
  BY Zenon DEF DataInv, DataTypes
<1>8. DataTypes' /\ InodeLocks' /\ \A d \in Blocks : d # b => blk'[d] = blk[d]
  BY Zenon, <1>3, <1>5, <1>7, FreeTypes DEF b, i
<1>9. ASSUME NEW j \in Files, NEW m \in 0..(BSIZE - 1)
      PROVE  Entry(j, m)' = Entry(j, m)
  <2>1. CASE j = i
    BY Zenon, <1>5, <1>6, <2>1 DEF Entry
  <2>2. CASE j # i
    <3>1. Freed(j)' = Freed(j)
      BY Zenon, <1>7, <1>8, FreedKept DEF DataInv
    <3>2. addrs'[j][NDIRECT] = addrs[j][NDIRECT] /\ addrs[j][NDIRECT] # b
      BY Zenon, <1>2, <1>3, <1>5, <2>2
    <3> QED
      BY Zenon, <1>8, <3>1, <3>2, EntryKept DEF DataInv
  <2> QED
    BY Zenon, <2>1, <2>2
<1>10. /\ \A j \in Files, m \in 0..NDIRECT : addrs'[j][m] = IF j = i /\ m = NDIRECT THEN 0 ELSE addrs[j][m]
      /\ \A j \in Files, m \in 0..(BSIZE - 1) :
           Entry(j, m)' = IF j = i /\ NDIRECT + 1 + m = NDIRECT THEN 0 ELSE Entry(j, m)
  BY Zenon, <1>2, <1>5, <1>9
<1>11. Held' = [Held EXCEPT ![<<i, NDIRECT>>] = 0]
  <2>1. OneChange(i, NDIRECT, 0)
    BY Zenon, <1>10 DEF OneChange
  <2>2. i \in Files /\ NDIRECT \in 0..MAXFILE /\ DataTypes' /\ InodeLocks'
    BY Zenon, <1>1, <1>2, <1>8
  <2> QED
    BY Zenon, <2>1, <2>2, HeldSet
<1>12. addrs'[i][NDIRECT] \in {addrs[i][NDIRECT], 0} \ {b}
  BY Zenon, <1>3, <1>5
<1>13. Frees(p, NDIRECT, b)
  BY Zenon, <1>5, <1>7, <1>11, <1>12 DEF Frees, i, b
<1> QED
  BY Zenon, <1>1, <1>2, <1>3, <1>4, <1>5, <1>7, <1>13, FreesKeeps DEF i

\* Entry n is the first in use, from the one the loop of itrunc is at.
FirstEntry(p, n) ==
  \A m \in 0..(BSIZE - 1) : op[p].tot <= m /\ m < n => blk[addrs[op[p].i][NDIRECT]][m] = 0

\* A block that the indirect block lists is freed.
LEMMA FreeEntryKeeps ==
  ASSUME DataInv, NEW p \in Callers, dpc[p] = "itrunc", addrs[op[p].i][NDIRECT] # 0,
         NEW n \in 0..(BSIZE - 1), op[p].tot <= n, blk[addrs[op[p].i][NDIRECT]][n] # 0,
         FirstEntry(p, n),
         bfree(p, blk[addrs[op[p].i][NDIRECT]][n]),
         op' = [op EXCEPT ![p].tot = n + 1], UNCHANGED <<addrs, size, ilocked, dpc, off>>
  PROVE  DataInv' /\ MapsKept
<1>1. PICK i \in Files : i = op[p].i
  BY Zenon DEF DataInv, InodeLocks, HasInode
<1> DEFINE ind == addrs[i][NDIRECT]
           b == blk[ind][n]
           k == NDIRECT + 1 + n
           o == [op[p] EXCEPT !.tot = n + 1]
<1>2. i \in Files
  OBVIOUS
<1>3. /\ NDIRECT \in 0..NDIRECT /\ NDIRECT \in 0..MAXFILE /\ k \in 0..MAXFILE /\ k # NDIRECT
      /\ k \notin 0..NDIRECT /\ \A m \in 0..(BSIZE - 1) : NDIRECT + 1 + m = k <=> m = n
  BY Zenon, EntryPlace
<1>4. op \in [Callers -> Ops] /\ op[p] \in Ops /\ op[p].tot \in Nat
  <2>1. op \in [Callers -> Ops] /\ op[p] \in Ops
    BY Zenon DEF DataInv, DataTypes
  <2> QED
    BY <2>1 DEF Ops
<1>5. o \in Ops /\ o.i = op[p].i /\ o.tot = n + 1
  <2>1. n + 1 \in Nat
    BY Sizes
  <2> QED
    BY <1>4, <2>1 DEF Ops
<1>6. op' \in [Callers -> Ops] /\ op'[p] = o /\ \A q \in Callers : q # p => op'[q] = op[q]
  <2>1. op' = [op EXCEPT ![p] = o]
    BY Zenon
  <2> HIDE DEF o
  <2> QED
    BY Zenon, <1>4, <1>5, <2>1
<1> HIDE DEF o
<1>7. HeldView /\ Freed(i) = op[p].tot
  BY Zenon, <1>1, <1>2, HeldIs, FreedIs DEF FreedView, DataInv
<1>8. Held[<<i, k>>] = b /\ Held[<<i, NDIRECT>>] = ind /\ b # 0
  <2>1. Held[<<i, k>>] = Entry(i, n) /\ Held[<<i, NDIRECT>>] = ind
    BY Zenon, <1>2, <1>3, <1>7 DEF HeldView
  <2>2. Entry(i, n) = b
    BY Zenon, <1>1, <1>7 DEF Entry
  <2> QED
    BY Zenon, <1>1, <2>1, <2>2
<1>9. <<i, k>> \in AllPlaces /\ b \in used /\ b \in Blocks
  <2>1. <<i, k>> \in AllPlaces
    BY Zenon, <1>2, <1>3 DEF AllPlaces
  <2> QED
    BY Zenon, <1>8, <2>1, HeldOnce DEF DataInv, DataTypes
<1> HIDE DEF k
<1>10. ASSUME NEW j \in Files PROVE addrs[j][NDIRECT] # b
  <2>1. <<j, NDIRECT>> \in AllPlaces /\ Held[<<j, NDIRECT>>] = addrs[j][NDIRECT]
    BY Zenon, <1>3, <1>7 DEF HeldView, AllPlaces
  <2>2. <<j, NDIRECT>> # <<i, k>>
    BY <1>3
  <2> QED
    BY Zenon, <1>8, <1>9, <2>1, <2>2, HeldOnce DEF DataInv
<1> HIDE DEF b, ind
<1>11. addrs' \in [Files -> [0..NDIRECT -> 0..NBLOCKS]] /\ addrs' = addrs
  BY Zenon DEF DataInv, DataTypes
<1>12. \A q \in Callers : op'[q].i = op[q].i
  BY Zenon, <1>5, <1>6
<1>13. DataTypes' /\ InodeLocks' /\ \A d \in Blocks : d # b => blk'[d] = blk[d]
  BY Zenon, <1>6, <1>9, <1>11, <1>12, <1>1, FreeTypes DEF b, ind
<1>14. Freed(i)' = n + 1
  <2>1. FreedView'
    BY <1>13, FreedIs, PTL
  <2>2. dpc'[p] = "itrunc" /\ op'[p].i = i /\ op'[p].tot = n + 1
    BY Zenon, <1>1, <1>5, <1>6
  <2> QED
    BY Zenon, <2>1, <2>2 DEF FreedView
<1>15. ind \in Blocks /\ ind # 0 /\ blk'[ind] = blk[ind] /\ addrs[i][NDIRECT] = ind
  <2>1. addrs[i][NDIRECT] \in 0..NBLOCKS
    BY Zenon, <1>2, LastAddr DEF DataInv, DataTypes
  <2> QED
    BY Zenon, <1>1, <1>10, <1>13, <2>1, BlockNumbers DEF ind
<1>16. ASSUME NEW j \in Files, NEW m \in 0..(BSIZE - 1)
       PROVE  Entry(j, m)' = IF j = i /\ NDIRECT + 1 + m = k THEN 0 ELSE Entry(j, m)
  <2>1. CASE j # i
    <3>1. Freed(j)' = Freed(j)
      <4>1. ASSUME NEW q \in Callers
            PROVE  /\ dpc'[q] = "itrunc" /\ op'[q].i = j <=> dpc[q] = "itrunc" /\ op[q].i = j
                   /\ dpc[q] = "itrunc" /\ op[q].i = j => op'[q] = op[q]
        BY Zenon, <1>1, <1>6, <1>12, <2>1
      <4> QED
        BY Zenon, <1>13, <4>1, FreedSame DEF DataInv
    <3> QED
      BY Zenon, <1>10, <1>11, <1>13, <2>1, <3>1, EntryKept DEF DataInv
  <2>2. CASE j = i
    <3>1. Entry(i, m)' = IF n + 1 <= m THEN blk[ind][m] ELSE 0
      BY Zenon, <1>11, <1>14, <1>15 DEF Entry
    <3>2. Entry(i, m) = IF op[p].tot <= m THEN blk[ind][m] ELSE 0
      BY Zenon, <1>7, <1>15 DEF Entry
    <3>3. CASE m < n
      <4>1. ~(n + 1 <= m) /\ m # n
        BY <3>3, Sizes
      <4>2. op[p].tot <= m => blk[ind][m] = 0
        BY Zenon, <1>1, <3>3 DEF ind, FirstEntry
      <4> QED
        BY Zenon, <1>3, <2>2, <3>1, <3>2, <4>1, <4>2
    <3>4. CASE m = n
      <4>1. ~(n + 1 <= m)
        BY <3>4
      <4> QED
        BY Zenon, <1>3, <2>2, <3>1, <3>4, <4>1
    <3>5. CASE n < m
      <4>1. n + 1 <= m /\ op[p].tot <= m /\ m # n
        BY <1>4, <3>5
      <4> QED
        BY Zenon, <1>3, <2>2, <3>1, <3>2, <4>1
    <3>6. m < n \/ m = n \/ n < m
      OBVIOUS
    <3> QED
      BY Zenon, <3>3, <3>4, <3>5, <3>6
  <2> QED
    BY Zenon, <2>1, <2>2
<1>17. \A j \in Files, m \in 0..NDIRECT : addrs'[j][m] = IF j = i /\ m = k THEN 0 ELSE addrs[j][m]
  BY Zenon, <1>3, <1>11
<1>18. Held' = [Held EXCEPT ![<<i, k>>] = 0]
  <2>1. OneChange(i, k, 0)
    BY Zenon, <1>16, <1>17 DEF OneChange
  <2>2. i \in Files /\ k \in 0..MAXFILE /\ DataTypes' /\ InodeLocks'
    BY Zenon, <1>2, <1>3, <1>13
  <2> QED
    BY Zenon, <2>1, <2>2, HeldSet
<1>19. addrs'[i][NDIRECT] \in {addrs[i][NDIRECT], 0} \ {b}
  BY Zenon, <1>2, <1>10, <1>11
<1>20. Frees(p, k, b)
  BY Zenon, <1>6, <1>11, <1>12, <1>18, <1>19, <1>1 DEF Frees, b, ind
<1> QED
  BY Zenon, <1>1, <1>2, <1>3, <1>6, <1>8, <1>11, <1>20, FreesKeeps

\* Step of bmap that puts the free block b into the empty place k of its file.
Allocates(p, k, b) ==
  /\ dpc[p] = "writei" /\ b \in Blocks /\ b \notin used /\ used' = used \cup {b} /\ ~dpanic'
  /\ Held[<<op[p].i, k>>] = 0 /\ Held' = [Held EXCEPT ![<<op[p].i, k>>] = b]
  /\ UNCHANGED <<size, ilocked, off, dpc, op>>
  /\ \A j \in Files, bn \in 0..(MAXFILE - 1) :
       ~Truncating(j) /\ Mapped(j, bn) # 0 =>
         /\ Mapped(j, bn)' = Mapped(j, bn)
         /\ blk'[Mapped(j, bn)] = blk[Mapped(j, bn)]
  /\ \A j \in Files : addrs[j][NDIRECT] # 0 => addrs'[j][NDIRECT] = addrs[j][NDIRECT]

LEMMA AllocatesKeeps ==
  ASSUME DataInv, NEW p \in Callers, NEW k \in 0..MAXFILE, NEW b, Allocates(p, k, b),
         DataTypes', InodeLocks', IndirectTyped'
  PROVE  DataInv' /\ MapsKept
<1> DEFINE x == <<op[p].i, k>>
<1>1. op[p].i \in Files
  BY Zenon, WriterAlone DEF Allocates, Writing
<1>2. WriteCalls'
  BY Zenon DEF Allocates, DataInv, WriteCalls
<1>3. Exact(Held, used)'
  <2>1. x \in DOMAIN Held /\ Held[x] = 0 /\ Exact(Held, used)
    BY Zenon, <1>1 DEF Held, AllPlaces, Allocates, DataInv
  <2>2. 0 \notin used /\ b # 0
    BY Zenon, BlockNumbers DEF Allocates, DataInv, DataTypes
  <2>3. Exact([Held EXCEPT ![x] = b], used \cup {b})
    BY Zenon, <2>1, <2>2, ExactAdd DEF Allocates
  <2>4. Held' = [Held EXCEPT ![x] = b] /\ used' = used \cup {b}
    BY Zenon DEF Allocates
  <2> QED
    BY Zenon, <2>3, <2>4 DEF Exact
<1>4. \A j \in Files : Truncating(j)' <=> Truncating(j)
  BY Zenon DEF Truncating, Allocates
<1>5. ASSUME NEW j \in Files, NEW y \in 0..(MAXFILE * BSIZE - 1), ~Truncating(j), Good(j, y)
      PROVE  Good(j, y)'
  <2>1. y \div BSIZE \in 0..(MAXFILE - 1) /\ Mapped(j, y \div BSIZE) # 0
    BY Zenon, <1>5, BnFits DEF Good
  <2>2. /\ Mapped(j, y \div BSIZE)' = Mapped(j, y \div BSIZE)
        /\ blk'[Mapped(j, y \div BSIZE)] = blk[Mapped(j, y \div BSIZE)]
    BY Zenon, <1>5, <2>1 DEF Allocates
  <2> QED
    BY Zenon, <1>5, <2>2, GoodStays
<1>6. Contents'
  <2>1. size' = size /\ off' = off /\ dpc' = dpc /\ op' = op
    BY Zenon DEF Allocates
  <2> QED
    BY Zenon, <1>4, <1>5, <2>1, ContentsNext
<1>7. MapsKept
  BY Zenon DEF MapsKept, Allocates
<1> QED
  BY Zenon, <1>2, <1>3, <1>6, <1>7 DEF DataInv, Allocates

\* bmap records a new block in the inode: a direct block or the indirect one.
LEMMA NewAddrKeeps ==
  ASSUME DataInv, NEW p \in Callers, dpc[p] = "writei", NEW k \in 0..NDIRECT,
         addrs[op[p].i][k] = 0, NEW b \in Blocks, b \notin used, used' = used \cup {b},
         addrs' = [addrs EXCEPT ![op[p].i][k] = b], blk' = [blk EXCEPT ![b] = Zeros],
         ~dpanic', UNCHANGED <<size, ilocked, off, dpc, op>>
  PROVE  DataInv' /\ MapsKept
<1>1. PICK i \in Files : i = op[p].i /\ ~Truncating(i)
  BY Zenon, WriterAlone DEF Writing
<1>2. i \in Files /\ ~Truncating(i)
  BY Zenon, <1>1
<1>3. /\ NDIRECT \in 0..NDIRECT /\ k \in 0..MAXFILE /\ Zeros \in [0..(BSIZE - 1) -> Int]
      /\ \A m \in 0..(BSIZE - 1) : NDIRECT + 1 + m # k
  BY Zenon, AddrPlace, ZerosType
<1>4. b # 0 /\ b \in 0..NBLOCKS
  BY Zenon, BlockNumbers
<1>5. /\ addrs' \in [Files -> [0..NDIRECT -> 0..NBLOCKS]]
      /\ addrs'[i][k] = b /\ \A m \in 0..NDIRECT : m # k => addrs'[i][m] = addrs[i][m]
      /\ \A j \in Files : j # i => addrs'[j] = addrs[j]
  BY Zenon, <1>1, <1>2, <1>4, AddrSet DEF DataInv
<1>6. /\ blk' \in [Blocks -> [0..(BSIZE - 1) -> Int]]
      /\ blk'[b] = Zeros /\ \A d \in Blocks : d # b => blk'[d] = blk[d]
  BY Zenon, <1>3, BlockSet DEF DataInv
<1>7. DataTypes' /\ InodeLocks'
  <2>1. DataTypes'
    BY Zenon, <1>5, <1>6 DEF DataInv, DataTypes
  <2> QED
    BY Zenon, <2>1, LocksSame DEF DataInv
<1>8. \A j \in Files : Freed(j)' = Freed(j) /\ addrs[j][NDIRECT] # b
  <2>1. \A j \in Files : Freed(j)' = Freed(j)
    BY Zenon, <1>7, FreedKept DEF DataInv
  <2> QED
    BY Zenon, <1>4, <2>1, IndirectFacts
<1>9. \A m \in 0..(BSIZE - 1) : Zeros[m] = 0
  BY DEF Zeros
<1>10. ASSUME NEW j \in Files, ~(j = i /\ k = NDIRECT)
      PROVE  addrs'[j][NDIRECT] = addrs[j][NDIRECT]
  BY Zenon, <1>3, <1>5, <1>10
<1>11. ASSUME NEW j \in Files, NEW m \in 0..(BSIZE - 1) PROVE Entry(j, m)' = Entry(j, m)
  <2>1. CASE ~(j = i /\ k = NDIRECT)
    BY Zenon, <1>6, <1>8, <1>10, <2>1, EntryKept DEF DataInv
  <2>2. CASE j = i /\ k = NDIRECT
    <3>1. Entry(i, m) = 0
      BY Zenon, <1>1, <2>2 DEF Entry
    <3>2. addrs'[i][NDIRECT] = b /\ blk'[b][m] = 0
      BY Zenon, <1>5, <1>6, <1>9, <2>2
    <3>3. Entry(i, m)' = 0
      BY Zenon, <3>2 DEF Entry
    <3> QED
      BY Zenon, <2>2, <3>1, <3>3
  <2> QED
    BY Zenon, <2>1, <2>2
<1>12. IndirectTyped'
  <2>1. ASSUME NEW j \in Files, addrs'[j][NDIRECT] # 0, NEW m \in 0..(BSIZE - 1)
        PROVE  blk'[addrs'[j][NDIRECT]][m] \in 0..NBLOCKS
    <3>1. CASE ~(j = i /\ k = NDIRECT)
      <4>1. addrs'[j][NDIRECT] = addrs[j][NDIRECT] /\ addrs[j][NDIRECT] # b
        BY Zenon, <1>8, <1>10, <3>1
      <4>2. addrs[j][NDIRECT] \in Blocks
        BY Zenon, <2>1, <4>1, IndirectFacts
      <4> QED
        BY Zenon, <1>6, <2>1, <4>1, <4>2 DEF DataInv, IndirectTyped
    <3>2. CASE j = i /\ k = NDIRECT
      <4>1. blk'[addrs'[j][NDIRECT]][m] = 0
        <5>1. addrs'[j][NDIRECT] = b
          BY Zenon, <1>5, <3>2
        <5> QED
          BY Zenon, <1>6, <1>9, <5>1
      <4>2. 0 \in 0..NBLOCKS
        BY Sizes
      <4> QED
        BY Zenon, <4>1, <4>2
    <3> QED
      BY Zenon, <3>1, <3>2
  <2> QED
    BY Zenon, <2>1 DEF IndirectTyped
<1>13. /\ \A j \in Files, m \in 0..NDIRECT : addrs'[j][m] = IF j = i /\ m = k THEN b ELSE addrs[j][m]
       /\ \A j \in Files, m \in 0..(BSIZE - 1) :
            Entry(j, m)' = IF j = i /\ NDIRECT + 1 + m = k THEN b ELSE Entry(j, m)
  BY Zenon, <1>3, <1>5, <1>11
<1>14. Held' = [Held EXCEPT ![<<i, k>>] = b]
  <2>1. OneChange(i, k, b)
    BY Zenon, <1>13 DEF OneChange
  <2> QED
    BY Zenon, <1>2, <1>3, <1>7, <2>1, HeldSet
<1>15. Held[<<i, k>>] = 0
  BY Zenon, <1>1, <1>2, HeldIs DEF HeldView, DataInv
<1>16. ASSUME NEW j \in Files, NEW bn \in 0..(MAXFILE - 1), ~Truncating(j), Mapped(j, bn) # 0
       PROVE  Mapped(j, bn)' = Mapped(j, bn) /\ blk'[Mapped(j, bn)] = blk[Mapped(j, bn)]
  <2>1. blk'[Mapped(j, bn)] = blk[Mapped(j, bn)]
    <3>1. Mapped(j, bn) \in used /\ Mapped(j, bn) \in Blocks
      BY Zenon, <1>16, MapFacts
    <3> QED
      BY Zenon, <1>6, <3>1
  <2>2. CASE bn < NDIRECT
    <3>1. bn \in 0..NDIRECT /\ addrs[j][bn] # 0
      BY Zenon, <1>16, <2>2, PlaceOfIs DEF Mapped
    <3>2. addrs'[j][bn] = addrs[j][bn]
      BY Zenon, <1>1, <1>5, <3>1
    <3> QED
      BY Zenon, <2>1, <2>2, <3>2 DEF Mapped
  <2>3. CASE ~(bn < NDIRECT)
    <3>1. addrs[j][NDIRECT] # 0
      BY Zenon, <1>16, <2>3 DEF Mapped
    <3>2. addrs[j][NDIRECT] \in Blocks /\ ~(j = i /\ k = NDIRECT)
      BY Zenon, <1>1, <3>1, IndirectFacts
    <3>3. addrs'[j][NDIRECT] = addrs[j][NDIRECT] /\ blk'[addrs[j][NDIRECT]] = blk[addrs[j][NDIRECT]]
      BY Zenon, <1>6, <1>8, <1>10, <3>2
    <3>4. Mapped(j, bn) = blk[addrs[j][NDIRECT]][bn - NDIRECT]
      BY Zenon, <2>3, <3>1 DEF Mapped
    <3>5. Mapped(j, bn)' = blk'[addrs'[j][NDIRECT]][bn - NDIRECT]
      BY Zenon, <2>3, <3>1, <3>3 DEF Mapped
    <3> QED
      BY Zenon, <2>1, <3>3, <3>4, <3>5
  <2> QED
    BY Zenon, <2>2, <2>3
<1>17. \A j \in Files : addrs[j][NDIRECT] # 0 => addrs'[j][NDIRECT] = addrs[j][NDIRECT]
  BY Zenon, <1>1, <1>10
<1>18. Allocates(p, k, b)
  BY Zenon, <1>17, <1>14, <1>15, <1>16, <1>1 DEF Allocates
<1> QED
  BY Zenon, <1>3, <1>7, <1>12, <1>18, AllocatesKeeps

\* bmap records a new block in the indirect block.
NewEntry(i, e, b) == blk' = [blk EXCEPT ![b] = Zeros, ![addrs[i][NDIRECT]][e] = b]

LEMMA NewEntryKeeps ==
  ASSUME DataInv, NEW p \in Callers, dpc[p] = "writei", NEW e \in 0..(BSIZE - 1),
         addrs[op[p].i][NDIRECT] # 0, blk[addrs[op[p].i][NDIRECT]][e] = 0,
         NEW b \in Blocks, b \notin used, used' = used \cup {b},
         NewEntry(op[p].i, e, b),
         ~dpanic', UNCHANGED <<addrs, size, ilocked, off, dpc, op>>
  PROVE  DataInv' /\ MapsKept
<1>1. PICK i \in Files : i = op[p].i /\ ~Truncating(i)
  BY Zenon, WriterAlone DEF Writing
<1> DEFINE ind == addrs[i][NDIRECT]
           c == [blk EXCEPT ![b] = Zeros]
           d == [blk[ind] EXCEPT ![e] = b]
           k == NDIRECT + 1 + e
<1>2. i \in Files /\ ~Truncating(i)
  BY Zenon, <1>1
<1>3. /\ NDIRECT \in 0..NDIRECT /\ k \in 0..MAXFILE /\ Zeros \in [0..(BSIZE - 1) -> Int]
      /\ k \notin 0..NDIRECT /\ \A m \in 0..(BSIZE - 1) : NDIRECT + 1 + m = k <=> m = e
  BY Zenon, EntryPlace, ZerosType
<1>4. b # 0 /\ b \in 0..NBLOCKS /\ b \in Int
  <2>1. b # 0 /\ b \in 0..NBLOCKS /\ b \in Nat
    BY Zenon, BlockNumbers
  <2> QED
    BY <2>1
<1>5. /\ ind \in used /\ ind \in Blocks /\ ind # b
      /\ \A j \in Files : addrs[j][NDIRECT] = ind => j = i
  BY Zenon, <1>1, <1>2, IndirectFacts
<1>6. blk \in [Blocks -> [0..(BSIZE - 1) -> Int]]
  BY Zenon DEF DataInv, DataTypes
<1>7. d \in [0..(BSIZE - 1) -> Int] /\ d[e] = b /\ \A m \in 0..(BSIZE - 1) : m # e => d[m] = blk[ind][m]
  BY Zenon, <1>4, <1>5, <1>6
<1>8. /\ c \in [Blocks -> [0..(BSIZE - 1) -> Int]] /\ c[ind] = blk[ind]
      /\ \A a \in Blocks : a # b => c[a] = blk[a]
  BY Zenon, <1>3, <1>5, <1>6
<1>9. blk' = [c EXCEPT ![ind] = d]
  <2>1. blk' = [c EXCEPT ![ind] = [c[ind] EXCEPT ![e] = b]]
    BY Zenon, <1>1 DEF NewEntry
  <2> QED
    BY Zenon, <1>8, <2>1
<1> HIDE DEF c, d, k
<1>10. /\ blk' \in [Blocks -> [0..(BSIZE - 1) -> Int]]
      /\ blk'[ind] = d /\ \A a \in Blocks : a # b /\ a # ind => blk'[a] = blk[a]
  <2> HIDE DEF ind
  <2>1. /\ blk' \in [Blocks -> [0..(BSIZE - 1) -> Int]] /\ blk'[ind] = d
        /\ \A a \in Blocks : a # ind => blk'[a] = c[a]
    BY Zenon, <1>5, <1>7, <1>8, <1>9, FunctionSet
  <2> QED
    BY Zenon, <1>8, <2>1
<1>11. DataTypes' /\ InodeLocks'
  <2>1. DataTypes'
    BY Zenon, <1>10 DEF DataInv, DataTypes
  <2> QED
    BY Zenon, <2>1, LocksSame DEF DataInv
<1>12. \A j \in Files : Freed(j)' = Freed(j) /\ addrs[j][NDIRECT] # b
  <2>1. \A j \in Files : Freed(j)' = Freed(j)
    BY Zenon, <1>11, FreedKept DEF DataInv
  <2> QED
    BY Zenon, <1>4, <2>1, IndirectFacts
<1>13. ASSUME NEW j \in Files, j # i, addrs[j][NDIRECT] # 0
       PROVE  blk'[addrs[j][NDIRECT]] = blk[addrs[j][NDIRECT]]
  <2>1. addrs[j][NDIRECT] \in Blocks /\ addrs[j][NDIRECT] # ind
    BY Zenon, <1>5, <1>13, IndirectFacts
  <2> QED
    BY Zenon, <1>10, <1>12, <2>1
<1>14. ASSUME NEW j \in Files, NEW m \in 0..(BSIZE - 1)
       PROVE  Entry(j, m)' = IF j = i /\ NDIRECT + 1 + m = k THEN b ELSE Entry(j, m)
  <2>1. CASE j # i
    <3>1. Freed(j)' = Freed(j) /\ addrs'[j][NDIRECT] = addrs[j][NDIRECT]
      BY Zenon, <1>12
    <3>2. Entry(j, m)' = Entry(j, m)
      <4>1. addrs' = addrs
        OBVIOUS
      <4>2. CASE addrs[j][NDIRECT] = 0
        BY Zenon, <4>1, <4>2 DEF Entry
      <4>3. CASE addrs[j][NDIRECT] # 0
        <5>1. Entry(j, m) = IF Freed(j) <= m THEN blk[addrs[j][NDIRECT]][m] ELSE 0
          BY Zenon, <4>3 DEF Entry
        <5>2. Entry(j, m)' = IF Freed(j) <= m THEN blk'[addrs[j][NDIRECT]][m] ELSE 0
          BY Zenon, <3>1, <4>1, <4>3 DEF Entry
        <5>3. blk'[addrs[j][NDIRECT]] = blk[addrs[j][NDIRECT]]
          BY Zenon, <1>13, <2>1, <4>3
        <5> QED
          BY Zenon, <5>1, <5>2, <5>3
      <4> QED
        BY Zenon, <4>2, <4>3
    <3> QED
      BY Zenon, <2>1, <3>2
  <2>2. CASE j = i
    <3>1. Freed(i) = 0 /\ 0 <= m
      <4>1. Freed(i) = 0
        BY Zenon, <1>2, FreedIs DEF FreedView, DataInv
      <4>2. 0 <= m
        OBVIOUS
      <4> QED
        BY Zenon, <4>1, <4>2
    <3>2. Entry(i, m) = blk[ind][m] /\ Entry(i, m)' = d[m]
      BY Zenon, <1>1, <1>2, <1>10, <1>12, <3>1 DEF Entry
    <3> QED
      BY Zenon, <1>3, <1>7, <2>2, <3>2
  <2> QED
    BY Zenon, <2>1, <2>2
<1>15. IndirectTyped'
  <2>1. ASSUME NEW j \in Files, addrs'[j][NDIRECT] # 0, NEW m \in 0..(BSIZE - 1)
        PROVE  blk'[addrs'[j][NDIRECT]][m] \in 0..NBLOCKS
    <3>1. CASE j # i
      BY Zenon, <1>13, <2>1, <3>1 DEF DataInv, IndirectTyped
    <3>2. CASE j = i
      <4>1. blk[ind][m] \in 0..NBLOCKS
        BY Zenon, <1>1, <1>2 DEF DataInv, IndirectTyped
      <4>2. blk'[addrs'[j][NDIRECT]][m] = d[m]
        BY Zenon, <1>10, <3>2
      <4> QED
        BY Zenon, <1>4, <1>7, <4>1, <4>2
    <3> QED
      BY Zenon, <3>1, <3>2
  <2> QED
    BY Zenon, <2>1 DEF IndirectTyped
<1>16. \A j \in Files, m \in 0..NDIRECT : addrs'[j][m] = IF j = i /\ m = k THEN b ELSE addrs[j][m]
  BY Zenon, <1>3
<1>17. Held' = [Held EXCEPT ![<<i, k>>] = b]
  <2>1. OneChange(i, k, b)
    BY Zenon, <1>14, <1>16 DEF OneChange
  <2>2. i \in Files /\ k \in 0..MAXFILE /\ DataTypes' /\ InodeLocks'
    BY Zenon, <1>2, <1>3, <1>11
  <2> QED
    BY Zenon, <2>1, <2>2, HeldSet
<1>18. Held[<<i, k>>] = 0
  <2>1. Held[<<i, k>>] = Entry(i, e)
    BY Zenon, <1>2, HeldIs DEF HeldView, DataInv, k
  <2> QED
    BY Zenon, <1>1, <2>1 DEF Entry
<1>19. ASSUME NEW j \in Files, NEW bn \in 0..(MAXFILE - 1), ~Truncating(j), Mapped(j, bn) # 0
       PROVE  Mapped(j, bn)' = Mapped(j, bn) /\ blk'[Mapped(j, bn)] = blk[Mapped(j, bn)]
  <2>1. blk'[Mapped(j, bn)] = blk[Mapped(j, bn)]
    <3>1. Mapped(j, bn) \in used /\ Mapped(j, bn) \in Blocks /\ Mapped(j, bn) # ind
      <4>1. Mapped(j, bn) \in used /\ Mapped(j, bn) \in Blocks
        BY Zenon, <1>19, MapFacts
      <4>2. addrs[i][NDIRECT] # Mapped(j, bn)
        BY Zenon, <1>2, <1>19, MapFacts
      <4> QED
        BY Zenon, <4>1, <4>2
    <3> QED
      BY Zenon, <1>10, <3>1
  <2>2. CASE bn < NDIRECT
    BY Zenon, <2>1, <2>2 DEF Mapped
  <2>3. CASE ~(bn < NDIRECT) /\ j # i
    <3>1. addrs[j][NDIRECT] # 0 /\ addrs'[j][NDIRECT] = addrs[j][NDIRECT]
      BY Zenon, <1>19, <2>3 DEF Mapped
    <3>2. blk'[addrs[j][NDIRECT]] = blk[addrs[j][NDIRECT]]
      BY Zenon, <1>13, <2>3, <3>1
    <3>3. Mapped(j, bn)' = Mapped(j, bn)
      <4>1. addrs' = addrs
        OBVIOUS
      <4>2. Mapped(j, bn) = blk[addrs[j][NDIRECT]][bn - NDIRECT]
        BY Zenon, <2>3, <3>1 DEF Mapped
      <4>3. Mapped(j, bn)' = blk'[addrs[j][NDIRECT]][bn - NDIRECT]
        BY Zenon, <2>3, <3>1, <4>1 DEF Mapped
      <4> QED
        BY Zenon, <3>2, <4>2, <4>3
    <3> QED
      BY Zenon, <2>1, <3>3
  <2>4. CASE ~(bn < NDIRECT) /\ j = i
    <3>1. Mapped(i, bn) = blk[ind][bn - NDIRECT] /\ bn - NDIRECT \in 0..(BSIZE - 1)
      BY Zenon, <1>1, <2>4, PlaceOfIs DEF Mapped
    <3>2. bn - NDIRECT # e
      BY Zenon, <1>1, <1>19, <2>4, <3>1
    <3>3. Mapped(i, bn)' = d[bn - NDIRECT]
      BY Zenon, <1>1, <1>10, <2>4 DEF Mapped
    <3> QED
      BY Zenon, <1>7, <2>1, <2>4, <3>1, <3>2, <3>3
  <2> QED
    BY Zenon, <2>2, <2>3, <2>4
<1>20. Allocates(p, k, b)
  BY Zenon, <1>17, <1>18, <1>19, <1>1 DEF Allocates
<1> QED
  BY Zenon, <1>3, <1>11, <1>15, <1>20, AllocatesKeeps

\* Where a call of writei that has not finished is.
LEMMA InBlock ==
  ASSUME DataInv, NEW p \in Callers, dpc[p] = "writei", op[p].tot < op[p].n1
  PROVE  LET o == op[p] IN
         /\ Offset(o) \in 0..(MAXFILE * BSIZE - 1) /\ Offset(o) = off[o.f] + o.tot
         /\ Bn(o) \in 0..(MAXFILE - 1) /\ InRange(Bn(o))
         /\ Offset(o) % BSIZE \in 0..(BSIZE - 1) /\ Offset(o) = BSIZE * Bn(o) + (Offset(o) % BSIZE)
<1> DEFINE o == op[p]
<1>1. /\ off[o.f] \in Nat /\ o.tot \in Nat /\ o.n1 \in Nat
      /\ off[o.f] + o.n1 <= MAXFILE * BSIZE
  BY Zenon, WriterAlone DEF Writing
<1>2. Offset(o) \in 0..(MAXFILE * BSIZE - 1) /\ Offset(o) = off[o.f] + o.tot
  BY <1>1, Sizes DEF Offset
<1> HIDE DEF o
<1>3. Offset(o) \in Nat /\ Bn(o) \in 0..(MAXFILE - 1) /\ Offset(o) % BSIZE \in 0..(BSIZE - 1)
  BY Zenon, <1>2, BnFits DEF Bn
<1>4. InRange(Bn(o))
  BY <1>3, Sizes DEF InRange
<1>5. Offset(o) = BSIZE * Bn(o) + (Offset(o) % BSIZE)
  <2>1. BSIZE \in Nat \ {0}
    BY Sizes
  <2> QED
    BY Zenon, <1>3, <2>1, DivMod DEF Bn
<1> QED
  BY Zenon, <1>2, <1>3, <1>4, <1>5 DEF o

\* Part of a block is written.
Copied(p, b, c, o) ==
  /\ dpc[p] = "writei" /\ op[p].tot < op[p].n1 /\ b = Mapped(op[p].i, Bn(op[p])) /\ b # 0
  /\ blk' = CopyIn(op[p], b, c)
  /\ UNCHANGED <<used, addrs, size, ilocked, off, dpanic>>
  /\ o.i = op[p].i /\ o.f = op[p].f /\ o.n1 = op[p].n1 /\ o.rem = op[p].rem /\ o.tot <= o.n1
  /\ o.tot = op[p].tot \/ (o.tot = op[p].tot + c /\ (Offset(op[p]) % BSIZE) + c <= BSIZE)

LEMMA CopiedKeeps ==
  ASSUME DataInv, NEW p \in Callers, NEW b, NEW c \in Nat, NEW o \in Ops, NEW l \in Writing,
         Copied(p, b, c, o), Goto(p, l, o)
  PROVE  DataInv' /\ MapsKept
<1>1. PICK i \in Files : i = op[p].i
  BY Zenon, WriterAlone DEF Copied, Writing
<1> DEFINE bn == Bn(op[p])
           r == Offset(op[p]) % BSIZE
<1>2. dpc[p] = "writei" /\ dpc[p] \in Writing /\ op[p].tot < op[p].n1
  BY Zenon DEF Copied, Writing
<1>3. i \in Files /\ ~Truncating(i) /\ op[p].f \in OpenFiles /\ i = op[p].f.ip
  BY Zenon, <1>1, <1>2, WriterAlone
<1>4. /\ Offset(op[p]) \in 0..(MAXFILE * BSIZE - 1) /\ Offset(op[p]) = off[op[p].f] + op[p].tot
      /\ bn \in 0..(MAXFILE - 1) /\ r \in 0..(BSIZE - 1) /\ Offset(op[p]) = BSIZE * bn + r
  BY Zenon, <1>2, InBlock
<1>5. b = Mapped(i, bn) /\ b # 0
  BY Zenon, <1>1 DEF Copied
<1>6. /\ b \in Blocks /\ \A j \in Files : addrs[j][NDIRECT] # b
      /\ \A j \in Files, m \in 0..(MAXFILE - 1) : ~Truncating(j) /\ Mapped(j, m) = b => j = i /\ m = bn
  BY Zenon, <1>3, <1>4, <1>5, MapFacts DEF DataInv
<1> DEFINE d == [w \in 0..BSIZE - 1 |-> IF w - r \in 0..c - 1 THEN Datum(i, bn * BSIZE + w) ELSE blk[b][w]]
<1>7. blk' = [blk EXCEPT ![b] = d]
  BY Zenon, <1>1, <1>6 DEF Copied, CopyIn, DataInv, DataTypes
<1>8. d \in [0..(BSIZE - 1) -> Int]
  <2>1. blk[b] \in [0..(BSIZE - 1) -> Int]
    BY Zenon, <1>6 DEF DataInv, DataTypes
  <2>2. \A w \in 0..(BSIZE - 1) : Datum(i, bn * BSIZE + w) \in Int
    <3>1. i \in Nat
      BY Zenon, <1>3, FileAssumption
    <3>2. bn * BSIZE \in Int
      BY <1>4, Sizes
    <3>3. (MAXFILE * BSIZE) * i \in Int
      BY <3>1, Sizes
    <3> QED
      BY <3>2, <3>3, Sizes DEF Datum
  <2> HIDE DEF r, bn
  <2> QED
    BY Zenon, <2>1, <2>2
<1>9. \A w \in 0..(BSIZE - 1) : d[w] = IF w - r \in 0..c - 1 THEN Datum(i, bn * BSIZE + w) ELSE blk[b][w]
  BY Zenon
<1> HIDE DEF d
<1>10. /\ blk' \in [Blocks -> [0..(BSIZE - 1) -> Int]] /\ blk'[b] = d
      /\ \A a \in Blocks : a # b => blk'[a] = blk[a]
  BY Zenon, <1>6, <1>7, <1>8, BlockSet DEF DataInv
<1>11. Writing \subseteq HasInode /\ Writing \subseteq Labels /\ "itrunc" \notin Writing
  BY Zenon DEF HasInode, Labels, Writing
<1>12. Moves(p, l, o)
  BY Zenon, <1>11, GotoMoves DEF DataInv
<1>13. InodeLocks'
  <2>1. UNCHANGED ilocked /\ o.i = op[p].i
    BY Zenon DEF Copied
  <2> QED
    BY Zenon, <1>2, <1>11, <1>12, <2>1, LocksKept DEF DataInv
<1>14. DataTypes'
  BY Zenon, <1>10, <1>12 DEF Copied, DataInv, DataTypes, Moves
<1>15. WriteCalls'
  <2>1. ASSUME NEW q \in Callers PROVE WriteOK(dpc[q], op[q])'
    <3>1. WriteOK(dpc[q], op[q]) /\ off' = off /\ size' = size
      BY Zenon, WriteCallsAre DEF DataInv, Copied
    <3>2. CASE q = p
      <4>1. op'[p] = o /\ WriteOK(dpc[p], op[p])
        BY Zenon, <1>12, <3>1, <3>2 DEF Moves
      <4>2. /\ op[p].f \in OpenFiles /\ op[p].i = op[p].f.ip
            /\ off[op[p].f] <= size[op[p].i] /\ off[op[p].f] + op[p].n1 <= MAXFILE * BSIZE
            /\ op[p].n1 <= op[p].rem
        BY Zenon, <1>2, <4>1 DEF WriteOK, Writing
      <4> QED
        BY Zenon, <3>1, <3>2, <4>1, <4>2 DEF WriteOK, Copied
    <3>3. CASE q # p
      <4>1. dpc'[q] = dpc[q] /\ op'[q] = op[q]
        BY Zenon, <1>12, <3>3 DEF Moves
      <4> QED
        BY Zenon, <3>1, <4>1 DEF WriteOK
    <3> QED
      BY Zenon, <3>2, <3>3
  <2>2. (\A q \in Callers : WriteOK(dpc[q], op[q]))'
    BY Zenon, <2>1
  <2> QED
    BY Zenon, <2>2 DEF WriteCalls, WriteOK, Writing
<1>16. \A j \in Files : Freed(j)' = Freed(j) /\ (Truncating(j)' <=> Truncating(j))
  <2>1. \A q \in Callers : /\ dpc'[q] = "itrunc" <=> dpc[q] = "itrunc"
                           /\ dpc[q] = "itrunc" => op'[q] = op[q]
    BY Zenon, <1>2, <1>11, <1>12 DEF Moves
  <2> QED
    BY Zenon, <1>13, <1>14, <2>1, FreedKept DEF DataInv
<1>17. ASSUME NEW j \in Files
       PROVE  /\ addrs' = addrs
              /\ addrs[j][NDIRECT] # 0 => blk'[addrs[j][NDIRECT]] = blk[addrs[j][NDIRECT]]
  <2>1. addrs[j][NDIRECT] \in 0..NBLOCKS
    BY Sizes DEF DataInv, DataTypes
  <2> QED
    BY Zenon, <1>6, <1>10, <2>1, BlockNumbers DEF Copied
<1>18. Exact(Held, used)'
  <2>1. \A j \in Files, m \in 0..(BSIZE - 1) : Entry(j, m)' = Entry(j, m)
    BY Zenon, <1>16, <1>17 DEF Entry
  <2>2. HeldView /\ addrs' = addrs
    BY Zenon, HeldIs DEF DataInv, Copied
  <2>3. NextHeld(Held)
    BY Zenon, <2>1, <2>2 DEF HeldView, NextHeld
  <2>4. Held' = Held /\ used' = used
    BY Zenon, <1>13, <1>14, <2>3, HeldNext DEF Copied
  <2> QED
    BY Zenon, <2>4 DEF DataInv, Exact
<1>19. IndirectTyped'
  BY Zenon, <1>17 DEF DataInv, IndirectTyped
<1>20. \A j \in Files, m \in 0..(MAXFILE - 1) : Mapped(j, m)' = Mapped(j, m)
  BY Zenon, <1>17 DEF Mapped
<1> HIDE DEF bn, r
<1>21. ASSUME NEW x \in Nat, x \div BSIZE = bn, x % BSIZE \in 0..(BSIZE - 1),
              blk[b][x % BSIZE] = Datum(i, x) \/ (x % BSIZE) - r \in 0..c - 1
       PROVE  blk'[b][x % BSIZE] = Datum(i, x)
  <2>1. bn * BSIZE + (x % BSIZE) = x
    <3>1. x = BSIZE * bn + (x % BSIZE) /\ BSIZE \in Nat /\ bn \in Int
      <4>1. BSIZE \in Nat \ {0} /\ BSIZE \in Nat /\ bn \in Int
        BY <1>4, Sizes
      <4> QED
        BY Zenon, <1>21, <4>1, DivMod
    <3>2. BSIZE * bn = bn * BSIZE
      BY <3>1
    <3> QED
      BY Zenon, <3>1, <3>2
  <2> QED
    BY Zenon, <1>9, <1>10, <1>21, <2>1
<1>22. ASSUME NEW j \in Files, NEW y \in 0..(MAXFILE * BSIZE - 1), ~Truncating(j), Good(j, y)
       PROVE  Good(j, y)'
  <2>1. y \in Nat /\ y \div BSIZE \in 0..(MAXFILE - 1) /\ y % BSIZE \in 0..(BSIZE - 1)
    BY Zenon, BnFits
  <2>2. Mapped(j, y \div BSIZE)' = Mapped(j, y \div BSIZE) /\ Mapped(j, y \div BSIZE) # 0
    BY Zenon, <1>20, <1>22, <2>1 DEF Good
  <2>3. CASE Mapped(j, y \div BSIZE) # b
    <3>1. Mapped(j, y \div BSIZE) \in Blocks
      BY Zenon, <1>22, <2>1, <2>2, MapFacts
    <3> QED
      BY Zenon, <1>10, <1>22, <2>2, <2>3, <3>1, GoodStays
  <2>4. CASE Mapped(j, y \div BSIZE) = b
    <3>1. j = i /\ y \div BSIZE = bn
      BY Zenon, <1>6, <1>22, <2>1, <2>4
    <3>2. blk[b][y % BSIZE] = Datum(i, y)
      BY Zenon, <1>22, <2>4, <3>1 DEF Good
    <3>3. blk'[b][y % BSIZE] = Datum(i, y)
      BY Zenon, <1>21, <2>1, <3>1, <3>2
    <3> QED
      BY Zenon, <2>2, <2>4, <3>1, <3>3 DEF Good
  <2> QED
    BY Zenon, <2>3, <2>4
<1>23. ASSUME NEW x \in (off[op[p].f] + op[p].tot)..(off[op[p].f] + op[p].tot + c - 1), r + c <= BSIZE
       PROVE  Good(i, x)'
  <2>1. PICK z \in 0..(BSIZE - 1) : z = r + (x - Offset(op[p])) /\ x \in Nat /\ x = BSIZE * bn + z
                                    /\ z - r \in 0..c - 1
    <3>1. BSIZE * bn \in Int /\ off[op[p].f] \in Nat /\ op[p].tot \in Nat
      <4>1. off[op[p].f] \in Nat /\ op[p].tot \in Nat
        BY Zenon, <1>2, WriterAlone
      <4> QED
        BY <1>4, <4>1, Sizes
    <3>2. r + (x - Offset(op[p])) \in 0..(BSIZE - 1)
      BY <1>4, <1>23, <3>1, Sizes
    <3>3. x \in Nat /\ x = BSIZE * bn + (r + (x - Offset(op[p])))
      BY <1>4, <3>1, Sizes
    <3>4. (r + (x - Offset(op[p]))) - r \in 0..c - 1
      BY <1>4, <1>23, <3>1, Sizes
    <3> QED
      BY Zenon, <3>2, <3>3, <3>4
  <2>2. x % BSIZE = z /\ x \div BSIZE = bn
    <3>1. BSIZE \in Nat \ {0} /\ bn \in Int
      BY <1>4, Sizes
    <3> QED
      <4>1. x \in Nat /\ z \in 0..(BSIZE - 1) /\ x = BSIZE * bn + z
        BY Zenon, <2>1
      <4> QED
        BY Zenon, <3>1, <4>1, DivUnique
  <2>3. blk'[b][x % BSIZE] = Datum(i, x)
    BY Zenon, <1>21, <2>1, <2>2
  <2>4. PICK y \in 0..(MAXFILE - 1) : y = x \div BSIZE
    BY Zenon, <1>4, <2>2
  <2>5. Mapped(i, y)' = b
    BY Zenon, <1>5, <1>20, <2>2, <2>4
  <2> QED
    BY Zenon, <1>5, <2>3, <2>4, <2>5 DEF Good
<1>24. ASSUME NEW q \in Callers, dpc'[q] \in Writing
       PROVE  /\ dpc[q] \in Writing /\ op'[q].f = op[q].f /\ op'[q].i = op[q].i
              /\ op'[q].tot = op[q].tot \/
                 \A x \in (off[op[q].f] + op[q].tot)..(off[op[q].f] + op'[q].tot - 1) :
                   \A j \in Files : j = op[q].i => Good(j, x)'
  <2>1. CASE q # p
    BY Zenon, <1>12, <1>24, <2>1 DEF Moves
  <2>2. CASE q = p
    <3>1. op'[p] = o /\ o.f = op[p].f /\ o.i = op[p].i
      BY Zenon, <1>12 DEF Moves, Copied
    <3>2. CASE o.tot = op[p].tot
      BY Zenon, <1>2, <2>2, <3>1, <3>2
    <3>3. CASE o.tot = op[p].tot + c /\ r + c <= BSIZE
      <4>1. off[op[p].f] + o.tot - 1 = off[op[p].f] + op[p].tot + c - 1
        <5>1. off[op[p].f] \in Nat /\ op[p].tot \in Nat
          BY Zenon, <1>2, WriterAlone
        <5> QED
          BY <3>3, <5>1
      <4> QED
        BY Zenon, <1>1, <1>2, <1>23, <2>2, <3>1, <3>3, <4>1
    <3> QED
      BY Zenon, <2>2, <3>2, <3>3 DEF Copied, r
  <2> QED
    BY Zenon, <2>1, <2>2
<1>25. Contents' /\ ~dpanic'
  <2>1. size' = size /\ off' = off /\ ~dpanic'
    BY Zenon DEF Copied, DataInv
  <2> QED
    BY Zenon, <1>13, <1>14, <1>16, <1>22, <1>24, <2>1, ContentsNext
<1>26. MapsKept
  BY Zenon, <1>17, <1>20 DEF MapsKept
<1> QED
  BY Zenon, <1>13, <1>14, <1>15, <1>18, <1>19, <1>25, <1>26 DEF DataInv

-----------------------------------------------------------------------------
(* The initial states.                                                     *)

LEMMA DataInitInv == DataInit => DataInv
<1> SUFFICES ASSUME DataInit PROVE DataInv
  OBVIOUS
<1>1. 0 \in 0..NBLOCKS /\ 0 \in 0..(MAXFILE * BSIZE) /\ 0 \in Nat /\ NDIRECT \in 0..NDIRECT
  BY Sizes
<1>2. Stale \in [0..(BSIZE - 1) -> Int]
  BY Sizes DEF Stale
<1>3. NoOp \in Ops /\ NoOp.i = 0
  BY DEF NoOp, Ops
<1>4. DataTypes
  BY Zenon, <1>1, <1>2, <1>3 DEF DataInit, DataTypes, Labels
<1>5. InodeLocks /\ WriteCalls
  <2>1. \A p \in Callers : dpc[p] = "idle"
    BY Zenon DEF DataInit
  <2> QED
    BY Zenon, <2>1 DEF DataInit, InodeLocks, WriteCalls, HasInode
<1>6. HeldView
  BY Zenon, <1>4, <1>5, HeldIs
<1>7. \A i \in Files, k \in 0..NDIRECT : addrs[i][k] = 0
  BY Zenon DEF DataInit
<1>8. ASSUME NEW x \in AllPlaces PROVE Held[x] = 0
  <2>1. PICK i \in Files, k \in 0..MAXFILE : x = <<i, k>>
    BY DEF AllPlaces
  <2>2. CASE k \in 0..NDIRECT
    <3>1. Held[<<i, k>>] = addrs[i][k] /\ addrs[i][k] = 0
      BY Zenon, <1>6, <1>7, <2>2 DEF HeldView
    <3> QED
      BY Zenon, <2>1, <3>1
  <2>3. CASE \E j \in 0..(BSIZE - 1) : k = NDIRECT + 1 + j
    BY Zenon, <1>1, <1>6, <1>7, <2>1, <2>3 DEF HeldView, Entry
  <2> QED
    BY Zenon, <2>2, <2>3, PlaceIs
<1>9. Exact(Held, used)
  <2>1. DOMAIN Held = AllPlaces /\ used = {}
    BY Zenon DEF Held, DataInit
  <2>2. \A x \in DOMAIN Held : Held[x] = 0
    BY Zenon, <1>8, <2>1
  <2> QED
    BY Zenon, <2>1, <2>2 DEF Exact
<1>10. IndirectTyped
  BY Zenon, <1>1, <1>7 DEF IndirectTyped
<1>11. Contents /\ ~dpanic
  <2>1. ASSUME NEW i \in Files, NEW x \in 0..(size[i] - 1) PROVE FALSE
    <3>1. size[i] = 0
      BY Zenon DEF DataInit
    <3> QED
      BY <2>1, <3>1
  <2>2. \A p \in Callers : dpc[p] \notin Writing
    BY Zenon DEF DataInit, Writing
  <2> QED
    BY Zenon, <2>1, <2>2 DEF Contents, DataInit, Writing
<1> QED
  BY Zenon, <1>4, <1>5, <1>9, <1>10, <1>11 DEF DataInv

-----------------------------------------------------------------------------
(* What a chunk of filewrite logs.                                         *)

\* The blocks of its file that a call writes to.
Touches(o, n) == n * BSIZE < off[o.f] + o.n1 /\ off[o.f] < (n + 1) * BSIZE

\* What a call may have logged: its inode, the indirect block, the blocks it
\* writes to, and the bitmap blocks of those it can have allocated. The first
\* it writes to is new only if it starts there.
InChunk(o, x) ==
  \/ x = Dinode(o.i)
  \/ /\ addrs[o.i][NDIRECT] # 0
     /\ x = Data(addrs[o.i][NDIRECT]) \/ x = Bitmap(addrs[o.i][NDIRECT])
  \/ \E n \in 0..(MAXFILE - 1) :
       /\ Touches(o, n) /\ Mapped(o.i, n) # 0
       /\ x = Data(Mapped(o.i, n)) \/ (off[o.f] <= n * BSIZE /\ x = Bitmap(Mapped(o.i, n)))

LoggedOK(p) ==
  /\ dpc[p] \in {"idle", "chunk"} => logged[p] = {}
  /\ dpc[p] \in Writing => op[p].n1 <= max /\ \A x \in logged[p] : InChunk(op[p], x)
  /\ dpc[p] = "endop" => Cardinality(logged[p]) <= MAXOPBLOCKS

LoggedInv == /\ logged = [p \in Callers |-> logged[p]]
             /\ \A p \in Callers : LoggedOK(p)

\* A write of n1 bytes at offset a, at most c blocks long, touches at most c
\* blocks, or c + 1 if it does not start at the beginning of one.
LEMMA TouchedRange ==
  ASSUME NEW a \in Nat, NEW n1 \in Nat, NEW b \in Nat \ {0}, NEW c \in Nat, n1 <= c * b,
         NEW n \in Nat, n * b < a + n1, a < (n + 1) * b,
         NEW u \in {0, 1}, a % b = 0 <=> u = 0
  PROVE  /\ n \in (a \div b)..((a \div b) + c + u - 1)
         /\ a <= n * b => n \in ((a \div b) + u)..((a \div b) + c + u - 1)
<1>1. PICK s \in Nat : s = a \div b
  BY Zenon, DivMod
<1>2. PICK t \in 0..(b - 1) : t = a % b
  BY Zenon, DivMod
<1>3. a = b * s + t /\ (t = 0 <=> u = 0)
  BY Zenon, <1>1, <1>2, DivMod
<1>4. /\ b * s \in Int /\ b * n \in Int /\ b * c \in Int /\ n * b = b * n /\ c * b = b * c
      /\ (n + 1) * b = b * n + b /\ t \in Nat /\ t < b
  BY <1>1, <1>2
<1>5. b * n < b * s + t + b * c /\ b * s + t < b * n + b
  BY <1>3, <1>4
<1>6. s <= n
  <2>1. SUFFICES ASSUME n < s PROVE FALSE
    BY <1>1
  <2>2. b * s >= b * n + b
    BY <1>1, <2>1, NextMultiple
  <2> QED
    BY <1>4, <1>5, <2>2
<1>7. n <= s + c + u - 1
  <2>1. SUFFICES ASSUME s + c + u - 1 < n PROVE FALSE
    BY <1>1
  <2>2. PICK m \in Int : m = s + c + u - 1
    BY <1>1
  <2>3. b * n >= b * m + b
    BY <2>1, <2>2, NextMultiple
  <2>4. CASE u = 0
    <3>1. b * m = b * s + b * c - b
      BY <1>1, <2>2, <2>4
    <3> QED
      BY <1>3, <1>4, <1>5, <2>3, <2>4, <3>1
  <2>5. CASE u = 1
    <3>1. b * m = b * s + b * c
      BY <1>1, <2>2, <2>5
    <3> QED
      BY <1>4, <1>5, <2>3, <3>1
  <2> QED
    BY Zenon, <2>4, <2>5
<1>8. ASSUME a <= n * b PROVE s + u <= n
  <2>1. CASE u = 0
    BY <1>1, <1>6, <2>1
  <2>2. CASE u = 1
    <3>1. n # s
      BY <1>3, <1>4, <1>8, <2>2
    <3> QED
      BY <1>1, <1>6, <2>2, <3>1
  <2> QED
    BY Zenon, <2>1, <2>2
<1>9. n \in s..(s + c + u - 1) /\ (a <= n * b => n \in (s + u)..(s + c + u - 1))
  BY <1>1, <1>6, <1>7, <1>8
<1> QED
  BY Zenon, <1>1, <1>9

\* How large a chunk is.
LEMMA ChunkSize ==
  \E c \in Nat : c >= 1 /\ max = c * BSIZE /\ 4 + c + c <= MAXOPBLOCKS
<1>1. MAXOPBLOCKS \in Nat /\ MAXOPBLOCKS > 5
  BY FileAssumption
<1>2. PICK c \in Int : c = (MAXOPBLOCKS - 1 - 1 - 2) \div 2
  BY <1>1
<1>3. c \in Nat /\ c >= 1 /\ 4 + c + c <= MAXOPBLOCKS
  BY <1>1, <1>2
<1> QED
  BY Zenon, <1>2, <1>3 DEF max

\* What a call has logged stays what it may log.
LEMMA ChunkKept ==
  ASSUME DataInv, MapsKept, NEW q \in Callers, dpc[q] \in Writing, op'[q].f = op[q].f,
         op'[q].i = op[q].i, op'[q].n1 = op[q].n1, off'[op[q].f] = off[op[q].f],
         NEW x, InChunk(op[q], x)
  PROVE  InChunk(op[q], x)'
<1>1. PICK i \in Files : i = op[q].i /\ ~Truncating(i)
  BY Zenon, WriterAlone
<1>2. op'[q].i = i
  BY Zenon, <1>1
<1>3. CASE x = Dinode(op[q].i)
  BY Zenon, <1>1, <1>2, <1>3 DEF InChunk, Dinode
<1>4. CASE /\ addrs[op[q].i][NDIRECT] # 0
           /\ x = Data(addrs[op[q].i][NDIRECT]) \/ x = Bitmap(addrs[op[q].i][NDIRECT])
  <2>1. addrs'[op'[q].i][NDIRECT] = addrs[op[q].i][NDIRECT]
    BY Zenon, <1>1, <1>2, <1>4 DEF MapsKept
  <2> QED
    BY Zenon, <1>4, <2>1 DEF InChunk, Data, Bitmap
<1>5. ASSUME NEW n \in 0..(MAXFILE - 1), Touches(op[q], n), Mapped(op[q].i, n) # 0,
             x = Data(Mapped(op[q].i, n)) \/ (off[op[q].f] <= n * BSIZE /\ x = Bitmap(Mapped(op[q].i, n)))
      PROVE  InChunk(op[q], x)'
  <2>1. Touches(op[q], n)' /\ off'[op'[q].f] = off[op[q].f]
    BY Zenon, <1>5 DEF Touches
  <2>2. Mapped(i, n)' = Mapped(op[q].i, n)
    BY Zenon, <1>1, <1>5 DEF MapsKept
  <2>3. Mapped(op[q].i, n)' = Mapped(i, n)'
    BY Zenon, <1>2 DEF Mapped
  <2>4. Mapped(op[q].i, n)' = Mapped(op[q].i, n)
    BY Zenon, <2>2, <2>3
  <2>5. (x = Data(Mapped(op[q].i, n)))' \/ (off[op[q].f] <= n * BSIZE /\ x = Bitmap(Mapped(op[q].i, n)))'
    BY Zenon, <1>5, <2>1, <2>4 DEF Data, Bitmap
  <2> QED
    BY Zenon, <1>5, <2>1, <2>4, <2>5 DEF InChunk
<1> QED
  BY Zenon, <1>3, <1>4, <1>5 DEF InChunk

\* Only call p logs, and then has logged L.
OnlyLogs(p, L) ==
  /\ logged' = [q \in Callers |-> logged'[q]] /\ logged'[p] = L
  /\ \A q \in Callers : q # p => logged'[q] = logged[q]

LEMMA Logs ==
  ASSUME LoggedInv, NEW p \in Callers, NEW L, logged' = [logged EXCEPT ![p] = L]
  PROVE  OnlyLogs(p, L)
<1>1. logged = [q \in Callers |-> logged[q]]
  BY Zenon DEF LoggedInv
<1> QED
  BY Zenon, <1>1 DEF OnlyLogs

LEMMA LogsNothing ==
  ASSUME LoggedInv, NEW p \in Callers, UNCHANGED logged
  PROVE  OnlyLogs(p, logged[p])
  BY Zenon DEF OnlyLogs, LoggedInv

LEMMA GotoIs ==
  ASSUME DataInv, NEW p \in Callers, NEW l, NEW o, Goto(p, l, o)
  PROVE  /\ dpc'[p] = l /\ op'[p] = o
         /\ \A q \in Callers : q # p => dpc'[q] = dpc[q] /\ op'[q] = op[q]
  BY Zenon DEF Goto, DataInv, DataTypes

\* A step of call p leaves what the others log.
LEMMA LoggedStep ==
  ASSUME DataInv, LoggedInv, MapsKept, NEW p \in Callers, NEW L, OnlyLogs(p, L),
         \A q \in Callers : q # p => dpc'[q] = dpc[q] /\ op'[q] = op[q],
         \A q \in Callers : q # p /\ dpc[q] \in Writing => off'[op[q].f] = off[op[q].f],
         LoggedOK(p)'
  PROVE  LoggedInv'
<1>1. ASSUME NEW q \in Callers, q # p PROVE LoggedOK(q)'
  <2>1. dpc'[q] = dpc[q] /\ op'[q] = op[q] /\ logged'[q] = logged[q] /\ LoggedOK(q)
    BY Zenon, <1>1 DEF OnlyLogs, LoggedInv
  <2>2. ASSUME dpc[q] \in Writing, NEW x \in logged[q] PROVE InChunk(op[q], x)'
    <3>1. InChunk(op[q], x)
      BY Zenon, <2>1, <2>2 DEF LoggedOK
    <3>2. op'[q].f = op[q].f /\ op'[q].i = op[q].i /\ op'[q].n1 = op[q].n1
      BY Zenon, <2>1
    <3>3. off'[op[q].f] = off[op[q].f]
      BY Zenon, <1>1, <2>2
    <3> QED
      BY Zenon, <2>2, <3>1, <3>2, <3>3, ChunkKept
  <2> QED
    BY Zenon, <2>1, <2>2 DEF LoggedOK
<1>2. \A q \in Callers : LoggedOK(q)'
  BY Zenon, <1>1
<1> QED
  BY Zenon, <1>2 DEF LoggedInv, OnlyLogs

\* Outside the transaction of a write nothing is logged, or nothing is claimed.
LEMMA LoggedNothing ==
  ASSUME NEW p \in Callers, dpc'[p] \in {"idle", "chunk", "itrunc"},
         dpc'[p] # "itrunc" => logged'[p] = {}
  PROVE  LoggedOK(p)'
<1>1. dpc'[p] \notin Writing /\ dpc'[p] # "endop"
  BY Zenon DEF Writing
<1>2. dpc'[p] \in {"idle", "chunk"} => logged'[p] = {}
  BY Zenon
<1> QED
  BY Zenon, <1>1, <1>2 DEF LoggedOK

LEMMA BeginLogs ==
  ASSUME DataInv, LoggedInv, NEW p \in Callers,
         \/ \E f \in OpenFiles, n \in Lens : BeginWrite(p, f, n) \/ FileRead(p, f, n)
         \/ \E i \in Files : BeginTrunc(p, i)
  PROVE  LoggedInv'
<1>1. dpc[p] = "idle" /\ UNCHANGED <<blk, addrs, logged>>
  BY Zenon DEF BeginWrite, FileRead, BeginTrunc
<1>2. MapsKept /\ OnlyLogs(p, logged[p]) /\ logged[p] = {}
  BY Zenon, <1>1, SameKept, LogsNothing DEF LoggedInv, LoggedOK
<1>3. CASE \E f \in OpenFiles, n \in Lens : BeginWrite(p, f, n)
  <2>1. PICK f \in OpenFiles, n \in Lens : BeginWrite(p, f, n)
    BY Zenon, <1>3
  <2>2. dpc'[p] = "chunk" /\ off' = off /\ \A q \in Callers : q # p => dpc'[q] = dpc[q] /\ op'[q] = op[q]
    BY Zenon, <2>1, GotoIs DEF BeginWrite
  <2>3. LoggedOK(p)'
    BY Zenon, <1>2, <2>2, LoggedNothing DEF OnlyLogs
  <2> QED
    BY Zenon, <1>2, <2>2, <2>3, LoggedStep
<1>4. CASE \E f \in OpenFiles, n \in Lens : FileRead(p, f, n)
  <2>1. PICK f \in OpenFiles, n \in Lens : FileRead(p, f, n)
    BY Zenon, <1>4
  <2>2. PICK r : off' = [off EXCEPT ![f] = r] \/ off' = off
    BY Zenon, <2>1 DEF FileRead
  <2>3. ilocked[f.ip] = NoCaller /\ UNCHANGED <<dpc, op>>
    BY Zenon, <2>1 DEF FileRead
  <2>4. f.ip \in Files /\ off \in [OpenFiles -> Nat]
    BY Zenon, FileAssumption DEF DataInv, DataTypes
  <2>5. ASSUME NEW q \in Callers, q # p, dpc[q] \in Writing PROVE off'[op[q].f] = off[op[q].f]
    <3>1. PICK i \in Files : i = f.ip /\ ilocked[i] \in {p, NoCaller}
      BY Zenon, <2>3, <2>4
    <3>2. op[q].f # f
      BY Zenon, <2>5, <3>1, WritesElsewhere
    <3>3. op[q].f \in OpenFiles
      BY Zenon, <2>5, WriterAlone
    <3> QED
      BY Zenon, <2>2, <2>4, <3>2, <3>3
  <2>6. LoggedOK(p)'
    BY Zenon, <1>1, <1>2, <2>3, LoggedNothing DEF OnlyLogs
  <2> QED
    BY Zenon, <1>2, <2>3, <2>5, <2>6, LoggedStep
<1>5. CASE \E i \in Files : BeginTrunc(p, i)
  <2>1. PICK i \in Files : BeginTrunc(p, i)
    BY Zenon, <1>5
  <2>2. dpc'[p] = "itrunc" /\ off' = off /\ \A q \in Callers : q # p => dpc'[q] = dpc[q] /\ op'[q] = op[q]
    BY Zenon, <2>1, GotoIs DEF BeginTrunc
  <2>3. LoggedOK(p)'
    BY Zenon, <2>2, LoggedNothing
  <2> QED
    BY Zenon, <1>2, <2>2, <2>3, LoggedStep
<1> QED
  BY Zenon, <1>3, <1>4, <1>5

LEMMA ChunkLogs ==
  ASSUME DataInv, LoggedInv, NEW p \in Callers, Chunk(p)
  PROVE  LoggedInv'
<1> DEFINE o == op[p]
           n1 == IF o.rem > max THEN max ELSE o.rem
           o2 == [o EXCEPT !.n1 = n1, !.tot = 0]
<1>1. dpc[p] = "chunk" /\ UNCHANGED <<blk, addrs, off, logged>>
  BY Zenon DEF Chunk
<1>2. MapsKept /\ OnlyLogs(p, logged[p]) /\ logged[p] = {} /\ logged'[p] = {}
  BY Zenon, <1>1, SameKept, LogsNothing DEF LoggedInv, LoggedOK
<1>3. CASE Goto(p, "idle", NoOp)
  <2>1. dpc'[p] = "idle" /\ \A q \in Callers : q # p => dpc'[q] = dpc[q] /\ op'[q] = op[q]
    BY Zenon, <1>3, GotoIs
  <2>2. LoggedOK(p)'
    BY Zenon, <1>2, <2>1, LoggedNothing
  <2> QED
    BY Zenon, <1>1, <1>2, <2>1, <2>2, LoggedStep
<1>4. CASE Goto(p, "writei", o2)
  <2>1. o \in Ops
    BY Zenon DEF DataInv, DataTypes
  <2>2. o2.n1 = n1
    BY <2>1 DEF Ops
  <2>3. n1 <= max
    <3>1. PICK c \in Nat : max = c * BSIZE
      BY Zenon, ChunkSize
    <3>2. max \in Int /\ o.rem \in Nat
      BY <2>1, <3>1, Sizes DEF Ops
    <3> QED
      BY <3>2
  <2> HIDE DEF o2, n1
  <2>4. /\ dpc'[p] = "writei" /\ op'[p] = o2
        /\ \A q \in Callers : q # p => dpc'[q] = dpc[q] /\ op'[q] = op[q]
    BY Zenon, <1>4, GotoIs
  <2>5. LoggedOK(p)'
    <3>1. op'[p].n1 <= max
      BY Zenon, <2>2, <2>3, <2>4
    <3>2. dpc'[p] \notin {"idle", "chunk"} /\ dpc'[p] # "endop"
      BY Zenon, <2>4
    <3> QED
      BY Zenon, <1>2, <3>1, <3>2 DEF LoggedOK, max
  <2> QED
    BY Zenon, <1>1, <1>2, <2>4, <2>5, LoggedStep
<1> QED
  BY Zenon, <1>3, <1>4 DEF Chunk

LEMMA EndLogs ==
  ASSUME DataInv, LoggedInv, NEW p \in Callers, EndChunk(p)
  PROVE  LoggedInv'
<1>1. UNCHANGED <<blk, addrs, off>> /\ logged' = [logged EXCEPT ![p] = {}]
  BY Zenon DEF EndChunk, EndOp
<1>2. MapsKept /\ OnlyLogs(p, {})
  BY Zenon, <1>1, SameKept, Logs
<1>3. \E l \in {"idle", "chunk"} : \E o : Goto(p, l, o)
  BY Zenon DEF EndChunk
<1>4. PICK l \in {"idle", "chunk"} : \E o : Goto(p, l, o)
  BY Zenon, <1>3
<1>5. PICK o : Goto(p, l, o)
  BY Zenon, <1>4
<1>6. dpc'[p] = l /\ \A q \in Callers : q # p => dpc'[q] = dpc[q] /\ op'[q] = op[q]
  BY Zenon, <1>5, GotoIs
<1>7. LoggedOK(p)'
  BY Zenon, <1>2, <1>6, LoggedNothing DEF OnlyLogs
<1> QED
  BY Zenon, <1>1, <1>2, <1>6, <1>7, LoggedStep

\* Where the next word goes is in a block that the call touches; a block that
\* is not there yet lies past what was written before.
LEMMA TouchesBn ==
  ASSUME DataInv, NEW p \in Callers, dpc[p] = "writei", op[p].tot < op[p].n1
  PROVE  /\ Touches(op[p], Bn(op[p]))
         /\ Mapped(op[p].i, Bn(op[p])) = 0 => off[op[p].f] <= Bn(op[p]) * BSIZE
<1> DEFINE o == op[p]
<1>1. /\ o.i \in Files /\ ~Truncating(o.i) /\ off[o.f] \in Nat /\ o.tot \in Nat /\ o.n1 \in Nat
      /\ off[o.f] <= size[o.i]
  BY Zenon, WriterAlone DEF Writing
<1>2. PICK n \in 0..(MAXFILE - 1) : n = Bn(o)
  BY Zenon, InBlock
<1>3. PICK r \in 0..(BSIZE - 1) : r = Offset(o) % BSIZE /\ Offset(o) = BSIZE * n + r
  BY Zenon, <1>2, InBlock
<1>4. BSIZE * n + r = off[o.f] + o.tot
  BY Zenon, <1>3, InBlock
<1>5. n \in Nat /\ r \in Nat /\ r < BSIZE /\ BSIZE \in Nat \ {0} /\ o.tot < o.n1
  BY Sizes
<1>6. n * BSIZE = BSIZE * n /\ (n + 1) * BSIZE = BSIZE * n + BSIZE /\ BSIZE * n \in Nat
  BY <1>5
<1> HIDE DEF o
<1>7. Touches(o, n)
  BY <1>1, <1>4, <1>5, <1>6 DEF Touches
<1>8. ASSUME Mapped(o.i, n) = 0, ~(off[o.f] <= n * BSIZE) PROVE FALSE
  <2>1. PICK x \in Nat : x = BSIZE * n
    BY Zenon, <1>6
  <2>2. size[o.i] \in Nat
    <3>1. size \in [Files -> 0..(MAXFILE * BSIZE)]
      BY Zenon DEF DataInv, DataTypes
    <3>2. size[o.i] \in 0..(MAXFILE * BSIZE)
      BY Zenon, <1>1, <3>1
    <3> QED
      BY <3>2, Sizes
  <2>3. x \in 0..(size[o.i] - 1)
    BY <1>1, <1>6, <1>8, <2>1, <2>2
  <2>4. Mapped(o.i, x \div BSIZE) # 0
    BY Zenon, <1>1, <2>3 DEF DataInv, Contents, Good
  <2>5. x = BSIZE * n + 0 /\ 0 \in 0..(BSIZE - 1) /\ n \in Int
    BY <1>5, <1>6, <2>1
  <2>6. x \div BSIZE = n
    BY Zenon, <1>5, <2>1, <2>5, DivUnique
  <2> QED
    BY Zenon, <1>8, <2>4, <2>6
<1> QED
  BY Zenon, <1>2, <1>7, <1>8 DEF o

\* A step inside writei that logs only what the call may log.
LEMMA WriterLogs ==
  ASSUME DataInv, LoggedInv, MapsKept, NEW p \in Callers, dpc[p] \in Writing, dpc'[p] \in Writing,
         op'[p].f = op[p].f, op'[p].i = op[p].i, op'[p].n1 = op[p].n1, off' = off,
         \A q \in Callers : q # p => dpc'[q] = dpc[q] /\ op'[q] = op[q],
         NEW L, OnlyLogs(p, L), \A x \in L : x \in logged[p] \/ InChunk(op[p], x)'
  PROVE  LoggedInv'
<1>1. LoggedOK(p)
  BY Zenon DEF LoggedInv
<1>2. ASSUME NEW x \in L PROVE InChunk(op[p], x)'
  <2>1. CASE x \in logged[p]
    <3>1. InChunk(op[p], x)
      BY Zenon, <1>1, <2>1 DEF LoggedOK
    <3>2. off'[op[p].f] = off[op[p].f]
      BY Zenon
    <3> QED
      BY Zenon, <3>1, <3>2, ChunkKept
  <2> QED
    BY Zenon, <1>2, <2>1
<1>3. dpc'[p] \notin {"idle", "chunk"} /\ dpc'[p] # "endop"
  BY Zenon DEF Writing
<1>4. logged'[p] = L /\ op'[p].n1 <= max
  BY Zenon, <1>1 DEF OnlyLogs, LoggedOK
<1>5. LoggedOK(p)'
  BY Zenon, <1>2, <1>3, <1>4 DEF LoggedOK, max
<1> QED
  BY Zenon, <1>5, LoggedStep

\* Block number n of its file is new for the call, and b is the block it gets.
NewBlock(p, n, b) ==
  /\ dpc[p] \in Writing /\ Touches(op[p], n) /\ off[op[p].f] <= n * BSIZE
  /\ b = Min(Blocks \ used) /\ bmap(p, op[p].i, n) /\ UNCHANGED <<off, dpc, op>>

\* The blocks that one balloc of bmap logs.
LEMMA BmapLogs ==
  ASSUME DataInv, NEW p \in Callers, NEW n \in 0..(MAXFILE - 1), NEW b \in Blocks, NewBlock(p, n, b)
  PROVE  \E bs : log_write(p, bs) /\ \A x \in bs : InChunk(op[p], x)'
<1>1. PICK i \in Files : i = op[p].i /\ i = op'[p].i
  BY Zenon, WriterAlone DEF NewBlock
<1>2. Touches(op[p], n)' /\ off'[op'[p].f] <= n * BSIZE
  BY Zenon DEF Touches, NewBlock
<1>3. b # 0 /\ b \in 0..NBLOCKS /\ b \in Int /\ NDIRECT \in 0..NDIRECT
  <2>1. b # 0 /\ b \in 0..NBLOCKS /\ b \in Nat
    BY Zenon, BlockNumbers
  <2> QED
    BY <2>1, Sizes
<1>4. ASSUME Mapped(i, n)' = b, NEW x, x = Bitmap(b) \/ x = Data(b) PROVE InChunk(op[p], x)'
  <2>1. Mapped(op[p].i, n)' = b
    BY Zenon, <1>1, <1>4 DEF Mapped
  <2>2. (x = Data(Mapped(op[p].i, n)))' \/ (x = Bitmap(Mapped(op[p].i, n)))'
    BY Zenon, <1>4, <2>1 DEF Data, Bitmap
  <2> QED
    BY Zenon, <1>2, <1>3, <2>1, <2>2 DEF InChunk
<1>5. CASE n < NDIRECT
  <2>1. n \in 0..NDIRECT
    BY Zenon, <1>5, PlaceOfIs
  <2>2. addrs' = [addrs EXCEPT ![i][n] = b] /\ log_write(p, {Bitmap(b), Data(b)})
    BY Zenon, <1>1, <1>5 DEF bmap, NewBlock
  <2>3. addrs'[i][n] = b
    <3>1. DataTypes
      BY Zenon DEF DataInv
    <3> QED
      BY Zenon, <1>3, <2>1, <2>2, <3>1, AddrSet
  <2>4. Mapped(i, n)' = b
    BY Zenon, <1>5, <2>3 DEF Mapped
  <2>5. \A x \in {Bitmap(b), Data(b)} : InChunk(op[p], x)'
    BY Zenon, <1>4, <2>4
  <2>6. PICK bs : bs = {Bitmap(b), Data(b)}
    BY Zenon
  <2>7. log_write(p, bs) /\ \A x \in bs : InChunk(op[p], x)'
    BY Zenon, <2>2, <2>5, <2>6
  <2> QED
    BY Zenon, <2>7
<1>6. CASE ~(n < NDIRECT) /\ addrs[i][NDIRECT] = 0
  <2>1. addrs' = [addrs EXCEPT ![i][NDIRECT] = b] /\ log_write(p, {Bitmap(b), Data(b)})
    BY Zenon, <1>1, <1>6 DEF bmap, NewBlock
  <2>2. addrs'[i][NDIRECT] = b
    BY Zenon, <1>3, <2>1, AddrSet DEF DataInv
  <2>3. ASSUME NEW x, x = Bitmap(b) \/ x = Data(b) PROVE InChunk(op[p], x)'
    <3>1. addrs'[op'[p].i][NDIRECT] = b
      BY Zenon, <1>1, <2>2
    <3> QED
      BY Zenon, <1>3, <2>3, <3>1 DEF InChunk, Data, Bitmap
  <2>4. \A x \in {Bitmap(b), Data(b)} : InChunk(op[p], x)'
    BY Zenon, <2>3
  <2>5. PICK bs : bs = {Bitmap(b), Data(b)}
    BY Zenon
  <2>6. log_write(p, bs) /\ \A x \in bs : InChunk(op[p], x)'
    BY Zenon, <2>1, <2>4, <2>5
  <2> QED
    BY Zenon, <2>6
<1>7. CASE ~(n < NDIRECT) /\ addrs[i][NDIRECT] # 0
  <2>1. PICK ind : ind = addrs[i][NDIRECT] /\ ind # 0 /\ addrs'[i][NDIRECT] = ind
    BY Zenon, <1>1, <1>7 DEF bmap, NewBlock
  <2>2. PICK e \in 0..(BSIZE - 1) : e = n - NDIRECT
    BY Zenon, <1>7, PlaceOfIs
  <2>3. blk' = [blk EXCEPT ![b] = Zeros, ![ind][e] = b] /\ log_write(p, {Bitmap(b), Data(b), Data(ind)})
    BY Zenon, <1>1, <1>7, <2>1, <2>2 DEF bmap, NewBlock
  <2>4. blk'[ind][e] = b
    <3> DEFINE c == [blk EXCEPT ![b] = Zeros]
    <3>1. Zeros \in [0..(BSIZE - 1) -> Int]
      BY Sizes DEF Zeros
    <3>2. c \in [Blocks -> [0..(BSIZE - 1) -> Int]]
      BY Zenon, <3>1 DEF DataInv, DataTypes
    <3>3. ind \in Blocks
      <4>1. addrs \in [Files -> [0..NDIRECT -> 0..NBLOCKS]]
        BY Zenon DEF DataInv, DataTypes
      <4>2. addrs[i][NDIRECT] \in 0..NBLOCKS
        BY Zenon, <1>3, <4>1
      <4> QED
        BY Zenon, <2>1, <4>2, BlockNumbers
    <3>4. blk' = [c EXCEPT ![ind][e] = b]
      BY Zenon, <2>3
    <3> HIDE DEF c
    <3> QED
      BY Zenon, <2>2, <3>2, <3>3, <3>4
  <2>5. Mapped(i, n)' = b
    <3>1. addrs'[i][NDIRECT] # 0 /\ blk'[addrs'[i][NDIRECT]][n - NDIRECT] = b
      BY Zenon, <2>1, <2>2, <2>4
    <3> QED
      BY Zenon, <1>7, <3>1 DEF Mapped
  <2>6. ASSUME NEW x, x = Data(ind) PROVE InChunk(op[p], x)'
    <3>1. addrs'[op'[p].i][NDIRECT] = ind
      BY Zenon, <1>1, <2>1
    <3> QED
      BY Zenon, <2>1, <2>6, <3>1 DEF InChunk, Data
  <2>7. \A x \in {Bitmap(b), Data(b), Data(ind)} : InChunk(op[p], x)'
    BY Zenon, <1>4, <2>5, <2>6
  <2>8. PICK bs : bs = {Bitmap(b), Data(b), Data(ind)}
    BY Zenon
  <2>9. log_write(p, bs) /\ \A x \in bs : InChunk(op[p], x)'
    BY Zenon, <2>3, <2>7, <2>8
  <2> QED
    BY Zenon, <2>9
<1> QED
  BY Zenon, <1>5, <1>6, <1>7

LEMMA LoggedInit == DataInit => LoggedInv
<1> SUFFICES ASSUME DataInit PROVE LoggedInv
  OBVIOUS
<1>1. ASSUME NEW p \in Callers PROVE dpc[p] = "idle" /\ logged[p] = {}
  BY Zenon DEF DataInit
<1>2. ASSUME NEW p \in Callers PROVE LoggedOK(p)
  <2>1. dpc[p] \notin Writing /\ dpc[p] # "endop"
    BY Zenon, <1>1 DEF Writing
  <2> QED
    BY Zenon, <1>1, <2>1 DEF LoggedOK
<1>3. logged = [p \in Callers |-> logged[p]]
  BY Zenon DEF DataInit
<1> QED
  BY Zenon, <1>2, <1>3 DEF LoggedInv

LEMMA LoggedStutter ==
  ASSUME LoggedInv, UNCHANGED datavars
  PROVE  LoggedInv'
<1>1. UNCHANGED <<blk, addrs, off, dpc, op, logged>>
  BY Zenon DEF datavars
<1>2. ASSUME NEW p \in Callers PROVE LoggedOK(p)'
  <2>1. LoggedOK(p)
    BY Zenon DEF LoggedInv
  <2> QED
    BY Zenon, <1>1, <2>1 DEF LoggedOK, InChunk, Touches, Mapped, Data, Bitmap, Dinode, max
<1> QED
  BY Zenon, <1>1, <1>2 DEF LoggedInv

-----------------------------------------------------------------------------
(* Finite sets and minima.                                                 *)

INSTANCE FiniteSetTheorems

\* The loops of the code find the first element there is.
LEMMA MinFacts ==
  ASSUME NEW S \in SUBSET Nat, S # {}
  PROVE  Min(S) \in S /\ \A y \in S : Min(S) <= y
<1> DEFINE R == OpToRel(<, Nat)
<1>1. IsWellFoundedOn(R, Nat)
  BY Zenon, NatLessThanWellFounded
<1>2. \A x, y \in Nat : <<x, y>> \in R <=> x < y
  BY Zenon DEF OpToRel
<1> HIDE DEF R
<1>3. PICK x \in S : \A y \in S : <<y, x>> \notin R
  BY Zenon, <1>1, WFMin
<1>4. ASSUME NEW y \in S PROVE x <= y
  <2>1. x \in Nat /\ y \in Nat /\ ~(y < x)
    BY Zenon, <1>2, <1>3
  <2> QED
    BY <2>1
<1>5. \E m \in S : \A y \in S : m <= y
  BY Zenon, <1>3, <1>4
<1> QED
  BY Zenon, <1>5 DEF Min

\* The images of a finite set are no more than its elements.
LEMMA ImageFits ==
  ASSUME NEW S, IsFiniteSet(S), NEW g, DOMAIN g = S
  PROVE  /\ IsFiniteSet({g[n] : n \in S})
         /\ Cardinality({g[n] : n \in S}) <= Cardinality(S)
<1> DEFINE T == {g[n] : n \in S}
           h == [n \in S |-> g[n]]
<1>1. h \in [S -> T] /\ \A n \in S : h[n] = g[n]
  BY Zenon
<1>2. \A t \in T : \E n \in S : h[n] = t
  BY Zenon
<1> HIDE DEF T, h
<1>3. h \in Surjection(S, T)
  BY Zenon, <1>1, <1>2 DEF Surjection
<1> QED
  BY Zenon, <1>3, FS_Surjection DEF T

\* The size of a union, and of a subset.
LEMMA UnionFits ==
  ASSUME NEW S, NEW T, IsFiniteSet(S), IsFiniteSet(T), NEW a \in Nat, NEW b \in Nat,
         Cardinality(S) <= a, Cardinality(T) <= b
  PROVE  IsFiniteSet(S \cup T) /\ Cardinality(S \cup T) <= a + b
<1>1. /\ IsFiniteSet(S \cup T) /\ IsFiniteSet(S \cap T)
      /\ Cardinality(S \cup T) = Cardinality(S) + Cardinality(T) - Cardinality(S \cap T)
  BY FS_Union, FS_Intersection
<1>2. Cardinality(S) \in Nat /\ Cardinality(T) \in Nat /\ Cardinality(S \cap T) \in Nat
  BY <1>1, FS_CardinalityType
<1> QED
  BY <1>1, <1>2

LEMMA SubsetFits ==
  ASSUME NEW S, NEW T, IsFiniteSet(T), S \subseteq T, NEW a \in Nat, Cardinality(T) <= a
  PROVE  Cardinality(S) <= a /\ Cardinality(S) \in Nat
<1>1. IsFiniteSet(S) /\ Cardinality(S) <= Cardinality(T)
  BY FS_Subset
<1>2. Cardinality(S) \in Nat /\ Cardinality(T) \in Nat
  BY <1>1, FS_CardinalityType
<1> QED
  BY <1>1, <1>2

\* What a call of writei logs fits the transaction.
LEMMA ChunkBound ==
  ASSUME DataInv, NEW p \in Callers, dpc[p] \in Writing, op[p].n1 <= max,
         NEW L, \A x \in L : InChunk(op[p], x)
  PROVE  Cardinality(L) <= MAXOPBLOCKS
<1>1. PICK o : o = op[p]
  BY Zenon
<1>2. PICK a \in Nat : a = off[o.f]
  BY Zenon, <1>1, WriterAlone
<1>3. o.n1 \in Nat /\ o.n1 <= max /\ BSIZE \in Nat \ {0} /\ MAXOPBLOCKS \in Nat
  BY <1>1, WriterAlone, FileAssumption
<1>4. PICK c \in Nat : c >= 1 /\ max = c * BSIZE /\ 4 + c + c <= MAXOPBLOCKS
  BY Zenon, ChunkSize
<1>5. PICK u \in {0, 1} : a % BSIZE = 0 <=> u = 0
  <2>1. CASE a % BSIZE = 0
    BY <2>1
  <2>2. CASE a % BSIZE # 0
    BY <2>2
  <2> QED
    BY Zenon, <2>1, <2>2
<1>6. PICK s \in Nat : s = a \div BSIZE
  BY Zenon, <1>3, DivMod
<1> DEFINE ind == addrs[o.i][NDIRECT]
           D == s..(s + c + u - 1)
           B == (s + u)..(s + c + u - 1)
           g == [n \in D |-> Data(Mapped(o.i, n))]
           h == [n \in B |-> Bitmap(Mapped(o.i, n))]
           inode == {Dinode(o.i)}
           idata == {Data(ind)}
           ibits == {Bitmap(ind)}
           datas == {g[n] : n \in D}
           bits == {h[n] : n \in B}
<1>7. IsFiniteSet(D) /\ Cardinality(D) = c + u
  <2>1. s \in Int /\ s + c + u - 1 \in Int /\ ~(s > s + c + u - 1) /\ (s + c + u - 1) - s + 1 = c + u
    BY <1>4, <1>6
  <2> QED
    BY Zenon, <2>1, FS_Interval
<1>8. IsFiniteSet(B) /\ Cardinality(B) = c
  <2>1. /\ s + u \in Int /\ s + c + u - 1 \in Int /\ ~(s + u > s + c + u - 1)
        /\ (s + c + u - 1) - (s + u) + 1 = c
    BY <1>4, <1>6
  <2> QED
    BY Zenon, <2>1, FS_Interval
<1>9. ASSUME NEW x \in L PROVE x \in inode \cup idata \cup ibits \cup datas \cup bits
  <2>1. InChunk(o, x)
    BY Zenon, <1>1
  <2>2. ASSUME NEW n \in 0..(MAXFILE - 1), Touches(o, n)
        PROVE  n \in D /\ (a <= n * BSIZE => n \in B)
    <3>1. n \in Nat /\ n * BSIZE < a + o.n1 /\ a < (n + 1) * BSIZE /\ o.n1 <= c * BSIZE
      BY <1>2, <1>3, <1>4, <2>2, Sizes DEF Touches
    <3> QED
      BY Zenon, <1>3, <1>5, <1>6, <3>1, TouchedRange
  <2> HIDE DEF D, B
  <2>3. CASE \E n \in 0..(MAXFILE - 1) :
               /\ Touches(o, n) /\ Mapped(o.i, n) # 0
               /\ x = Data(Mapped(o.i, n)) \/ (off[o.f] <= n * BSIZE /\ x = Bitmap(Mapped(o.i, n)))
    <3>1. PICK n \in 0..(MAXFILE - 1) :
               /\ Touches(o, n)
               /\ x = Data(Mapped(o.i, n)) \/ (off[o.f] <= n * BSIZE /\ x = Bitmap(Mapped(o.i, n)))
      BY Zenon, <2>3
    <3>2. CASE x = Data(Mapped(o.i, n))
      BY Zenon, <2>2, <3>1, <3>2
    <3>3. CASE off[o.f] <= n * BSIZE /\ x = Bitmap(Mapped(o.i, n))
      BY Zenon, <1>2, <2>2, <3>1, <3>3
    <3> QED
      BY Zenon, <3>1, <3>2, <3>3
  <2>4. CASE x = Dinode(o.i) \/ x = Data(ind) \/ x = Bitmap(ind)
    BY Zenon, <2>4
  <2> QED
    BY Zenon, <2>1, <2>3, <2>4 DEF InChunk
<1>10. /\ IsFiniteSet(inode) /\ Cardinality(inode) <= 1
       /\ IsFiniteSet(idata) /\ Cardinality(idata) <= 1
       /\ IsFiniteSet(ibits) /\ Cardinality(ibits) <= 1
  <2>1. /\ IsFiniteSet(inode) /\ Cardinality(inode) = 1
        /\ IsFiniteSet(idata) /\ Cardinality(idata) = 1
        /\ IsFiniteSet(ibits) /\ Cardinality(ibits) = 1
    BY Zenon, FS_Singleton
  <2> HIDE DEF inode, idata, ibits
  <2> QED
    BY <2>1
<1>11. /\ IsFiniteSet(datas) /\ Cardinality(datas) <= c + u
       /\ IsFiniteSet(bits) /\ Cardinality(bits) <= c
  <2>1. DOMAIN g = D /\ DOMAIN h = B
    BY Zenon
  <2> HIDE DEF D, B, g, h
  <2> QED
    BY Zenon, <1>7, <1>8, <2>1, ImageFits
<1> HIDE DEF inode, idata, ibits, datas, bits, D, B, g, h, ind
<1>12. IsFiniteSet(inode \cup idata) /\ Cardinality(inode \cup idata) <= 1 + 1
  <2>1. 1 \in Nat
    OBVIOUS
  <2> QED
    BY Zenon, <1>10, <2>1, UnionFits
<1>13. IsFiniteSet(inode \cup idata \cup ibits) /\ Cardinality(inode \cup idata \cup ibits) <= 1 + 1 + 1
  <2>1. 1 \in Nat /\ 1 + 1 \in Nat
    OBVIOUS
  <2> QED
    BY Zenon, <1>10, <1>12, <2>1, UnionFits
<1>14. /\ IsFiniteSet(inode \cup idata \cup ibits \cup datas)
       /\ Cardinality(inode \cup idata \cup ibits \cup datas) <= 1 + 1 + 1 + (c + u)
  <2>1. 1 + 1 + 1 \in Nat /\ c + u \in Nat
    OBVIOUS
  <2> QED
    BY Zenon, <1>11, <1>13, <2>1, UnionFits
<1>15. /\ IsFiniteSet(inode \cup idata \cup ibits \cup datas \cup bits)
       /\ Cardinality(inode \cup idata \cup ibits \cup datas \cup bits) <= 1 + 1 + 1 + (c + u) + c
  <2>1. 1 + 1 + 1 + (c + u) \in Nat
    OBVIOUS
  <2> QED
    BY Zenon, <1>11, <1>14, <2>1, UnionFits
<1>16. Cardinality(L) <= 1 + 1 + 1 + (c + u) + c /\ Cardinality(L) \in Nat
  <2>1. 1 + 1 + 1 + (c + u) + c \in Nat /\ L \subseteq inode \cup idata \cup ibits \cup datas \cup bits
    BY <1>9
  <2> QED
    BY Zenon, <1>15, <2>1, SubsetFits
<1> QED
  BY <1>3, <1>4, <1>5, <1>16

-----------------------------------------------------------------------------
(* The block maps stay exact.                                              *)

LEMMA itruncKeeps ==
  ASSUME DataInv, NEW p \in Callers, itrunc(p)
  PROVE  DataInv' /\ MapsKept
<1> DEFINE i == op[p].i
           direct == {k \in 0..NDIRECT - 1 : addrs[i][k] # 0}
           ind == addrs[i][NDIRECT]
           left == Indirect(i, op[p].tot)
<1>1. dpc[p] = "itrunc" /\ off' = off
  BY Zenon DEF itrunc
<1>2. i \in Files /\ op[p].tot \in Nat
  <2>1. op[p] \in Ops /\ i \in Files
    BY Zenon, <1>1 DEF DataInv, DataTypes, InodeLocks, HasInode
  <2> QED
    BY <2>1 DEF Ops
<1>3. CASE /\ direct # {} /\ bfree(p, addrs[i][Min(direct)])
           /\ addrs' = [addrs EXCEPT ![i][Min(direct)] = 0]
           /\ UNCHANGED <<size, ilocked, dpc, op>>
  <2>1. direct \in SUBSET Nat
    BY Sizes
  <2>2. Min(direct) \in direct
    <3> HIDE DEF direct
    <3> QED
      BY Zenon, <1>3, <2>1, MinFacts
  <2>3. PICK k \in 0..(NDIRECT - 1) : k = Min(direct) /\ addrs[i][k] # 0
    BY Zenon, <2>2
  <2> QED
    BY Zenon, <1>1, <1>3, <2>3, FreeDirectKeeps
<1>4. CASE /\ left # {} /\ bfree(p, blk[ind][Min(left)])
           /\ op' = [op EXCEPT ![p].tot = Min(left) + 1]
           /\ UNCHANGED <<addrs, size, ilocked, dpc>>
  <2>1. ind # 0 /\ left = {k \in op[p].tot..NINDIRECT - 1 : blk[ind][k] # 0}
    BY Zenon, <1>4 DEF Indirect
  <2>2. left \in SUBSET Nat
    BY <1>2, <2>1, Sizes
  <2>3. Min(left) \in left /\ \A y \in left : Min(left) <= y
    <3> HIDE DEF left
    <3> QED
      BY Zenon, <1>4, <2>2, MinFacts
  <2>4. PICK n \in op[p].tot..NINDIRECT - 1 : n = Min(left) /\ blk[ind][n] # 0
    BY Zenon, <2>1, <2>3
  <2>5. n \in 0..(BSIZE - 1) /\ op[p].tot <= n
    BY <1>2, Sizes
  <2>6. ASSUME NEW m \in 0..(BSIZE - 1), op[p].tot <= m, m < n PROVE blk[ind][m] = 0
    <3>1. m \in op[p].tot..NINDIRECT - 1 /\ ~(n <= m)
      BY <1>2, <2>5, <2>6, Sizes
    <3> QED
      BY Zenon, <2>1, <2>3, <2>4, <3>1
  <2>7. FirstEntry(p, n)
    BY Zenon, <2>6 DEF FirstEntry
  <2> QED
    BY Zenon, <1>1, <1>4, <2>1, <2>4, <2>5, <2>7, FreeEntryKeeps
<1>5. CASE /\ left = {} /\ ind # 0 /\ bfree(p, ind) /\ addrs' = [addrs EXCEPT ![i][NDIRECT] = 0]
           /\ UNCHANGED <<size, ilocked, dpc, op>>
  BY Zenon, <1>1, <1>5, FreeIndirectKeeps
<1>6. CASE /\ ind = 0 /\ size' = [size EXCEPT ![i] = 0] /\ EndOp(p, i) /\ Goto(p, "idle", NoOp)
           /\ UNCHANGED <<used, blk, addrs, dpanic>>
  <2>1. TruncDone(p)
    BY Zenon, <1>1, <1>6 DEF TruncDone, EndOp
  <2> QED
    BY Zenon, <1>6, <2>1, TruncDoneKeeps, SameKept
<1> QED
  BY Zenon, <1>3, <1>4, <1>5, <1>6 DEF itrunc

LEMMA ExtendKeeps ==
  ASSUME DataInv, NEW p \in Callers, Extend(p)
  PROVE  DataInv' /\ MapsKept
<1> DEFINE o == op[p]
           i == o.i
           bn == Bn(o)
           b == Min(Blocks \ used)
<1>1. /\ dpc[p] = "writei" /\ o.tot < o.n1 /\ Mapped(i, bn) = 0
      /\ dpanic' = (dpanic \/ ~InRange(bn)) /\ UNCHANGED <<size, ilocked, off>>
  BY Zenon DEF Extend
<1>2. bn \in 0..(MAXFILE - 1) /\ ~dpanic'
  BY Zenon, <1>1, InBlock DEF DataInv
<1>3. i \in Files /\ ilocked[i] = p /\ o \in Ops /\ dpc[p] \in Writing
  BY Zenon, <1>1, WriterAlone DEF Writing
<1> HIDE DEF bn
<1>4. CASE used = Blocks /\ Goto(p, "written", o) /\ UNCHANGED <<used, blk, addrs>>
  <2>1. {"writei", "written"} \subseteq HasInode /\ "written" \in Labels /\ "written" # "itrunc"
    BY Zenon DEF HasInode, Labels
  <2>2. Moves(p, "written", o)
    BY Zenon, <1>3, <1>4, <2>1, GotoMoves DEF DataInv
  <2>3. InodeLocks' /\ ilocked' \in [Files -> Callers \cup {NoCaller}]
    BY Zenon, <1>1, <2>1, <2>2, LocksKept DEF DataInv, DataTypes
  <2>4. WriteOK("written", o)
    BY Zenon, <1>1, WriteCallsAre DEF DataInv, WriteOK, Writing
  <2> QED
    <3>1. MapsKept
      BY Zenon, <1>4, SameKept
    <3> QED
      BY Zenon, <1>1, <1>2, <1>3, <1>4, <2>2, <2>3, <2>4, <3>1, Pass
<1>5. CASE used # Blocks /\ bmap(p, i, bn) /\ UNCHANGED <<dpc, op>>
  <2>1. Blocks \ used # {} /\ Blocks \ used \in SUBSET Nat
    BY Zenon, <1>5, BlockNumbers DEF DataInv, DataTypes
  <2>2. b \in Blocks /\ b \notin used
    BY Zenon, <2>1, MinFacts
  <2>3. CASE bn < NDIRECT
    <3>1. bn \in 0..NDIRECT /\ addrs[i][bn] = 0
      BY Zenon, <1>1, <1>2, <2>3, PlaceOfIs DEF Mapped
    <3>2. used' = used \cup {b} /\ addrs' = [addrs EXCEPT ![i][bn] = b] /\ blk' = [blk EXCEPT ![b] = Zeros]
      BY Zenon, <1>5, <2>3 DEF bmap
    <3> HIDE DEF b
    <3> QED
      BY Zenon, <1>1, <1>2, <1>5, <2>2, <3>1, <3>2, NewAddrKeeps
  <2>4. CASE ~(bn < NDIRECT) /\ addrs[i][NDIRECT] = 0
    <3>1. NDIRECT \in 0..NDIRECT
      BY Sizes
    <3>2. used' = used \cup {b} /\ addrs' = [addrs EXCEPT ![i][NDIRECT] = b] /\ blk' = [blk EXCEPT ![b] = Zeros]
      BY Zenon, <1>5, <2>4 DEF bmap
    <3> HIDE DEF b
    <3> QED
      BY Zenon, <1>1, <1>2, <1>5, <2>2, <2>4, <3>1, <3>2, NewAddrKeeps
  <2>5. CASE ~(bn < NDIRECT) /\ addrs[i][NDIRECT] # 0
    <3>1. bn - NDIRECT \in 0..(BSIZE - 1) /\ blk[addrs[i][NDIRECT]][bn - NDIRECT] = 0
      BY Zenon, <1>1, <1>2, <2>5, PlaceOfIs DEF Mapped
    <3>2. /\ used' = used \cup {b} /\ addrs' = addrs
          /\ NewEntry(i, bn - NDIRECT, b)
      BY Zenon, <1>5, <2>5 DEF bmap, NewEntry
    <3>3. PICK e \in 0..(BSIZE - 1) : e = bn - NDIRECT
      BY Zenon, <3>1
    <3> HIDE DEF b
    <3> QED
      BY Zenon, <1>1, <1>2, <1>5, <2>2, <2>5, <3>1, <3>2, <3>3, NewEntryKeeps
  <2> QED
    BY Zenon, <2>3, <2>4, <2>5
<1> QED
  BY Zenon, <1>4, <1>5 DEF Extend, bn

LEMMA CopyBlockKeeps ==
  ASSUME DataInv, NEW p \in Callers, CopyBlock(p)
  PROVE  DataInv' /\ MapsKept
<1> DEFINE o == op[p]
           b == Mapped(o.i, Bn(o))
           S == {o.n1 - o.tot, BSIZE - (Offset(o) % BSIZE)}
           m == Min(S)
           o2 == [o EXCEPT !.tot = o.tot + m]
<1>1. /\ dpc[p] = "writei" /\ o.tot < o.n1 /\ b # 0
      /\ UNCHANGED <<used, addrs, size, ilocked, off, dpanic>>
  BY Zenon DEF CopyBlock
<1>2. o \in Ops /\ o.tot \in Nat /\ o.n1 \in Nat /\ o.tot <= o.n1
  BY Zenon, <1>1, WriterAlone DEF Writing
<1>3. Offset(o) % BSIZE \in 0..(BSIZE - 1)
  BY Zenon, <1>1, InBlock
<1>4. m \in Nat /\ m <= o.n1 - o.tot /\ (Offset(o) % BSIZE) + m <= BSIZE
  <2>1. S \in SUBSET Nat /\ S # {} /\ o.n1 - o.tot \in S /\ BSIZE - (Offset(o) % BSIZE) \in S
    BY <1>1, <1>2, <1>3, Sizes
  <2>2. m \in S /\ \A y \in S : m <= y
    <3> HIDE DEF S
    <3> QED
      BY Zenon, <2>1, MinFacts
  <2>3. m \in Nat /\ m <= o.n1 - o.tot /\ m <= BSIZE - (Offset(o) % BSIZE)
    <3> HIDE DEF S, m
    <3> QED
      BY Zenon, <2>1, <2>2
  <2> HIDE DEF m
  <2> QED
    BY <1>3, <2>3, Sizes
<1>5. CASE blk' = CopyIn(o, b, m) /\ Goto(p, "writei", o2)
  <2> HIDE DEF m
  <2>1. o.tot + m \in Nat /\ o.tot + m <= o.n1
    BY <1>2, <1>4
  <2>2. o2 \in Ops /\ o2.i = o.i /\ o2.f = o.f /\ o2.n1 = o.n1 /\ o2.rem = o.rem /\ o2.tot = o.tot + m
    <3> HIDE DEF o
    <3> QED
      BY <1>2, <2>1 DEF Ops
  <2> HIDE DEF o2
  <2>3. Copied(p, b, m, o2)
    BY Zenon, <1>1, <1>4, <1>5, <2>1, <2>2 DEF Copied
  <2> HIDE DEF b
  <2> QED
    BY Zenon, <1>4, <1>5, <2>2, <2>3, CopiedKeeps DEF Writing
<1>6. CASE (\E k \in 0..m - 1 : blk' = CopyIn(o, b, k)) /\ Goto(p, "written", o)
  <2>1. PICK k \in 0..m - 1 : blk' = CopyIn(o, b, k)
    BY Zenon, <1>6
  <2>2. k \in Nat
    <3> HIDE DEF m
    <3> QED
      BY <1>4
  <2>3. Copied(p, b, k, o)
    BY Zenon, <1>1, <1>2, <2>1 DEF Copied
  <2> HIDE DEF b
  <2> QED
    BY Zenon, <1>2, <1>6, <2>2, <2>3, CopiedKeeps DEF Writing
<1> QED
  BY Zenon, <1>5, <1>6 DEF CopyBlock

LEMMA DataStepInv == DataInv /\ [DataNext]_datavars => DataInv'
<1> SUFFICES ASSUME DataInv, [DataNext]_datavars PROVE DataInv'
  OBVIOUS
<1>1. CASE DataNext
  <2>1. PICK p \in Callers :
          \/ \E f \in OpenFiles, n \in Lens : BeginWrite(p, f, n) \/ FileRead(p, f, n)
          \/ \E i \in Files : BeginTrunc(p, i)
          \/ Chunk(p) \/ Extend(p) \/ CopyBlock(p) \/ Written(p) \/ EndChunk(p)
          \/ itrunc(p)
    BY Zenon, <1>1 DEF DataNext
  <2> QED
    BY Zenon, <2>1, BeginWriteKeeps, FileReadKeeps, BeginTruncKeeps, ChunkKeeps, ExtendKeeps,
       CopyBlockKeeps, WrittenKeeps, EndChunkKeeps, itruncKeeps
<1>2. CASE UNCHANGED datavars
  <2>1. UNCHANGED <<used, blk, addrs, size, ilocked, off, dpc, op, dpanic>>
    BY Zenon, <1>2 DEF datavars
  <2>2. DataTypes' /\ InodeLocks' /\ WriteCalls' /\ ~dpanic'
    BY Zenon, <2>1 DEF DataInv, DataTypes, InodeLocks, WriteCalls
  <2>3. \A j \in Files : Freed(j)' = Freed(j) /\ (Truncating(j)' <=> Truncating(j))
    BY Zenon, <2>1, <2>2, FreedKept DEF DataInv
  <2>4. /\ \A j \in Files : Truncating(j)' \/ \A x \in 0..(size'[j] - 1) : Good(j, x)
        /\ \A q \in Callers : dpc'[q] \in Writing =>
             \A x \in off'[op'[q].f]..(off'[op'[q].f] + op'[q].tot - 1) : Good(op'[q].i, x)
    BY Zenon, <2>1, <2>3 DEF DataInv, Contents, Writing
  <2> QED
    BY Zenon, <2>1, <2>2, <2>3, <2>4, Quiet
<1> QED
  BY Zenon, <1>1, <1>2

LEMMA DataInvariance == DataSpec => []DataInv
  BY DataInitInv, DataStepInv, PTL DEF DataSpec

\* Every block is free or in one place of one file, in all interleavings of
\* reads, writes and truncations, on a full disk too, and nothing panics.
THEOREM BlocksAreExact == DataSpec => []BlocksExact
<1>1. DataInv => BlocksExact
  <2> SUFFICES ASSUME DataInv PROVE BlocksExact
    OBVIOUS
  <2> DEFINE places == {x \in Files \X (0..NDIRECT + NINDIRECT) :
                          x[2] \in Places(x[1]) /\ BlockAt(x[1], x[2]) # 0}
             full == {x \in AllPlaces : Held[x] # 0}
             g == [x \in full |-> Held[x]]
  <2>1. AllPlaces = Files \X (0..NDIRECT + NINDIRECT)
    BY Zenon DEF AllPlaces, MAXFILE
  <2>2. \A x \in AllPlaces : Held[x] = IF x[2] \in Places(x[1]) THEN BlockAt(x[1], x[2]) ELSE 0
    BY Zenon DEF Held
  <2>3. places = full /\ \A x \in places : BlockAt(x[1], x[2]) = Held[x]
    BY Zenon, <2>1, <2>2
  <2>4. {BlockAt(x[1], x[2]) : x \in places} = {Held[x] : x \in full}
    <3> HIDE DEF places, full
    <3> QED
      BY Zenon, <2>3
  <2> HIDE DEF places
  <2>5. \A x \in full : Held[x] \in used
    BY Zenon, HeldOnce DEF DataInv
  <2>6. \A x, y \in full : Held[x] = Held[y] => x = y
    BY Zenon, HeldOnce DEF DataInv
  <2>7. \A a \in used : \E x \in full : Held[x] = a
    <3>1. DOMAIN Held = AllPlaces
      BY Zenon DEF Held
    <3>2. \A a \in used : \E x \in AllPlaces : Held[x] = a
      BY <3>1 DEF DataInv, Exact
    <3>3. \A a \in used : a # 0
      BY Zenon, BlockNumbers DEF DataInv, DataTypes
    <3> QED
      BY Zenon, <3>2, <3>3
  <2> HIDE DEF full
  <2>8. {Held[x] : x \in full} = used
    BY Zenon, <2>5, <2>7
  <2>9. g \in Bijection(full, used)
    <3>1. g \in [full -> used] /\ DOMAIN g = full /\ \A x \in full : g[x] = Held[x]
      BY Zenon, <2>5
    <3> HIDE DEF g
    <3>2. g \in Injection(full, used)
      BY <2>6, <3>1 DEF Injection, IsInjective
    <3>3. g \in Surjection(full, used)
      BY <2>7, <3>1 DEF Surjection
    <3> QED
      BY Zenon, <3>2, <3>3 DEF Bijection
  <2>10. IsFiniteSet(full)
    <3>1. IsFiniteSet(Files) /\ IsFiniteSet(0..MAXFILE)
      BY FileAssumption, FS_Interval, Sizes
    <3>2. IsFiniteSet(AllPlaces)
      BY Zenon, <3>1, FS_Product DEF AllPlaces
    <3> QED
      BY Zenon, <3>2, FS_Subset DEF full
  <2> HIDE DEF g
  <2>11. Cardinality(full) = Cardinality(used)
    BY Zenon, <2>9, <2>10, FS_Bijection DEF ExistsBijection
  <2> QED
    BY Zenon, <2>3, <2>4, <2>8, <2>11 DEF BlocksExact, DataInv, places
<1> QED
  BY <1>1, DataInvariance, PTL

-----------------------------------------------------------------------------
(* Every chunk fits in the log.                                            *)

LEMMA ExtendLogs ==
  ASSUME DataInv, LoggedInv, NEW p \in Callers, Extend(p)
  PROVE  LoggedInv'
<1>1. /\ dpc[p] = "writei" /\ op[p].tot < op[p].n1 /\ Mapped(op[p].i, Bn(op[p])) = 0
      /\ off' = off /\ MapsKept /\ dpc[p] \in Writing
  BY Zenon, ExtendKeeps DEF Extend, Writing
<1>2. CASE Goto(p, "written", op[p]) /\ UNCHANGED logged
  <2>1. /\ dpc'[p] = "written" /\ op'[p] = op[p]
        /\ \A q \in Callers : q # p => dpc'[q] = dpc[q] /\ op'[q] = op[q]
    BY Zenon, <1>2, GotoIs
  <2>2. OnlyLogs(p, logged[p]) /\ dpc'[p] \in Writing
    BY Zenon, <1>2, <2>1, LogsNothing DEF Writing
  <2> QED
    BY Zenon, <1>1, <2>1, <2>2, WriterLogs
<1>3. CASE used # Blocks /\ bmap(p, op[p].i, Bn(op[p])) /\ UNCHANGED <<dpc, op>>
  <2>1. PICK n \in 0..(MAXFILE - 1) : n = Bn(op[p])
    BY Zenon, <1>1, InBlock
  <2>2. Blocks \ used # {} /\ Blocks \ used \in SUBSET Nat
    BY Zenon, <1>3, BlockNumbers DEF DataInv, DataTypes
  <2>3. PICK b \in Blocks : b = Min(Blocks \ used)
    BY Zenon, <2>2, MinFacts
  <2>4. NewBlock(p, n, b)
    BY Zenon, <1>1, <1>3, <2>1, <2>3, TouchesBn DEF NewBlock
  <2>5. \E bs : log_write(p, bs) /\ \A x \in bs : InChunk(op[p], x)'
    BY Zenon, <2>4, BmapLogs
  <2>6. PICK bs : log_write(p, bs) /\ \A x \in bs : InChunk(op[p], x)'
    BY Zenon, <2>5
  <2>7. OnlyLogs(p, logged[p] \cup bs)
    BY Zenon, <2>6, Logs DEF log_write
  <2>8. \A x \in logged[p] \cup bs : x \in logged[p] \/ InChunk(op[p], x)'
    BY Zenon, <2>6
  <2>9. /\ dpc'[p] \in Writing /\ op'[p] = op[p]
        /\ \A q \in Callers : q # p => dpc'[q] = dpc[q] /\ op'[q] = op[q]
    BY Zenon, <1>1, <1>3
  <2> QED
    BY Zenon, <1>1, <2>7, <2>8, <2>9, WriterLogs
<1> QED
  BY Zenon, <1>2, <1>3 DEF Extend

LEMMA CopyLogs ==
  ASSUME DataInv, LoggedInv, NEW p \in Callers, CopyBlock(p)
  PROVE  LoggedInv'
<1> DEFINE o == op[p]
           m == Min({o.n1 - o.tot, BSIZE - (Offset(o) % BSIZE)})
           o2 == [o EXCEPT !.tot = o.tot + m]
<1>1. /\ dpc[p] = "writei" /\ o.tot < o.n1 /\ off' = off /\ MapsKept /\ dpc[p] \in Writing /\ o \in Ops
      /\ Mapped(o.i, Bn(o)) # 0
  BY Zenon, CopyBlockKeeps, WriterAlone DEF CopyBlock, Writing
<1>2. PICK n \in 0..(MAXFILE - 1) : n = Bn(o) /\ Touches(o, n)
  BY Zenon, <1>1, InBlock, TouchesBn
<1>3. CASE log_write(p, {Data(Mapped(o.i, n))}) /\ Goto(p, "writei", o2)
  <2>1. o2.f = o.f /\ o2.i = o.i /\ o2.n1 = o.n1
    <3> HIDE DEF o, m
    <3> QED
      BY <1>1 DEF Ops
  <2> HIDE DEF o2
  <2>2. /\ dpc'[p] = "writei" /\ op'[p] = o2
        /\ \A q \in Callers : q # p => dpc'[q] = dpc[q] /\ op'[q] = op[q]
    BY Zenon, <1>3, GotoIs
  <2>3. PICK y : y = Data(Mapped(o.i, n))
    BY Zenon
  <2>4. OnlyLogs(p, logged[p] \cup {y})
    BY Zenon, <1>3, <2>3, Logs DEF log_write
  <2>5. InChunk(op[p], y)
    BY Zenon, <1>1, <1>2, <2>3 DEF InChunk
  <2>6. op'[p].f = op[p].f /\ op'[p].i = op[p].i /\ op'[p].n1 = op[p].n1 /\ off'[op[p].f] = off[op[p].f]
    BY Zenon, <1>1, <2>1, <2>2
  <2>7. InChunk(op[p], y)'
    BY Zenon, <1>1, <2>5, <2>6, ChunkKept
  <2>8. \A x \in logged[p] \cup {y} : x \in logged[p] \/ InChunk(op[p], x)'
    BY Zenon, <2>7
  <2>9. dpc'[p] \in Writing
    BY Zenon, <2>2 DEF Writing
  <2> QED
    BY Zenon, <1>1, <2>2, <2>4, <2>6, <2>8, <2>9, WriterLogs
<1>4. CASE Goto(p, "written", o) /\ UNCHANGED logged
  <2>1. /\ dpc'[p] = "written" /\ op'[p] = op[p]
        /\ \A q \in Callers : q # p => dpc'[q] = dpc[q] /\ op'[q] = op[q]
    BY Zenon, <1>4, GotoIs
  <2>2. OnlyLogs(p, logged[p]) /\ dpc'[p] \in Writing
    BY Zenon, <1>4, <2>1, LogsNothing DEF Writing
  <2> QED
    BY Zenon, <1>1, <2>1, <2>2, WriterLogs
<1> QED
  BY Zenon, <1>2, <1>3, <1>4 DEF CopyBlock

LEMMA WrittenLogs ==
  ASSUME DataInv, LoggedInv, NEW p \in Callers, Written(p)
  PROVE  LoggedInv'
<1> DEFINE o == op[p]
           L == logged[p] \cup {Dinode(o.i)}
<1>1. /\ dpc[p] \in Writing /\ UNCHANGED <<blk, addrs>> /\ logged' = [logged EXCEPT ![p] = L]
      /\ off' = [off EXCEPT ![o.f] = Offset(o)]
  BY Zenon DEF Written, Writing, log_write
<1>2. \E r : Goto(p, "endop", r)
  BY Zenon DEF Written
<1>3. PICK r : Goto(p, "endop", r)
  BY Zenon, <1>2
<1>4. dpc'[p] = "endop" /\ \A q \in Callers : q # p => dpc'[q] = dpc[q] /\ op'[q] = op[q]
  BY Zenon, <1>3, GotoIs
<1>5. MapsKept /\ OnlyLogs(p, L)
  BY Zenon, <1>1, SameKept, Logs
<1>6. LoggedOK(p)
  BY Zenon DEF LoggedInv
<1>7. \A x \in L : InChunk(op[p], x)
  BY Zenon, <1>1, <1>6 DEF LoggedOK, InChunk
<1>8. op[p].n1 <= max
  BY Zenon, <1>1, <1>6 DEF LoggedOK
<1> HIDE DEF L
<1>9. Cardinality(L) <= MAXOPBLOCKS
  BY Zenon, <1>1, <1>7, <1>8, ChunkBound
<1>10. LoggedOK(p)'
  <2>1. dpc'[p] \notin {"idle", "chunk"} /\ dpc'[p] \notin Writing /\ logged'[p] = L
    BY Zenon, <1>4, <1>5 DEF Writing, OnlyLogs
  <2> QED
    BY Zenon, <1>9, <2>1 DEF LoggedOK
<1>11. ASSUME NEW q \in Callers, q # p, dpc[q] \in Writing PROVE off'[op[q].f] = off[op[q].f]
  <2>1. o.i \in Files /\ ilocked[o.i] \in {p, NoCaller} /\ o.f \in OpenFiles /\ o.f.ip = o.i
    BY Zenon, <1>1, WriterAlone
  <2>2. op[q].f # o.f
    BY Zenon, <1>11, <2>1, WritesElsewhere
  <2>3. op[q].f \in OpenFiles /\ off \in [OpenFiles -> Nat]
    BY Zenon, <1>11, WriterAlone DEF DataInv, DataTypes
  <2> QED
    BY Zenon, <1>1, <2>2, <2>3
<1> QED
  BY Zenon, <1>4, <1>5, <1>10, <1>11, LoggedStep

LEMMA itruncLogs ==
  ASSUME DataInv, LoggedInv, NEW p \in Callers, itrunc(p)
  PROVE  LoggedInv'
<1>1. dpc[p] = "itrunc" /\ off' = off /\ MapsKept
  BY Zenon, itruncKeeps DEF itrunc
<1>2. CASE UNCHANGED dpc /\ \E b : bfree(p, b)
  <2>1. PICK b : bfree(p, b)
    BY Zenon, <1>2
  <2>2. OnlyLogs(p, logged[p] \cup {Bitmap(b)})
    BY Zenon, <2>1, Logs DEF bfree, log_write
  <2>3. dpc'[p] = "itrunc" /\ \A q \in Callers : q # p => dpc'[q] = dpc[q]
    BY Zenon, <1>1, <1>2
  <2>4. \E r : op' = [op EXCEPT ![p] = r] \/ op' = op
    BY Zenon, <1>2 DEF itrunc, Goto
  <2>5. \A q \in Callers : q # p => op'[q] = op[q]
    BY Zenon, <2>4 DEF DataInv, DataTypes
  <2>6. LoggedOK(p)'
    BY Zenon, <2>3, LoggedNothing
  <2> QED
    BY Zenon, <1>1, <2>2, <2>3, <2>5, <2>6, LoggedStep
<1>3. CASE EndOp(p, op[p].i) /\ Goto(p, "idle", NoOp)
  <2>1. dpc'[p] = "idle" /\ \A q \in Callers : q # p => dpc'[q] = dpc[q] /\ op'[q] = op[q]
    BY Zenon, <1>3, GotoIs
  <2>2. OnlyLogs(p, {})
    BY Zenon, <1>3, Logs DEF EndOp
  <2>3. LoggedOK(p)'
    BY Zenon, <2>1, <2>2, LoggedNothing DEF OnlyLogs
  <2> QED
    BY Zenon, <1>1, <2>1, <2>2, <2>3, LoggedStep
<1> QED
  BY Zenon, <1>2, <1>3 DEF itrunc

LEMMA LoggedStepInv == DataInv /\ LoggedInv /\ [DataNext]_datavars => LoggedInv'
<1> SUFFICES ASSUME DataInv, LoggedInv, [DataNext]_datavars PROVE LoggedInv'
  OBVIOUS
<1>1. ASSUME NEW p \in Callers,
             \/ \E f \in OpenFiles, n \in Lens : BeginWrite(p, f, n) \/ FileRead(p, f, n)
             \/ \E i \in Files : BeginTrunc(p, i)
      PROVE  LoggedInv'
  BY Zenon, <1>1, BeginLogs
<1>2. ASSUME NEW p \in Callers,
             Chunk(p) \/ Extend(p) \/ CopyBlock(p) \/ Written(p) \/ EndChunk(p) \/ itrunc(p)
      PROVE  LoggedInv'
  BY Zenon, <1>2, ChunkLogs, ExtendLogs, CopyLogs, WrittenLogs, EndLogs, itruncLogs
<1>3. CASE UNCHANGED datavars
  BY Zenon, <1>3, LoggedStutter
<1> QED
  BY Zenon, <1>1, <1>2, <1>3 DEF DataNext

\* What a file holds below its size is what was written at that offset, and a
\* chunk of filewrite logs no more than begin_op reserves for it, for every
\* number of processes and files, every block size and every size of a chunk.
THEOREM ContentIsExact == DataSpec => []ContentExact
<1>1. DataInv => HoldsWhatWasWritten
  <2> SUFFICES ASSUME DataInv, NEW i \in Files
               PROVE  \/ \E p \in Callers : dpc[p] = "itrunc" /\ op[p].i = i
                      \/ \A o \in 0..size[i] - 1 :
                           LET b == Mapped(i, o \div BSIZE)
                           IN  b # 0 /\ blk[b][o % BSIZE] = Datum(i, o)
    BY Zenon DEF HoldsWhatWasWritten
  <2> QED
    BY Zenon DEF DataInv, Contents, Good, Truncating
<1>2. DataInv /\ LoggedInv => ChunkFits
  <2> SUFFICES ASSUME DataInv, LoggedInv, NEW p \in Callers, dpc[p] # "itrunc"
               PROVE  Cardinality(logged[p]) <= MAXOPBLOCKS
    BY Zenon DEF ChunkFits
  <2>1. LoggedOK(p) /\ dpc[p] \in Labels
    BY Zenon DEF LoggedInv, DataInv, DataTypes
  <2>2. CASE dpc[p] \in {"idle", "chunk"}
    <3>1. logged[p] = {}
      BY Zenon, <2>1, <2>2 DEF LoggedOK
    <3>2. Cardinality({}) = 0
      BY Zenon, FS_EmptySet
    <3> QED
      BY <3>1, <3>2, FileAssumption
  <2>3. CASE dpc[p] \in Writing
    <3>1. op[p].n1 <= max /\ \A x \in logged[p] : InChunk(op[p], x)
      BY Zenon, <2>1, <2>3 DEF LoggedOK
    <3> QED
      BY Zenon, <2>3, <3>1, ChunkBound
  <2>4. CASE dpc[p] = "endop"
    BY Zenon, <2>1, <2>4 DEF LoggedOK
  <2> QED
    BY Zenon, <2>1, <2>2, <2>3, <2>4 DEF Labels, HasInode, Writing
<1>3. DataInv /\ LoggedInv => ContentExact
  BY Zenon, <1>1, <1>2 DEF ContentExact
<1>4. DataSpec => []LoggedInv
  BY DataInvariance, LoggedInit, LoggedStepInv, PTL DEF DataSpec
<1> QED
  BY <1>3, <1>4, DataInvariance, PTL

==============================================================================
