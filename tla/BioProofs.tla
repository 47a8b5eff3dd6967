------------------------------- MODULE BioProofs -------------------------------
(***************************************************************************)
(* Proofs about Bio, for any number of processes, buffers and blocks.      *)
(***************************************************************************)
EXTENDS Bio, FiniteSetTheorems, WellFoundedInduction, TLAPS

Requests == [buf : Bufs, blk : Blocks, write : BOOLEAN, done : BOOLEAN]

TypeOK ==
  /\ bpc \in [Users -> {"idle", "lock", "io", "held", "put"}]
  /\ cur \in [Users -> Bufs \cup {NoBuf}]
  /\ blockno \in [Bufs -> Blocks \cup {NoBlock}]
  /\ bdata \in [Bufs -> Contents]
  /\ refcnt \in [Bufs -> Nat]
  /\ valid \in [Bufs -> BOOLEAN]
  /\ holder \in [Bufs -> Users \cup {Nobody}]
  /\ pinned \in SUBSET Blocks
  /\ req \in [Users -> Requests \cup {NoCall}]
  /\ medium \in [Blocks -> Contents]
  /\ bpanic = FALSE

\* The list is a permutation of the buffers.
ListInv == /\ lru \in [1..Cardinality(Bufs) -> Bufs]
           /\ \A b \in Bufs : \E i \in 1..Cardinality(Bufs) : lru[i] = b
           /\ \A i, j \in 1..Cardinality(Bufs) : lru[i] = lru[j] => i = j

\* The users of a buffer, and what they are in the middle of.
UsersInv ==
  /\ \A p \in Users : bpc[p] = "idle" <=> cur[p] = NoBuf
  /\ \A p \in Users : cur[p] # NoBuf => blockno[cur[p]] # NoBlock
  /\ \A p \in Users : bpc[p] \in {"held", "put"} => valid[cur[p]]
  /\ \A b \in Bufs, p \in Users : holder[b] = p <=> cur[p] = b /\ bpc[p] \in {"io", "held"}

\* One buffer for a block, counted exactly; a pinned block stays.
CacheInv ==
  /\ \A b, c \in Bufs : blockno[b] = blockno[c] /\ blockno[b] # NoBlock => b = c
  /\ \A b \in Bufs : valid[b] => blockno[b] # NoBlock
  /\ \A b \in Bufs : refcnt[b] = Refs(b)
  /\ \A k \in pinned : \E b \in Bufs : blockno[b] = k /\ valid[b]

\* Buffer b is being written through, and the disk does not have it yet.
Writing(b) == \E p \in Users : /\ req[p] # NoCall /\ req[p].buf = b
                               /\ req[p].write /\ ~req[p].done

\* A call of the disk is for the buffer its caller has locked; and a valid buffer
\* that nobody is to write is what the disk has.
DataInv ==
  /\ \A p \in Users : bpc[p] = "io" <=> req[p] # NoCall
  /\ \A p \in Users : req[p] # NoCall =>
       /\ req[p].buf = cur[p] /\ req[p].blk = blockno[cur[p]]
       /\ req[p].write <=> valid[cur[p]]
       /\ ~req[p].write /\ req[p].done => bdata[cur[p]] = medium[blockno[cur[p]]]
  /\ \A b \in Bufs : valid[b] /\ blockno[b] \notin pinned /\ ~Writing(b)
                       => bdata[b] = medium[blockno[b]]

IInv == TypeOK /\ ListInv /\ UsersInv /\ CacheInv /\ DataInv

-----------------------------------------------------------------------------
(* Consequences of the definitions.                                        *)

\* A process with a buffer has one that caches a block, and while it has the
\* buffer's lock nobody else has.
LEMMA Buffer ==
  ASSUME IInv, NEW p \in Users, bpc[p] # "idle"
  PROVE  /\ cur[p] \in Bufs /\ blockno[cur[p]] \in Blocks
         /\ bpc[p] \in {"io", "held"} =>
              /\ holder[cur[p]] = p
              /\ \A q \in Users : cur[q] = cur[p] /\ bpc[q] \in {"io", "held"} => q = p
<1>1. cur[p] \in Bufs
  BY DEF IInv, TypeOK, UsersInv
<1>2. blockno[cur[p]] \in Blocks
  BY <1>1, BioAssumption DEF IInv, TypeOK, UsersInv
<1>3. ASSUME bpc[p] \in {"io", "held"}
      PROVE  /\ holder[cur[p]] = p
             /\ \A q \in Users : cur[q] = cur[p] /\ bpc[q] \in {"io", "held"} => q = p
  BY <1>1, <1>3 DEF IInv, UsersInv
<1> QED
  BY Zenon, <1>1, <1>2, <1>3

\* The processes that have buffer b.
Using(b) == {p \in Users : cur[p] = b}

LEMMA RefsType ==
  ASSUME NEW b
  PROVE  /\ IsFiniteSet(Using(b)) /\ Cardinality(Using(b)) \in Nat
         /\ Refs(b) = Cardinality(Using(b)) + (IF blockno[b] \in pinned THEN 1 ELSE 0)
         /\ Refs(b) \in Nat
<1>1. IsFiniteSet(Using(b))
  BY Zenon, BioAssumption, FS_Subset DEF Using
<1>2. Cardinality(Using(b)) \in Nat
  BY Zenon, <1>1, FS_CardinalityType
<1> QED
  BY <1>1, <1>2 DEF Refs, Using

\* A step that takes and drops no reference.
LEMMA RefsSame ==
  ASSUME cur' = cur, blockno' = blockno, pinned' = pinned
  PROVE  \A b : Refs(b)' = Refs(b)
  BY Zenon DEF Refs

\* A process takes a buffer.
LEMMA RefsTake ==
  ASSUME TypeOK, NEW p \in Users, NEW c \in Bufs, cur[p] = NoBuf,
         cur' = [cur EXCEPT ![p] = c], pinned' = pinned,
         NEW b \in Bufs, blockno'[b] \in pinned <=> blockno[b] \in pinned
  PROVE  Refs(b)' = IF b = c THEN Refs(b) + 1 ELSE Refs(b)
<1>1. b # NoBuf
  BY Zenon, BioAssumption
<1>2. Using(b)' = IF b = c THEN Using(b) \cup {p} ELSE Using(b)
  BY Zenon, <1>1 DEF Using, TypeOK
<1>3. p \notin Using(b)
  BY Zenon, <1>1 DEF Using
<1>4. Cardinality(Using(b) \cup {p}) = Cardinality(Using(b)) + 1
  BY Zenon, <1>3, RefsType, FS_AddElement
<1>5. Cardinality(Using(b)') = IF b = c THEN Cardinality(Using(b)) + 1 ELSE Cardinality(Using(b))
  BY Zenon, <1>2, <1>4
<1>6. Refs(b)' = Cardinality(Using(b)') + (IF blockno[b] \in pinned THEN 1 ELSE 0)
  BY Zenon DEF Refs, Using
<1> QED
  BY <1>5, <1>6, RefsType

\* A process gives its buffer back.
LEMMA RefsDrop ==
  ASSUME TypeOK, NEW p \in Users, cur[p] \in Bufs,
         cur' = [cur EXCEPT ![p] = NoBuf], pinned' = pinned, blockno' = blockno,
         NEW b \in Bufs
  PROVE  /\ Refs(b)' = IF b = cur[p] THEN Refs(b) - 1 ELSE Refs(b)
         /\ b = cur[p] => Refs(b) >= 1
<1>1. b # NoBuf
  BY Zenon, BioAssumption
<1>2. Using(b)' = IF b = cur[p] THEN Using(b) \ {p} ELSE Using(b)
  BY Zenon, <1>1 DEF Using, TypeOK
<1>3. b = cur[p] => p \in Using(b)
  BY Zenon DEF Using
<1>4. b = cur[p] => Cardinality(Using(b) \ {p}) = Cardinality(Using(b)) - 1
  BY Zenon, <1>3, RefsType, FS_RemoveElement
<1>5. b = cur[p] => Cardinality(Using(b) \ {p}) \in Nat
  BY Zenon, RefsType, FS_RemoveElement, FS_CardinalityType
<1>6. Cardinality(Using(b)') = IF b = cur[p] THEN Cardinality(Using(b)) - 1 ELSE Cardinality(Using(b))
  BY Zenon, <1>2, <1>4
<1>7. Refs(b)' = Cardinality(Using(b)') + (IF blockno[b] \in pinned THEN 1 ELSE 0)
  BY Zenon DEF Refs, Using
<1> QED
  BY <1>4, <1>5, <1>6, <1>7, RefsType

\* A buffer without references has no user and is not pinned.
LEMMA NoRefs ==
  ASSUME NEW b, Refs(b) = 0
  PROVE  blockno[b] \notin pinned /\ \A p \in Users : cur[p] # b
<1>1. Cardinality(Using(b)) = 0 /\ blockno[b] \notin pinned
  BY RefsType
<1>2. Using(b) = {}
  BY Zenon, <1>1, RefsType, FS_EmptySet
<1> QED
  BY Zenon, <1>1, <1>2 DEF Using

\* A list stays a list.
LEMMA FrontList ==
  ASSUME ListInv, NEW b \in Bufs, lru' = MoveToFront(b)
  PROVE  ListInv'
<1> DEFINE N == Cardinality(Bufs)
           i == CHOOSE j \in DOMAIN lru : lru[j] = b
           l == [j \in 1..N |-> IF j = 1 THEN b ELSE IF j <= i THEN lru[j - 1] ELSE lru[j]]
<1>1. N \in Nat
  BY Zenon, BioAssumption, FS_CardinalityType
<1>2. DOMAIN lru = 1..N
  BY Zenon DEF ListInv
<1>3. i \in 1..N /\ lru[i] = b
  <2>1. \E j \in DOMAIN lru : lru[j] = b
    BY Zenon, <1>2 DEF ListInv
  <2> QED
    BY Zenon, <1>2, <2>1
<1>4. lru' = l
  BY Zenon, <1>2 DEF MoveToFront
<1> HIDE DEF i
<1>5. l \in [1..N -> Bufs]
  <2> SUFFICES ASSUME NEW j \in 1..N
               PROVE  (IF j = 1 THEN b ELSE IF j <= i THEN lru[j - 1] ELSE lru[j]) \in Bufs
    BY Zenon
  <2>1. j # 1 => j - 1 \in 1..N
    BY <1>1
  <2> QED
    BY Zenon, <2>1 DEF ListInv
<1>6. ASSUME NEW c \in Bufs PROVE \E j \in 1..N : l[j] = c
  <2>1. PICK j \in 1..N : lru[j] = c
    BY Zenon DEF ListInv
  <2>2. CASE c = b
    <3>1. 1 \in 1..N
      BY <1>1, <1>3
    <3>2. l[1] = b
      BY Zenon, <3>1
    <3> QED
      BY Zenon, <2>2, <3>1, <3>2
  <2>3. CASE j < i
    <3>1. j + 1 \in 1..N /\ j + 1 # 1 /\ j + 1 <= i /\ (j + 1) - 1 = j
      BY <1>1, <1>3, <2>3
    <3>2. l[j + 1] = lru[(j + 1) - 1]
      BY Zenon, <3>1
    <3> QED
      BY Zenon, <2>1, <3>1, <3>2
  <2>4. CASE j > i
    <3>1. j # 1 /\ ~(j <= i)
      BY <1>1, <1>3, <2>4
    <3> QED
      BY Zenon, <2>1, <3>1
  <2> QED
    BY <1>1, <1>3, <2>1, <2>2, <2>3, <2>4
<1>7. ASSUME NEW j \in 1..N, NEW k \in 1..N, l[j] = l[k] PROVE j = k
  <2>1. \A x, y \in 1..N : lru[x] = lru[y] => x = y
    BY Zenon DEF ListInv
  <2>2. \A x \in 1..N : x # 1 => x - 1 \in 1..N
    BY <1>1
  <2>3. \A x \in 1..N : l[x] = IF x = 1 THEN lru[i] ELSE IF x <= i THEN lru[x - 1] ELSE lru[x]
    BY Zenon, <1>3
  <2> HIDE DEF l, N
  <2>4. CASE j = 1
    BY <1>1, <1>3, <1>7, <2>1, <2>2, <2>3, <2>4
  <2>5. CASE k = 1
    BY <1>1, <1>3, <1>7, <2>1, <2>2, <2>3, <2>5
  <2>6. CASE j # 1 /\ k # 1
    BY <1>1, <1>3, <1>7, <2>1, <2>2, <2>3, <2>6
  <2> QED
    BY Zenon, <2>4, <2>5, <2>6
<1> QED
  BY Zenon, <1>4, <1>5, <1>6, <1>7 DEF ListInv

\* bget takes a buffer that is in the list.
LEMMA LastUnused ==
  ASSUME ListInv, Unused # {}
  PROVE  LET i == CHOOSE i \in Unused : \A j \in Unused : j <= i
         IN  lru[i] \in Bufs /\ refcnt[lru[i]] = 0
<1> DEFINE N == Cardinality(Bufs)
           R == OpToRel(<, Nat)
           S == {m \in Nat : N - m \in Unused}
<1>1. N \in Nat
  BY Zenon, BioAssumption, FS_CardinalityType
<1>2. Unused \subseteq 1..N
  BY Zenon DEF Unused, ListInv
<1>3. IsWellFoundedOn(R, Nat)
  BY Zenon, NatLessThanWellFounded
<1>4. \A x, y \in Nat : <<x, y>> \in R <=> x < y
  BY Zenon DEF OpToRel
<1> HIDE DEF R
<1>5. PICK u \in Unused : TRUE
  BY Zenon
<1>6. N - u \in S
  <2>1. u \in 1..N
    BY Zenon, <1>2, <1>5
  <2>2. N - u \in Nat /\ N - (N - u) = u
    BY <1>1, <2>1
  <2> QED
    BY Zenon, <1>5, <2>2
<1>7. PICK m \in S : \A y \in S : <<y, m>> \notin R
  <2>1. S \subseteq Nat /\ S # {}
    BY Zenon, <1>6
  <2> HIDE DEF S
  <2> QED
    BY Zenon, <1>3, <2>1, WFMin
<1>8. m \in Nat /\ N - m \in Unused
  BY Zenon, <1>7
<1>9. ASSUME NEW j \in Unused PROVE j <= N - m
  <2>1. j \in 1..N
    BY Zenon, <1>2
  <2>2. N - j \in Nat /\ N - (N - j) = j
    BY <1>1, <2>1
  <2>3. N - j \in S
    BY Zenon, <2>2
  <2>4. ~(N - j < m)
    BY Zenon, <1>4, <1>7, <1>8, <2>2, <2>3
  <2> QED
    BY <1>1, <1>8, <2>1, <2>2, <2>4
<1> DEFINE i == CHOOSE i \in Unused : \A j \in Unused : j <= i
<1>10. i \in Unused
  BY Zenon, <1>8, <1>9
<1> QED
  BY Zenon, <1>10 DEF Unused, ListInv

-----------------------------------------------------------------------------
(* The invariant holds initially, and every step keeps it.                 *)

LEMMA InitInv == BioInit => IInv
<1> SUFFICES ASSUME BioInit PROVE IInv
  BY Zenon
<1>1. TypeOK
  BY Zenon DEF BioInit, TypeOK
<1>2. ListInv
  <2> DEFINE N == Cardinality(Bufs)
  <2>1. IsFiniteSet(1..N) /\ Cardinality(1..N) = N
    BY BioAssumption, FS_CardinalityType, FS_Interval
  <2>2. PICK f : f \in Bijection(1..N, Bufs)
    BY Zenon, BioAssumption, FS_CardinalityType DEF ExistsBijection
  <2>3. f \in [1..N -> Bufs] /\ Range(f) = Bufs
    BY Zenon, <2>2 DEF Bijection, Surjection, Injection, Range
  <2>4. lru \in [1..N -> Bufs] /\ Range(lru) = Bufs
    BY Zenon, <2>3 DEF BioInit
  <2>5. \A b \in Bufs : \E j \in 1..N : lru[j] = b
    BY Zenon, <2>4 DEF Range
  <2>6. lru \in Surjection(1..N, Bufs)
    BY Zenon, <2>4, <2>5 DEF Surjection
  <2>7. lru \in Injection(1..N, Bufs)
    BY Zenon, <2>1, <2>6, BioAssumption, FS_SurjSameCardinalityImpliesInj
  <2> QED
    BY Zenon, <2>4, <2>5, <2>7 DEF ListInv, Injection, IsInjective
<1>3. UsersInv
  BY Zenon, BioAssumption DEF BioInit, UsersInv
<1>4. \A b \in Bufs : Refs(b) = 0
  <2> SUFFICES ASSUME NEW b \in Bufs PROVE Refs(b) = 0
    BY Zenon
  <2>1. Using(b) = {}
    BY Zenon, BioAssumption DEF Using, BioInit
  <2>2. Cardinality(Using(b)) = 0
    BY Zenon, <2>1, FS_EmptySet
  <2> QED
    BY <2>2, RefsType DEF BioInit
<1>5. CacheInv
  BY Zenon, <1>4 DEF BioInit, CacheInv
<1>6. DataInv
  BY Zenon DEF BioInit, DataInv
<1> QED
  BY Zenon, <1>1, <1>2, <1>3, <1>5, <1>6 DEF IInv

LEMMA HitKeeps ==
  ASSUME IInv, NEW p \in Users, NEW k \in Blocks, bgetHit(p, k)
  PROVE  IInv'
<1>1. PICK b \in Bufs : /\ blockno[b] = k
                        /\ refcnt' = [refcnt EXCEPT ![b] = @ + 1]
                        /\ cur' = [cur EXCEPT ![p] = b]
  BY Zenon DEF bgetHit, Cached
<1>2. bpc[p] = "idle" /\ cur[p] = NoBuf /\ k # NoBlock /\ b # NoBuf
  BY Zenon, BioAssumption DEF bgetHit, IInv, UsersInv
<1>3. TypeOK'
  BY <1>1 DEF bgetHit, BGoto, IInv, TypeOK
<1>4. ListInv'
  BY Zenon DEF bgetHit, IInv, ListInv
<1>5. UsersInv'
  BY <1>1, <1>2 DEF bgetHit, BGoto, IInv, TypeOK, UsersInv
<1>6. CacheInv'
  <2>1. \A c \in Bufs : refcnt'[c] = Refs(c)'
    <3> SUFFICES ASSUME NEW c \in Bufs PROVE refcnt'[c] = Refs(c)'
      BY Zenon
    <3>1. Refs(c)' = IF c = b THEN Refs(c) + 1 ELSE Refs(c)
      BY Zenon, <1>1, <1>2, RefsTake DEF bgetHit, IInv
    <3> QED
      BY Zenon, <1>1, <3>1 DEF IInv, TypeOK, CacheInv
  <2> QED
    BY Zenon, <2>1 DEF bgetHit, IInv, CacheInv
<1>7. DataInv'
  <2>1. \A q \in Users : q # p => cur'[q] = cur[q] /\ bpc'[q] = bpc[q]
    BY Zenon, <1>1 DEF bgetHit, BGoto, IInv, TypeOK
  <2>2. req[p] = NoCall /\ bpc'[p] = "lock"
    BY Zenon, <1>2 DEF bgetHit, BGoto, IInv, TypeOK, DataInv
  <2>3. \A c \in Bufs : Writing(c)' <=> Writing(c)
    BY Zenon DEF bgetHit, Writing
  <2> QED
    BY <1>2, <2>1, <2>2, <2>3 DEF bgetHit, IInv, DataInv
<1> QED
  BY Zenon, <1>3, <1>4, <1>5, <1>6, <1>7 DEF IInv

LEMMA RecycleKeeps ==
  ASSUME IInv, NEW p \in Users, NEW k \in Blocks, bgetRecycle(p, k)
  PROVE  IInv'
<1>1. Unused # {}
  <2>1. PICK b \in Bufs : Refs(b) = 0
    BY Zenon DEF bgetRecycle
  <2>2. refcnt[b] = 0 /\ \E i \in DOMAIN lru : lru[i] = b
    BY Zenon, <2>1 DEF IInv, CacheInv, ListInv
  <2> QED
    BY Zenon, <2>2 DEF Unused
<1> DEFINE b == lru[CHOOSE i \in Unused : \A j \in Unused : j <= i]
<1>2. b \in Bufs /\ refcnt[b] = 0
  BY Zenon, <1>1, LastUnused DEF IInv
<1>3. /\ blockno' = [blockno EXCEPT ![b] = k]
      /\ valid' = [valid EXCEPT ![b] = FALSE]
      /\ refcnt' = [refcnt EXCEPT ![b] = 1]
      /\ cur' = [cur EXCEPT ![p] = b]
      /\ bpc' = [bpc EXCEPT ![p] = "lock"]
      /\ UNCHANGED <<bdata, holder, lru, pinned, req, medium, bpanic>>
  BY Zenon, <1>1 DEF bgetRecycle, BGoto, Invalidated
<1> HIDE DEF b
<1>4. /\ bpc[p] = "idle" /\ cur[p] = NoBuf /\ b # NoBuf /\ k # NoBlock
      /\ \A c \in Bufs : blockno[c] # k
  BY Zenon, <1>2, BioAssumption DEF bgetRecycle, Cached, IInv, UsersInv
<1>5. Refs(b) = 0 /\ blockno[b] \notin pinned /\ \A q \in Users : cur[q] # b
  BY Zenon, <1>2, NoRefs DEF IInv, CacheInv
<1>6. k \notin pinned
  BY Zenon, <1>4 DEF IInv, CacheInv
<1>7. TypeOK'
  BY Zenon, <1>2, <1>3 DEF IInv, TypeOK
<1>8. ListInv'
  BY Zenon, <1>3 DEF IInv, ListInv
<1>9. UsersInv'
  BY <1>2, <1>3, <1>4, <1>5 DEF IInv, TypeOK, UsersInv
<1>10. CacheInv'
  <2>1. \A c \in Bufs : blockno'[c] \in pinned <=> blockno[c] \in pinned
    BY Zenon, <1>2, <1>3, <1>5, <1>6 DEF IInv, TypeOK
  <2>2. \A c \in Bufs : refcnt'[c] = Refs(c)'
    <3> SUFFICES ASSUME NEW c \in Bufs PROVE refcnt'[c] = Refs(c)'
      BY Zenon
    <3>1. Refs(c)' = IF c = b THEN Refs(c) + 1 ELSE Refs(c)
      BY Zenon, <1>2, <1>3, <1>4, <2>1, RefsTake DEF IInv
    <3> QED
      BY <1>2, <1>3, <1>5, <3>1 DEF IInv, TypeOK, CacheInv
  <2>3. \A c, d \in Bufs : blockno'[c] = blockno'[d] /\ blockno'[c] # NoBlock => c = d
    BY Zenon, <1>2, <1>3, <1>4 DEF IInv, TypeOK, CacheInv
  <2>4. \A c \in Bufs : valid'[c] => blockno'[c] # NoBlock
    BY Zenon, <1>2, <1>3, <1>4 DEF IInv, TypeOK, CacheInv
  <2>5. \A j \in pinned : \E c \in Bufs : blockno'[c] = j /\ valid'[c]
    BY <1>2, <1>3, <1>5 DEF IInv, TypeOK, CacheInv
  <2> QED
    BY Zenon, <1>3, <2>2, <2>3, <2>4, <2>5 DEF CacheInv
<1>11. DataInv'
  <2>1. \A q \in Users : q # p => cur'[q] = cur[q] /\ bpc'[q] = bpc[q]
    BY Zenon, <1>3 DEF IInv, TypeOK
  <2>2. req[p] = NoCall /\ bpc'[p] = "lock"
    BY Zenon, <1>3, <1>4 DEF IInv, TypeOK, DataInv
  <2>3. \A c \in Bufs : Writing(c)' <=> Writing(c)
    BY Zenon, <1>3 DEF Writing
  <2>4. \A c \in Bufs : c # b => blockno'[c] = blockno[c] /\ valid'[c] = valid[c]
    BY Zenon, <1>3 DEF IInv, TypeOK
  <2>5. ~valid'[b]
    BY Zenon, <1>2, <1>3 DEF IInv, TypeOK
  <2>6. \A q \in Users : req'[q] # NoCall =>
          /\ q # p /\ cur[q] # b /\ cur[q] \in Bufs
    BY Zenon, <1>3, <1>5, <2>2, Buffer DEF IInv, DataInv
  <2> QED
    BY <1>3, <2>1, <2>2, <2>3, <2>4, <2>5, <2>6 DEF IInv, DataInv
<1> QED
  BY Zenon, <1>7, <1>8, <1>9, <1>10, <1>11 DEF IInv

LEMMA BreadKeeps ==
  ASSUME IInv, NEW p \in Users, bread(p)
  PROVE  IInv'
<1> DEFINE b == cur[p]
<1>1. /\ bpc[p] = "lock" /\ holder[b] = Nobody
      /\ holder' = [holder EXCEPT ![b] = p]
      /\ UNCHANGED <<cur, blockno, bdata, refcnt, valid, lru, pinned, medium, bpanic>>
      /\ bpc' = [bpc EXCEPT ![p] = IF valid[b] THEN "held" ELSE "io"]
      /\ req' = IF valid[b] THEN req
                ELSE [req EXCEPT ![p] = [buf |-> b, blk |-> blockno[b], write |-> FALSE, done |-> FALSE]]
  BY Zenon DEF bread, BGoto, Disk!Call
<1>2. b \in Bufs /\ blockno[b] \in Blocks /\ req[p] = NoCall /\ p # Nobody
  BY Zenon, <1>1, Buffer, BioAssumption DEF IInv, DataInv
<1> HIDE DEF b
<1> DEFINE call == [buf |-> b, blk |-> blockno[b], write |-> FALSE, done |-> FALSE]
<1>3. /\ call \in Requests /\ call # NoCall
      /\ call.buf = b /\ call.blk = blockno[b] /\ ~call.write /\ ~call.done
  <2>1. call \in Requests
    BY Zenon, <1>2 DEF Requests
  <2>2. call # NoCall
    BY Zenon, <2>1, BioAssumption DEF Requests
  <2> QED
    BY Zenon, <2>1, <2>2
<1> HIDE DEF call
<1>4. req' = IF valid[b] THEN req ELSE [req EXCEPT ![p] = call]
  BY Zenon, <1>1 DEF call
<1>5. TypeOK'
  BY Zenon, <1>1, <1>2, <1>3, <1>4 DEF IInv, TypeOK
<1>6. ListInv' /\ CacheInv'
  <2>1. \A c \in Bufs : Refs(c)' = Refs(c)
    BY Zenon, <1>1, RefsSame
  <2> QED
    BY Zenon, <1>1, <2>1 DEF IInv, ListInv, CacheInv
<1>7. UsersInv'
  <2>1. \A q \in Users : cur[q] = b => bpc[q] \notin {"io", "held"}
    BY <1>1, <1>2, BioAssumption DEF IInv, UsersInv
  <2> QED
    BY <1>1, <1>2, <2>1 DEF b, IInv, TypeOK, UsersInv
<1>8. DataInv'
  <2>1. \A q \in Users : q # p => req'[q] = req[q] /\ bpc'[q] = bpc[q]
    BY Zenon, <1>1, <1>4 DEF IInv, TypeOK
  <2>2. bpc'[p] = (IF valid[b] THEN "held" ELSE "io") /\ req'[p] = (IF valid[b] THEN NoCall ELSE call)
    BY Zenon, <1>1, <1>2, <1>4 DEF IInv, TypeOK
  <2>3. \A c \in Bufs : Writing(c)' <=> Writing(c)
    BY Zenon, <1>2, <1>3, <2>1, <2>2 DEF Writing
  <2> QED
    <3>1. \A c \in Bufs : valid'[c] /\ blockno'[c] \notin pinned' /\ ~Writing(c)'
                            => bdata'[c] = medium'[blockno'[c]]
      BY Zenon, <1>1, <2>3 DEF IInv, DataInv
    <3>2. \A q \in Users : bpc'[q] = "io" <=> req'[q] # NoCall
      BY <1>3, <2>1, <2>2 DEF IInv, DataInv
    <3>3. ASSUME NEW q \in Users, req'[q] # NoCall
          PROVE  /\ req'[q].buf = cur[q] /\ req'[q].blk = blockno[cur[q]]
                 /\ req'[q].write <=> valid[cur[q]]
                 /\ ~req'[q].write /\ req'[q].done => bdata[cur[q]] = medium[blockno[cur[q]]]
      <4>1. CASE q = p
        BY Zenon, <1>3, <2>2, <3>3, <4>1 DEF b
      <4>2. CASE q # p
        BY Zenon, <2>1, <3>3, <4>2 DEF IInv, DataInv
      <4> QED
        BY Zenon, <4>1, <4>2
    <3> QED
      BY <1>1, <3>1, <3>2, <3>3 DEF DataInv
<1> QED
  BY Zenon, <1>5, <1>6, <1>7, <1>8 DEF IInv

LEMMA TransferKeeps ==
  ASSUME IInv, NEW p \in Users, Transfer(p)
  PROVE  IInv'
<1> DEFINE b == cur[p]
           k == blockno[b]
<1>1. /\ req[p] # NoCall /\ ~req[p].done
      /\ req' = [req EXCEPT ![p].done = TRUE]
      /\ UNCHANGED <<bpc, cur, blockno, refcnt, valid, holder, lru, pinned, bpanic>>
  BY Zenon DEF Transfer, Disk!Serve
<1>2. /\ bpc[p] = "io" /\ b \in Bufs /\ k \in Blocks
      /\ req[p] \in Requests /\ req[p].buf = b /\ req[p].blk = k
      /\ \A q \in Users : cur[q] = b /\ bpc[q] \in {"io", "held"} => q = p
  <2>1. bpc[p] = "io" /\ req[p] \in Requests
    BY <1>1 DEF IInv, TypeOK, DataInv
  <2> QED
    BY Zenon, <1>1, <2>1, Buffer DEF IInv, DataInv
<1>3. IF req[p].write THEN medium' = [medium EXCEPT ![k] = bdata[b]] /\ bdata' = bdata
                      ELSE bdata' = [bdata EXCEPT ![b] = medium[k]] /\ medium' = medium
  BY Zenon, <1>2 DEF Transfer, Disk!Serve
<1> HIDE DEF b, k
<1>4. /\ req'[p] \in Requests /\ req'[p] # NoCall
      /\ req'[p].buf = b /\ req'[p].blk = k /\ req'[p].write = req[p].write /\ req'[p].done = TRUE
      /\ \A q \in Users : q # p => req'[q] = req[q]
  <2>1. req'[p] = [req[p] EXCEPT !.done = TRUE]
    BY Zenon, <1>1 DEF IInv, TypeOK
  <2>2. \A q \in Users : q # p => req'[q] = req[q]
    BY Zenon, <1>1 DEF IInv, TypeOK
  <2> QED
    BY Zenon, <1>2, <2>1, <2>2, BioAssumption DEF Requests
<1>5. TypeOK'
  <2>1. req' \in [Users -> Requests \cup {NoCall}]
    BY Zenon, <1>1, <1>4 DEF IInv, TypeOK
  <2> QED
    BY <1>1, <1>2, <1>3, <2>1 DEF IInv, TypeOK
<1>6. ListInv' /\ CacheInv' /\ UsersInv'
  <2>1. \A c \in Bufs : Refs(c)' = Refs(c)
    BY Zenon, <1>1, RefsSame
  <2> QED
    BY <1>1, <2>1 DEF IInv, ListInv, CacheInv, UsersInv
<1>7. DataInv'
  <2>1. \A q \in Users : q # p /\ req[q] # NoCall =>
          bpc[q] = "io" /\ cur[q] # b /\ cur[q] \in Bufs /\ blockno[cur[q]] # k /\ req[q].buf = cur[q]
    <3> SUFFICES ASSUME NEW q \in Users, q # p, req[q] # NoCall
                 PROVE  bpc[q] = "io" /\ cur[q] # b /\ cur[q] \in Bufs /\ blockno[cur[q]] # k
                        /\ req[q].buf = cur[q]
      BY Zenon
    <3>1. bpc[q] = "io" /\ req[q].buf = cur[q]
      BY Zenon DEF IInv, DataInv
    <3>2. cur[q] # b /\ cur[q] \in Bufs /\ blockno[cur[q]] \in Blocks
      BY Zenon, <1>2, <3>1, Buffer
    <3> QED
      BY Zenon, <1>2, <3>1, <3>2, BioAssumption DEF k, IInv, CacheInv
  <2>2. \A c \in Bufs : c # b => (Writing(c)' <=> Writing(c))
    BY Zenon, <1>2, <1>4 DEF Writing
  <2>3. \A c \in Bufs : c # b => bdata'[c] = bdata[c]
    BY Zenon, <1>3 DEF IInv, TypeOK
  <2>4. \A j \in Blocks : j # k => medium'[j] = medium[j]
    BY Zenon, <1>3 DEF IInv, TypeOK
  <2>5. bdata'[b] = medium'[k]
    BY <1>2, <1>3 DEF IInv, TypeOK
  <2>6. \A c \in Bufs : c # b /\ valid[c] => blockno[c] \in Blocks /\ blockno[c] # k
    <3> SUFFICES ASSUME NEW c \in Bufs, c # b, valid[c]
                 PROVE  blockno[c] \in Blocks /\ blockno[c] # k
      BY Zenon
    <3> QED
      BY <1>2, BioAssumption DEF k, IInv, TypeOK, CacheInv
  <2>7. \A c \in Bufs : valid[c] /\ blockno[c] \notin pinned /\ ~Writing(c)'
                          => bdata'[c] = medium'[blockno[c]]
    BY Zenon, <2>2, <2>3, <2>4, <2>5, <2>6 DEF k, IInv, DataInv
  <2>8. \A q \in Users : bpc[q] = "io" <=> req'[q] # NoCall
    BY Zenon, <1>2, <1>4 DEF IInv, DataInv
  <2>9. ASSUME NEW q \in Users, req'[q] # NoCall
        PROVE  /\ req'[q].buf = cur[q] /\ req'[q].blk = blockno[cur[q]]
               /\ req'[q].write <=> valid[cur[q]]
               /\ ~req'[q].write /\ req'[q].done => bdata'[cur[q]] = medium'[blockno[cur[q]]]
    <3>1. CASE q = p
      BY Zenon, <1>1, <1>4, <2>5, <3>1 DEF b, k, IInv, DataInv
    <3>2. CASE q # p
      <4>1. req'[q] = req[q] /\ req[q] # NoCall
        BY Zenon, <1>4, <2>9, <3>2
      <4>2. bdata'[cur[q]] = bdata[cur[q]] /\ blockno[cur[q]] \in Blocks
            /\ medium'[blockno[cur[q]]] = medium[blockno[cur[q]]]
        BY Zenon, <2>1, <2>3, <2>4, <3>2, <4>1, Buffer
      <4> QED
        BY Zenon, <4>1, <4>2 DEF IInv, DataInv
    <3> QED
      BY Zenon, <3>1, <3>2
  <2> QED
    BY <1>1, <2>7, <2>8, <2>9 DEF DataInv
<1> QED
  BY Zenon, <1>5, <1>6, <1>7 DEF IInv

LEMMA IODoneKeeps ==
  ASSUME IInv, NEW p \in Users, IODone(p)
  PROVE  IInv'
<1> DEFINE b == cur[p]
<1>1. /\ req[p] # NoCall /\ req[p].done
      /\ req' = [req EXCEPT ![p] = NoCall]
      /\ valid' = [valid EXCEPT ![b] = TRUE]
      /\ bpc' = [bpc EXCEPT ![p] = "held"]
      /\ UNCHANGED <<cur, blockno, bdata, refcnt, holder, lru, pinned, medium, bpanic>>
  BY Zenon DEF IODone, BGoto, Disk!Return
<1>2. bpc[p] = "io" /\ b \in Bufs /\ blockno[b] \in Blocks /\ blockno[b] # NoBlock
      /\ \A q \in Users : cur[q] = b /\ bpc[q] \in {"io", "held"} => q = p
  <2>1. bpc[p] = "io"
    BY Zenon, <1>1 DEF IInv, DataInv
  <2> QED
    BY Zenon, <2>1, Buffer, BioAssumption
<1> HIDE DEF b
<1>3. TypeOK'
  BY Zenon, <1>1 DEF IInv, TypeOK
<1>4. ListInv'
  BY Zenon, <1>1 DEF IInv, ListInv
<1>5. UsersInv'
  BY <1>1, <1>2 DEF b, IInv, TypeOK, UsersInv
<1>6. CacheInv'
  <2>1. \A c \in Bufs : Refs(c)' = Refs(c)
    BY Zenon, <1>1, RefsSame
  <2>2. \A c \in Bufs : valid'[c] <=> valid[c] \/ c = b
    BY Zenon, <1>1, <1>2 DEF IInv, TypeOK
  <2> QED
    BY Zenon, <1>1, <1>2, <2>1, <2>2 DEF IInv, CacheInv
<1>7. DataInv'
  <2>1. \A q \in Users : q # p => req'[q] = req[q] /\ bpc'[q] = bpc[q]
    BY Zenon, <1>1 DEF IInv, TypeOK
  <2>2. req'[p] = NoCall /\ bpc'[p] = "held"
    BY Zenon, <1>1 DEF IInv, TypeOK
  <2>3. \A c \in Bufs : valid'[c] <=> valid[c] \/ c = b
    BY Zenon, <1>1, <1>2 DEF IInv, TypeOK
  <2>4. \A c \in Bufs : Writing(c)' <=> Writing(c)
    BY Zenon, <1>1, <2>1, <2>2 DEF Writing
  <2>5. \A q \in Users : req[q] # NoCall /\ q # p => cur[q] # b /\ cur[q] \in Bufs
    BY Zenon, <1>2, Buffer DEF IInv, DataInv
  <2>6. req[p].write \/ bdata[b] = medium[blockno[b]]
    BY Zenon, <1>1 DEF b, IInv, DataInv
  <2>7. req[p].write => valid[b]
    BY Zenon, <1>1 DEF b, IInv, DataInv
  <2>8. \A c \in Bufs : valid'[c] /\ blockno[c] \notin pinned /\ ~Writing(c)
                          => bdata[c] = medium[blockno[c]]
    BY <2>3, <2>6, <2>7 DEF IInv, DataInv
  <2> QED
    BY <1>1, <2>1, <2>2, <2>3, <2>4, <2>5, <2>8 DEF IInv, DataInv
<1> QED
  BY Zenon, <1>3, <1>4, <1>5, <1>6, <1>7 DEF IInv

LEMMA BwriteKeeps ==
  ASSUME IInv, NEW p \in Users, NEW v \in Contents, bwrite(p, v)
  PROVE  IInv'
<1> DEFINE b == cur[p]
           call == [buf |-> b, blk |-> blockno[b], write |-> TRUE, done |-> FALSE]
<1>1. /\ bpc[p] = "held"
      /\ bdata' = [bdata EXCEPT ![b] = v]
      /\ req' = [req EXCEPT ![p] = call]
      /\ bpc' = [bpc EXCEPT ![p] = "io"]
      /\ UNCHANGED <<cur, blockno, refcnt, valid, holder, lru, pinned, medium, bpanic>>
  BY Zenon DEF bwrite, BGoto, Disk!Call
<1>2. b \in Bufs /\ blockno[b] \in Blocks /\ req[p] = NoCall /\ valid[b]
      /\ \A q \in Users : cur[q] = b /\ bpc[q] \in {"io", "held"} => q = p
  BY Zenon, <1>1, Buffer DEF IInv, DataInv, UsersInv
<1> HIDE DEF b
<1>3. /\ call \in Requests /\ call # NoCall
      /\ call.buf = b /\ call.blk = blockno[b] /\ call.write /\ ~call.done
  <2>1. call \in Requests
    BY Zenon, <1>2 DEF Requests
  <2>2. call # NoCall
    BY Zenon, <2>1, BioAssumption DEF Requests
  <2> QED
    BY Zenon, <2>1, <2>2
<1> HIDE DEF call
<1>4. TypeOK'
  BY Zenon, <1>1, <1>2, <1>3 DEF IInv, TypeOK
<1>5. ListInv' /\ CacheInv'
  <2>1. \A c \in Bufs : Refs(c)' = Refs(c)
    BY Zenon, <1>1, RefsSame
  <2> QED
    BY Zenon, <1>1, <2>1 DEF IInv, ListInv, CacheInv
<1>6. UsersInv'
  BY <1>1 DEF IInv, TypeOK, UsersInv
<1>7. DataInv'
  <2>1. \A q \in Users : q # p => req'[q] = req[q] /\ bpc'[q] = bpc[q]
    BY Zenon, <1>1 DEF IInv, TypeOK
  <2>2. req'[p] = call /\ bpc'[p] = "io"
    BY Zenon, <1>1 DEF IInv, TypeOK
  <2>3. \A c \in Bufs : Writing(c)' <=> Writing(c) \/ c = b
    BY Zenon, <1>2, <1>3, <2>1, <2>2 DEF Writing
  <2>4. \A c \in Bufs : c # b => bdata'[c] = bdata[c]
    BY Zenon, <1>1 DEF IInv, TypeOK
  <2>5. \A c \in Bufs : valid[c] /\ blockno[c] \notin pinned /\ ~Writing(c)'
                          => bdata'[c] = medium[blockno[c]]
    BY Zenon, <2>3, <2>4 DEF IInv, DataInv
  <2>6. \A q \in Users : bpc'[q] = "io" <=> req'[q] # NoCall
    BY <1>3, <2>1, <2>2 DEF IInv, DataInv
  <2>7. ASSUME NEW q \in Users, req'[q] # NoCall
        PROVE  /\ req'[q].buf = cur[q] /\ req'[q].blk = blockno[cur[q]]
               /\ req'[q].write <=> valid[cur[q]]
               /\ ~req'[q].write /\ req'[q].done => bdata'[cur[q]] = medium[blockno[cur[q]]]
    <3>1. CASE q = p
      BY Zenon, <1>2, <1>3, <2>2, <2>7, <3>1 DEF b
    <3>2. CASE q # p
      <4>1. req[q] # NoCall /\ req'[q] = req[q]
        BY Zenon, <2>1, <2>7, <3>2
      <4>2. bpc[q] = "io"
        BY Zenon, <4>1 DEF IInv, DataInv
      <4>3. cur[q] \in Bufs /\ cur[q] # b
        BY Zenon, <1>2, <3>2, <4>2, Buffer
      <4> QED
        BY Zenon, <2>4, <4>1, <4>3 DEF IInv, DataInv
    <3> QED
      BY Zenon, <3>1, <3>2
  <2> QED
    BY <1>1, <2>5, <2>6, <2>7 DEF DataInv
<1> QED
  BY Zenon, <1>4, <1>5, <1>6, <1>7 DEF IInv

\* What a change of the pins does to the references of the buffers.
LEMMA RefsPin ==
  ASSUME IInv, NEW b \in Bufs, blockno[b] \in Blocks, cur' = cur, blockno' = blockno,
         \A k : k # blockno[b] => (k \in pinned' <=> k \in pinned), NEW c \in Bufs
  PROVE  Refs(c)' = IF c = b THEN Refs(c) + (IF blockno[b] \in pinned' THEN 1 ELSE 0)
                                          - (IF blockno[b] \in pinned THEN 1 ELSE 0)
                    ELSE Refs(c)
<1>1. c # b => blockno[c] # blockno[b]
  BY Zenon, BioAssumption DEF IInv, CacheInv
<1>2. \A d : Refs(d)' = Cardinality(Using(d)) + (IF blockno[d] \in pinned' THEN 1 ELSE 0)
  BY Zenon DEF Refs, Using
<1> QED
  BY <1>1, <1>2, RefsType

LEMMA BpinKeeps ==
  ASSUME IInv, NEW p \in Users, NEW v \in Contents, bpin(p, v)
  PROVE  IInv'
<1> DEFINE b == cur[p]
<1>1. /\ bpc[p] = "held"
      /\ bdata' = [bdata EXCEPT ![b] = v]
      /\ pinned' = pinned \cup {blockno[b]}
      /\ refcnt' = [refcnt EXCEPT ![b] = IF blockno[b] \in pinned THEN refcnt[b] ELSE refcnt[b] + 1]
      /\ UNCHANGED <<bpc, cur, blockno, valid, holder, lru, req, medium, bpanic>>
  BY Zenon DEF bpin
<1>2. b \in Bufs /\ blockno[b] \in Blocks /\ req[p] = NoCall /\ valid[b]
      /\ \A q \in Users : cur[q] = b /\ bpc[q] \in {"io", "held"} => q = p
  BY Zenon, <1>1, Buffer DEF IInv, DataInv, UsersInv
<1> HIDE DEF b
<1>3. TypeOK'
  BY <1>1, <1>2 DEF IInv, TypeOK
<1>4. ListInv' /\ UsersInv'
  BY <1>1 DEF IInv, ListInv, UsersInv
<1>5. CacheInv'
  <2>1. \A c \in Bufs : refcnt'[c] = Refs(c)'
    <3> SUFFICES ASSUME NEW c \in Bufs PROVE refcnt'[c] = Refs(c)'
      BY Zenon
    <3>1. /\ blockno[b] \in pinned'
          /\ Refs(c)' = IF c = b THEN Refs(c) + (IF blockno[b] \in pinned' THEN 1 ELSE 0)
                                          - (IF blockno[b] \in pinned THEN 1 ELSE 0)
                        ELSE Refs(c)
      BY Zenon, <1>1, <1>2, RefsPin
    <3>2. refcnt[b] \in Nat /\ refcnt[b] = Refs(b) /\ refcnt[c] = Refs(c)
      BY Zenon, <1>2 DEF IInv, TypeOK, CacheInv
    <3>3. refcnt'[c] = IF c = b THEN (IF blockno[b] \in pinned THEN refcnt[b] ELSE refcnt[b] + 1)
                       ELSE refcnt[c]
      BY Zenon, <1>1 DEF IInv, TypeOK
    <3> QED
      BY <3>1, <3>2, <3>3
  <2> QED
    BY Zenon, <1>1, <1>2, <2>1 DEF IInv, CacheInv
<1>6. DataInv'
  <2>1. \A c \in Bufs : c # b => bdata'[c] = bdata[c]
    BY Zenon, <1>1 DEF IInv, TypeOK
  <2>2. \A c \in Bufs : Writing(c)' <=> Writing(c)
    BY Zenon, <1>1 DEF Writing
  <2>3. \A q \in Users : req[q] # NoCall => cur[q] \in Bufs /\ cur[q] # b
    BY Zenon, <1>2, Buffer DEF IInv, DataInv
  <2> QED
    BY <1>1, <2>1, <2>2, <2>3 DEF IInv, DataInv
<1> QED
  BY Zenon, <1>3, <1>4, <1>5, <1>6 DEF IInv

LEMMA BunpinKeeps ==
  ASSUME IInv, NEW p \in Users, bunpin(p)
  PROVE  IInv'
<1> DEFINE b == cur[p]
<1>1. /\ bpc[p] = "held" /\ blockno[b] \in pinned /\ medium[blockno[b]] = bdata[b]
      /\ pinned' = pinned \ {blockno[b]}
      /\ refcnt' = [refcnt EXCEPT ![b] = refcnt[b] - 1]
      /\ UNCHANGED <<bpc, cur, blockno, bdata, valid, holder, lru, req, medium, bpanic>>
  BY Zenon DEF bunpin
<1>2. b \in Bufs /\ blockno[b] \in Blocks
  BY Zenon, <1>1, Buffer
<1> HIDE DEF b
<1>3. refcnt[b] = Refs(b) /\ Refs(b) \in Nat /\ Refs(b) >= 1
  BY <1>1, <1>2, RefsType DEF IInv, CacheInv
<1>4. TypeOK'
  BY <1>1, <1>2, <1>3 DEF IInv, TypeOK
<1>5. ListInv' /\ UsersInv'
  BY <1>1 DEF IInv, ListInv, UsersInv
<1>6. CacheInv'
  <2>1. \A c \in Bufs : refcnt'[c] = Refs(c)'
    <3> SUFFICES ASSUME NEW c \in Bufs PROVE refcnt'[c] = Refs(c)'
      BY Zenon
    <3>1. /\ blockno[b] \notin pinned'
          /\ Refs(c)' = IF c = b THEN Refs(c) + (IF blockno[b] \in pinned' THEN 1 ELSE 0)
                                          - (IF blockno[b] \in pinned THEN 1 ELSE 0)
                        ELSE Refs(c)
      BY Zenon, <1>1, <1>2, RefsPin
    <3>2. refcnt[c] = Refs(c) /\ refcnt'[c] = IF c = b THEN refcnt[b] - 1 ELSE refcnt[c]
      BY Zenon, <1>1 DEF IInv, TypeOK, CacheInv
    <3> QED
      BY <1>1, <1>3, <3>1, <3>2
  <2> QED
    BY Zenon, <1>1, <2>1 DEF IInv, CacheInv
<1>7. DataInv'
  <2>1. \A c \in Bufs : Writing(c)' <=> Writing(c)
    BY Zenon, <1>1 DEF Writing
  <2>2. \A c \in Bufs : valid[c] /\ blockno[c] \notin pinned' /\ ~Writing(c)
                          => bdata[c] = medium[blockno[c]]
    <3> SUFFICES ASSUME NEW c \in Bufs, valid[c], blockno[c] \notin pinned', ~Writing(c)
                 PROVE  bdata[c] = medium[blockno[c]]
      BY Zenon
    <3>1. CASE blockno[c] = blockno[b]
      BY Zenon, <1>1, <1>2, <3>1, BioAssumption DEF IInv, CacheInv
    <3>2. CASE blockno[c] # blockno[b]
      BY Zenon, <1>1, <3>2 DEF IInv, DataInv
    <3> QED
      BY Zenon, <3>1, <3>2
  <2> QED
    BY Zenon, <1>1, <2>1, <2>2 DEF IInv, DataInv
<1> QED
  BY Zenon, <1>4, <1>5, <1>6, <1>7 DEF IInv

LEMMA ReleaseKeeps ==
  ASSUME IInv, NEW p \in Users, ReleaseSleep(p)
  PROVE  IInv'
<1> DEFINE b == cur[p]
<1>1. /\ bpc[p] = "held"
      /\ holder' = [holder EXCEPT ![b] = Nobody]
      /\ bpc' = [bpc EXCEPT ![p] = "put"]
      /\ UNCHANGED <<cur, blockno, bdata, refcnt, valid, lru, pinned, req, medium, bpanic>>
  BY Zenon DEF ReleaseSleep, BGoto
<1>2. b \in Bufs /\ \A q \in Users : cur[q] = b /\ bpc[q] \in {"io", "held"} => q = p
  BY Zenon, <1>1, Buffer
<1> HIDE DEF b
<1>3. TypeOK'
  BY Zenon, <1>1 DEF IInv, TypeOK
<1>4. ListInv' /\ CacheInv'
  <2>1. \A c \in Bufs : Refs(c)' = Refs(c)
    BY Zenon, <1>1, RefsSame
  <2> QED
    BY Zenon, <1>1, <2>1 DEF IInv, ListInv, CacheInv
<1>5. UsersInv'
  <2>1. \A q \in Users : bpc'[q] = IF q = p THEN "put" ELSE bpc[q]
    BY Zenon, <1>1 DEF IInv, TypeOK
  <2>2. \A c \in Bufs : holder'[c] = IF c = b THEN Nobody ELSE holder[c]
    BY Zenon, <1>1 DEF IInv, TypeOK
  <2>3. \A c \in Bufs, q \in Users :
          holder'[c] = q <=> cur[q] = c /\ bpc'[q] \in {"io", "held"}
    BY <1>1, <1>2, <2>1, <2>2, BioAssumption DEF b, IInv, UsersInv
  <2> QED
    BY <1>1, <2>1, <2>3 DEF IInv, UsersInv
<1>6. DataInv'
  <2>1. \A c \in Bufs : Writing(c)' <=> Writing(c)
    BY Zenon, <1>1 DEF Writing
  <2>2. \A q \in Users : bpc'[q] = "io" <=> bpc[q] = "io"
    BY Zenon, <1>1 DEF IInv, TypeOK
  <2> QED
    BY Zenon, <1>1, <2>1, <2>2 DEF IInv, DataInv
<1> QED
  BY Zenon, <1>3, <1>4, <1>5, <1>6 DEF IInv

LEMMA BrelseKeeps ==
  ASSUME IInv, NEW p \in Users, brelse(p)
  PROVE  IInv'
<1> DEFINE b == cur[p]
<1>1. /\ bpc[p] = "put"
      /\ refcnt' = [refcnt EXCEPT ![b] = refcnt[b] - 1]
      /\ lru' = IF refcnt[b] = 1 THEN MoveToFront(b) ELSE lru
      /\ cur' = [cur EXCEPT ![p] = NoBuf]
      /\ bpc' = [bpc EXCEPT ![p] = "idle"]
      /\ UNCHANGED <<blockno, bdata, valid, holder, pinned, req, medium, bpanic>>
  BY Zenon DEF brelse, BGoto
<1>2. b \in Bufs /\ NoBuf \notin Bufs /\ req[p] = NoCall /\ \A c \in Bufs : holder[c] # p
  BY <1>1, Buffer, BioAssumption DEF IInv, UsersInv, DataInv
<1>3. \A c \in Bufs : /\ Refs(c)' = IF c = b THEN Refs(c) - 1 ELSE Refs(c)
                      /\ c = b => Refs(c) >= 1
  BY Zenon, <1>1, <1>2, RefsDrop DEF IInv
<1> HIDE DEF b
<1>4. \A c \in Bufs : refcnt[c] = Refs(c) /\ refcnt[c] \in Nat
  BY Zenon DEF IInv, TypeOK, CacheInv
<1>5. TypeOK'
  <2>1. refcnt[b] - 1 \in Nat
    BY <1>2, <1>3, <1>4
  <2> QED
    BY Zenon, <1>1, <2>1 DEF IInv, TypeOK
<1>6. ListInv'
  <2>1. CASE refcnt[b] = 1
    BY Zenon, <1>1, <1>2, <2>1, FrontList DEF IInv
  <2>2. CASE refcnt[b] # 1
    BY Zenon, <1>1, <2>2 DEF IInv, ListInv
  <2> QED
    BY Zenon, <2>1, <2>2
<1>7. UsersInv'
  BY <1>1, <1>2 DEF IInv, TypeOK, UsersInv
<1>8. CacheInv'
  <2>1. \A c \in Bufs : refcnt'[c] = IF c = b THEN refcnt[c] - 1 ELSE refcnt[c]
    BY Zenon, <1>1 DEF IInv, TypeOK
  <2>2. \A c \in Bufs : refcnt'[c] = Refs(c)'
    BY Zenon, <1>3, <1>4, <2>1
  <2> QED
    BY Zenon, <1>1, <2>2 DEF IInv, CacheInv
<1>9. DataInv'
  <2>1. \A c \in Bufs : Writing(c)' <=> Writing(c)
    BY Zenon, <1>1 DEF Writing
  <2>2. \A q \in Users : q # p => cur'[q] = cur[q] /\ bpc'[q] = bpc[q]
    BY Zenon, <1>1 DEF IInv, TypeOK
  <2>3. bpc'[p] = "idle"
    BY Zenon, <1>1 DEF IInv, TypeOK
  <2> QED
    BY <1>1, <1>2, <2>1, <2>2, <2>3 DEF IInv, DataInv
<1> QED
  BY Zenon, <1>5, <1>6, <1>7, <1>8, <1>9 DEF IInv

\* The invariant of the buffer cache.
THEOREM Invariance == BioSpec => []IInv
<1>1. ASSUME IInv, [BioNext]_biovars PROVE IInv'
  <2>1. CASE UNCHANGED biovars
    <3>1. \A c \in Bufs : Refs(c)' = Refs(c) /\ (Writing(c)' <=> Writing(c))
      BY Zenon, <2>1, RefsSame DEF biovars, Writing
    <3> QED
      BY <1>1, <2>1, <3>1 DEF biovars, IInv, TypeOK, ListInv, UsersInv, CacheInv, DataInv
  <2>2. CASE BioNext
    BY Zenon, <1>1, <2>2, HitKeeps, RecycleKeeps, BwriteKeeps, BpinKeeps, BunpinKeeps, BreadKeeps,
       TransferKeeps, IODoneKeeps, ReleaseKeeps, BrelseKeeps DEF BioNext
  <2> QED
    BY Zenon, <1>1, <2>1, <2>2
<1> QED
  BY <1>1, InitInv, PTL DEF BioSpec

\* The bookkeeping of bio.c is exact, for any number of processes, buffers and
\* blocks: one buffer for a block, the count of its users and its pin, the list,
\* and a lock that is with the user of the buffer; bget finds a buffer whenever
\* there is one nobody uses.
THEOREM CacheIsConsistent == BioSpec => []CacheConsistent
<1>1. IInv => CacheConsistent
  <2> SUFFICES ASSUME IInv PROVE CacheConsistent
    BY Zenon
  <2>1. ASSUME NEW k \in Blocks PROVE Cardinality(Cached(k)) <= 1
    <3>1. CASE Cached(k) = {}
      BY <3>1, FS_EmptySet
    <3>2. CASE Cached(k) # {}
      <4>1. PICK b \in Bufs : b \in Cached(k)
        BY Zenon, <3>2 DEF Cached
      <4>2. Cached(k) = {b}
        BY <4>1, BioAssumption DEF Cached, IInv, CacheInv
      <4> QED
        BY <4>2, FS_Singleton
    <3> QED
      BY Zenon, <3>1, <3>2
  <2>2. Len(lru) = Cardinality(Bufs) /\ Range(lru) = Bufs
    <3>1. Cardinality(Bufs) \in Nat
      BY Zenon, BioAssumption, FS_CardinalityType
    <3> QED
      BY <3>1 DEF IInv, ListInv, Range
  <2>3. \A k \in pinned : \E b \in Cached(k) : valid[b]
    BY Zenon DEF IInv, CacheInv, Cached
  <2> QED
    BY Zenon, <2>1, <2>2, <2>3 DEF IInv, TypeOK, UsersInv, CacheInv, CacheConsistent
<1> QED
  BY <1>1, Invariance, PTL

-----------------------------------------------------------------------------
(* The refinement.                                                         *)

\* What the mapping yields for a block with a valid buffer, and for one without.
Mapped ==
  /\ \A b \in Bufs : valid[b] =>
       /\ blockno[b] \in Blocks
       /\ BlockContent[blockno[b]] = bdata[b] /\ BlockOwner[blockno[b]] = holder[b]
  /\ \A k \in Blocks : (\A b \in Bufs : blockno[b] = k => ~valid[b]) =>
       BlockContent[k] = medium[k] /\ BlockOwner[k] = Nobody

LEMMA Mapping == IInv => Mapped
<1> SUFFICES ASSUME IInv PROVE Mapped
  BY Zenon
<1>1. ASSUME NEW b \in Bufs, valid[b]
      PROVE  /\ blockno[b] \in Blocks
             /\ BlockContent[blockno[b]] = bdata[b] /\ BlockOwner[blockno[b]] = holder[b]
  <2>1. blockno[b] \in Blocks /\ blockno[b] # NoBlock
    BY <1>1, BioAssumption DEF IInv, TypeOK, CacheInv
  <2>2. ValidFor(blockno[b]) = {b}
    BY <1>1, <2>1 DEF ValidFor, Cached, IInv, CacheInv
  <2>3. (CHOOSE c \in {b} : TRUE) = b /\ {b} # {}
    BY Zenon
  <2> QED
    BY Zenon, <2>1, <2>2, <2>3 DEF BlockContent, BlockOwner
<1>2. ASSUME NEW k \in Blocks, \A b \in Bufs : blockno[b] = k => ~valid[b]
      PROVE  BlockContent[k] = medium[k] /\ BlockOwner[k] = Nobody
  <2>1. ValidFor(k) = {}
    BY Zenon, <1>2 DEF ValidFor, Cached
  <2> QED
    BY Zenon, <2>1 DEF BlockContent, BlockOwner
<1> QED
  BY Zenon, <1>1, <1>2 DEF Mapped

\* A step that leaves all blocks as they are, as the mapping sees them.
LEMMA SameView ==
  ASSUME \A k \in Blocks : BlockContent'[k] = BlockContent[k] /\ BlockOwner'[k] = BlockOwner[k]
  PROVE  UNCHANGED <<BlockContent, BlockOwner>>
<1>1. BlockContent' = [k \in Blocks |-> BlockContent'[k]] /\ BlockContent = [k \in Blocks |-> BlockContent[k]]
  BY Zenon DEF BlockContent
<1>2. BlockOwner' = [k \in Blocks |-> BlockOwner'[k]] /\ BlockOwner = [k \in Blocks |-> BlockOwner[k]]
  BY Zenon DEF BlockOwner
<1> QED
  BY Zenon, <1>1, <1>2

\* A step that changes what the mapping looks at for at most one buffer, and no
\* disk block.
LEMMA OneBlock ==
  ASSUME IInv, Mapped, Mapped', NEW b \in Bufs, blockno' = blockno, medium' = medium,
         \A c \in Bufs : c # b => valid'[c] = valid[c] /\ bdata'[c] = bdata[c] /\ holder'[c] = holder[c],
         NEW j \in Blocks, j # blockno[b]
  PROVE  BlockContent'[j] = BlockContent[j] /\ BlockOwner'[j] = BlockOwner[j]
<1>1. CASE \E c \in Bufs : blockno[c] = j /\ valid[c]
  <2>1. PICK c \in Bufs : blockno[c] = j /\ valid[c]
    BY Zenon, <1>1
  <2>2. c # b /\ valid'[c] /\ bdata'[c] = bdata[c] /\ holder'[c] = holder[c]
    BY Zenon, <2>1
  <2> QED
    BY Zenon, <2>1, <2>2 DEF Mapped
<1>2. CASE \A c \in Bufs : blockno[c] = j => ~valid[c]
  <2>1. \A c \in Bufs : blockno[c] = j => ~valid'[c]
    BY Zenon, <1>2
  <2> QED
    BY <1>2, <2>1 DEF Mapped
<1> QED
  BY Zenon, <1>1, <1>2

\* The steps that change what the mapping sees.
LEMMA ChangeStep ==
  ASSUME IInv, Mapped, Mapped', IInv', NEW p \in Users, NEW v \in Contents, bwrite(p, v) \/ bpin(p, v)
  PROVE  Store!Next
<1> DEFINE b == cur[p]
           k == blockno[b]
<1>1. /\ bpc[p] = "held"
      /\ bdata' = [bdata EXCEPT ![b] = v]
      /\ UNCHANGED <<cur, blockno, valid, holder, medium>>
  BY Zenon DEF bwrite, bpin, Disk!Call
<1>2. b \in Bufs /\ k \in Blocks /\ valid[b] /\ holder[b] = p
  BY Zenon, <1>1, Buffer DEF IInv, UsersInv
<1> HIDE DEF b
<1>3. bdata'[b] = v /\ \A c \in Bufs : c # b => bdata'[c] = bdata[c]
  BY Zenon, <1>1, <1>2 DEF IInv, TypeOK
<1>4. /\ BlockOwner[k] = p /\ BlockOwner'[k] = p
      /\ BlockContent'[k] = v
  BY Zenon, <1>1, <1>2, <1>3 DEF Mapped
<1>5. \A j \in Blocks \ {k} : BlockContent'[j] = BlockContent[j] /\ BlockOwner'[j] = BlockOwner[j]
  BY Zenon, <1>1, <1>2, <1>3, OneBlock
<1>6. Store!Change(k)
  BY Zenon, <1>4 DEF Store!Change
<1> QED
  BY Zenon, <1>2, <1>5, <1>6 DEF Store!Next

LEMMA ReleaseStep ==
  ASSUME IInv, Mapped, Mapped', NEW p \in Users, ReleaseSleep(p)
  PROVE  Store!Next
<1> DEFINE b == cur[p]
           k == blockno[b]
<1>1. /\ bpc[p] = "held"
      /\ holder' = [holder EXCEPT ![b] = Nobody]
      /\ UNCHANGED <<cur, blockno, valid, bdata, medium>>
  BY Zenon DEF ReleaseSleep
<1>2. b \in Bufs /\ k \in Blocks /\ valid[b]
  BY Zenon, <1>1, Buffer DEF IInv, UsersInv
<1> HIDE DEF b
<1>3. holder'[b] = Nobody /\ \A c \in Bufs : c # b => holder'[c] = holder[c]
  BY Zenon, <1>1, <1>2 DEF IInv, TypeOK
<1>4. BlockOwner'[k] = Nobody /\ BlockContent'[k] = BlockContent[k]
  BY <1>1, <1>2, <1>3 DEF Mapped
<1>5. \A j \in Blocks \ {k} : BlockContent'[j] = BlockContent[j] /\ BlockOwner'[j] = BlockOwner[j]
  BY Zenon, <1>1, <1>2, <1>3, OneBlock
<1>6. Store!Release(k)
  BY Zenon, <1>4 DEF Store!Release
<1> QED
  BY Zenon, <1>2, <1>5, <1>6 DEF Store!Next

LEMMA ReadStep ==
  ASSUME IInv, Mapped, Mapped', NEW p \in Users, bread(p)
  PROVE  Store!Next \/ UNCHANGED <<BlockContent, BlockOwner>>
<1> DEFINE b == cur[p]
           k == blockno[b]
<1>1. /\ bpc[p] = "lock" /\ holder[b] = Nobody
      /\ holder' = [holder EXCEPT ![b] = p]
      /\ UNCHANGED <<cur, blockno, valid, bdata, medium>>
  BY Zenon DEF bread, Disk!Call
<1>2. b \in Bufs /\ k \in Blocks
  BY Zenon, <1>1, Buffer
<1> HIDE DEF b
<1>3. holder'[b] = p /\ \A c \in Bufs : c # b => holder'[c] = holder[c]
  BY Zenon, <1>1, <1>2 DEF IInv, TypeOK
<1>4. \A j \in Blocks : j # k => BlockContent'[j] = BlockContent[j] /\ BlockOwner'[j] = BlockOwner[j]
  BY Zenon, <1>1, <1>2, <1>3, OneBlock
<1>5. CASE valid[b]
  <2>1. /\ BlockOwner[k] = Nobody /\ BlockOwner'[k] = p
        /\ BlockContent'[k] = BlockContent[k]
    BY <1>1, <1>2, <1>3, <1>5 DEF Mapped
  <2>2. Store!Get(k)
    BY Zenon, <2>1 DEF Store!Get
  <2> QED
    BY Zenon, <1>2, <1>4, <2>2 DEF Store!Next
<1>6. CASE ~valid[b]
  <2>1. \A c \in Bufs : blockno[c] = k => ~valid[c]
    BY Zenon, <1>2, <1>6, BioAssumption DEF IInv, CacheInv
  <2>2. BlockContent'[k] = BlockContent[k] /\ BlockOwner'[k] = BlockOwner[k]
    BY <1>1, <1>2, <2>1 DEF Mapped
  <2> QED
    BY Zenon, <1>4, <2>2, SameView
<1> QED
  BY Zenon, <1>5, <1>6

LEMMA ReturnStep ==
  ASSUME IInv, Mapped, Mapped', NEW p \in Users, IODone(p)
  PROVE  Store!Next \/ UNCHANGED <<BlockContent, BlockOwner>>
<1> DEFINE b == cur[p]
           k == blockno[b]
<1>1. /\ req[p] # NoCall /\ req[p].done
      /\ valid' = [valid EXCEPT ![b] = TRUE]
      /\ UNCHANGED <<cur, blockno, bdata, holder, medium>>
  BY Zenon DEF IODone, Disk!Return
<1>2. bpc[p] = "io" /\ b \in Bufs /\ k \in Blocks /\ holder[b] = p
  <2>1. bpc[p] = "io"
    BY Zenon, <1>1 DEF IInv, DataInv
  <2> QED
    BY Zenon, <2>1, Buffer
<1>3. ~valid[b] => bdata[b] = medium[k]
  BY Zenon, <1>1 DEF IInv, DataInv
<1> HIDE DEF b
<1>4. valid'[b] /\ \A c \in Bufs : c # b => valid'[c] = valid[c]
  BY Zenon, <1>1, <1>2 DEF IInv, TypeOK
<1>5. \A j \in Blocks : j # k => BlockContent'[j] = BlockContent[j] /\ BlockOwner'[j] = BlockOwner[j]
  BY Zenon, <1>1, <1>2, <1>4, OneBlock
<1>6. CASE valid[b]
  <2>1. BlockContent'[k] = BlockContent[k] /\ BlockOwner'[k] = BlockOwner[k]
    BY <1>1, <1>2, <1>4, <1>6 DEF Mapped
  <2> QED
    BY Zenon, <1>5, <2>1, SameView
<1>7. CASE ~valid[b]
  <2>1. \A c \in Bufs : blockno[c] = k => ~valid[c]
    BY Zenon, <1>2, <1>7, BioAssumption DEF IInv, CacheInv
  <2>2. /\ BlockOwner[k] = Nobody /\ BlockOwner'[k] = p
        /\ BlockContent'[k] = BlockContent[k]
    BY Zenon, <1>1, <1>2, <1>3, <1>4, <1>7, <2>1 DEF Mapped
  <2>3. Store!Get(k)
    BY Zenon, <2>2 DEF Store!Get
  <2> QED
    BY Zenon, <1>2, <1>5, <2>3 DEF Store!Next
<1> QED
  BY Zenon, <1>6, <1>7

\* The transfer is not seen: of a block that is being written the valid buffer
\* counts, of one that is being read the disk.
LEMMA TransferStep ==
  ASSUME IInv, Mapped, Mapped', NEW p \in Users, Transfer(p)
  PROVE  UNCHANGED <<BlockContent, BlockOwner>>
<1> DEFINE b == cur[p]
           k == blockno[b]
<1>1. /\ req[p] # NoCall /\ UNCHANGED <<blockno, valid, holder>>
      /\ req[p].buf = b /\ req[p].blk = k /\ (req[p].write <=> valid[b])
  BY Zenon DEF Transfer, Disk!Serve, IInv, DataInv
<1>2. b \in Bufs /\ k \in Blocks
  <2>1. bpc[p] = "io"
    BY Zenon, <1>1 DEF IInv, DataInv
  <2> QED
    BY Zenon, <2>1, Buffer
<1>3. IF valid[b] THEN medium' = [medium EXCEPT ![k] = bdata[b]] /\ bdata' = bdata
                  ELSE bdata' = [bdata EXCEPT ![b] = medium[k]] /\ medium' = medium
  BY Zenon, <1>1 DEF Transfer, Disk!Serve
<1> HIDE DEF b, k
<1>4. ASSUME NEW j \in Blocks
      PROVE  BlockContent'[j] = BlockContent[j] /\ BlockOwner'[j] = BlockOwner[j]
  <2>1. CASE \E c \in Bufs : blockno[c] = j /\ valid[c]
    <3>1. PICK c \in Bufs : blockno[c] = j /\ valid[c]
      BY Zenon, <2>1
    <3>2. bdata'[c] = bdata[c]
      BY Zenon, <1>2, <1>3, <3>1 DEF IInv, TypeOK
    <3> QED
      BY <1>1, <3>1, <3>2 DEF Mapped
  <2>2. CASE \A c \in Bufs : blockno[c] = j => ~valid[c]
    <3>1. medium'[j] = medium[j]
      BY Zenon, <1>2, <1>3, <2>2 DEF k, IInv, TypeOK
    <3> QED
      BY <1>1, <2>2, <3>1 DEF Mapped
  <2> QED
    BY Zenon, <2>1, <2>2
<1> QED
  BY Zenon, <1>4, SameView

\* Nor is the loss of a cached block: nobody has it, and the disk has what it had.
LEMMA RecycleStep ==
  ASSUME IInv, Mapped, Mapped', NEW p \in Users, NEW k \in Blocks, bgetRecycle(p, k)
  PROVE  UNCHANGED <<BlockContent, BlockOwner>>
<1>1. CASE Unused = {}
  BY <1>1 DEF bgetRecycle, BlockContent, BlockOwner, ValidFor, Cached
<1>2. CASE Unused # {}
  <2> DEFINE b == lru[CHOOSE i \in Unused : \A j \in Unused : j <= i]
  <2>1. b \in Bufs /\ refcnt[b] = 0
    BY Zenon, <1>2, LastUnused DEF IInv
  <2>2. /\ blockno' = [blockno EXCEPT ![b] = k]
        /\ valid' = [valid EXCEPT ![b] = FALSE]
        /\ UNCHANGED <<bdata, holder, medium>>
    BY Zenon, <1>2 DEF bgetRecycle, Invalidated
  <2> HIDE DEF b
  <2>3. blockno[b] \notin pinned /\ \A q \in Users : cur[q] # b
    BY Zenon, <2>1, NoRefs DEF IInv, CacheInv
  <2>4. holder[b] = Nobody /\ ~Writing(b)
    BY <2>1, <2>3 DEF Writing, IInv, TypeOK, UsersInv, DataInv
  <2>5. valid[b] => bdata[b] = medium[blockno[b]]
    BY Zenon, <2>1, <2>3, <2>4 DEF IInv, DataInv
  <2>6. /\ ~valid'[b] /\ blockno'[b] = k
        /\ \A c \in Bufs : c # b => valid'[c] = valid[c] /\ blockno'[c] = blockno[c]
    BY Zenon, <2>1, <2>2 DEF IInv, TypeOK
  <2>7. ASSUME NEW j \in Blocks
        PROVE  BlockContent'[j] = BlockContent[j] /\ BlockOwner'[j] = BlockOwner[j]
    <3>1. CASE \E c \in Bufs : c # b /\ blockno[c] = j /\ valid[c]
      BY <2>2, <2>6, <3>1 DEF Mapped
    <3>2. CASE blockno[b] = j /\ valid[b]
      <4>1. \A c \in Bufs : c # b => blockno[c] # j
        BY Zenon, <2>1, <3>2 DEF IInv, CacheInv
      <4>2. \A c \in Bufs : blockno'[c] = j => ~valid'[c]
        BY Zenon, <2>6, <4>1
      <4>3. BlockContent'[j] = medium[j] /\ BlockOwner'[j] = Nobody
        BY Zenon, <2>2, <4>2 DEF Mapped
      <4>4. BlockContent[j] = bdata[b] /\ BlockOwner[j] = holder[b]
        BY Zenon, <2>1, <3>2 DEF Mapped
      <4> QED
        BY Zenon, <2>4, <2>5, <3>2, <4>3, <4>4
    <3>3. CASE \A c \in Bufs : blockno[c] = j => ~valid[c]
      <4>1. \A c \in Bufs : blockno'[c] = j => ~valid'[c]
        BY Zenon, <2>6, <3>3
      <4> QED
        BY <2>2, <3>3, <4>1 DEF Mapped
    <3> QED
      BY Zenon, <3>1, <3>2, <3>3
  <2> QED
    BY Zenon, <2>7, SameView
<1> QED
  BY Zenon, <1>1, <1>2

\* bio.c implements BlockStore, for any number of processes, buffers and blocks: a
\* process that has a block sees what the block's last user left there, through
\* recycling, misses and pins, and no other process has it at the same time.
THEOREM CacheIsBlockStore == BioSpec => IsBlockStore
<1>1. BioInit => Store!Init
  <2> SUFFICES ASSUME BioInit PROVE Store!Init
    BY Zenon
  <2>1. \A k \in Blocks : ValidFor(k) = {}
    BY Zenon DEF BioInit, ValidFor, Cached
  <2> QED
    BY Zenon, <2>1 DEF BioInit, Store!Init, BlockContent, BlockOwner
<1>2. Mapped' \/ ~IInv'
  BY Mapping, PTL
<1>3. ASSUME IInv, IInv', [BioNext]_biovars PROVE [Store!Next]_<<BlockContent, BlockOwner>>
  <2>1. Mapped /\ Mapped'
    BY Zenon, <1>2, <1>3, Mapping
  <2>2. ASSUME UNCHANGED <<blockno, valid, bdata, holder, medium>>
        PROVE  UNCHANGED <<BlockContent, BlockOwner>>
    BY <2>2 DEF BlockContent, BlockOwner, ValidFor, Cached
  <2>3. ASSUME NEW p \in Users, NEW k \in Blocks, bgetHit(p, k)
        PROVE  UNCHANGED <<BlockContent, BlockOwner>>
    BY Zenon, <2>2, <2>3 DEF bgetHit
  <2>4. CASE UNCHANGED biovars
    BY Zenon, <2>2, <2>4 DEF biovars
  <2>5. ASSUME NEW p \in Users, bunpin(p) \/ brelse(p)
        PROVE  UNCHANGED <<BlockContent, BlockOwner>>
    BY Zenon, <2>2, <2>5 DEF bunpin, brelse
  <2> QED
    BY Zenon, <1>3, <2>1, <2>3, <2>4, <2>5, ChangeStep, ReleaseStep, ReadStep, ReturnStep, TransferStep,
       RecycleStep DEF BioNext
<1> QED
  BY <1>1, <1>3, Invariance, PTL DEF BioSpec, IsBlockStore, Store!Spec

=============================================================================
