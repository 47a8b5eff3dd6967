------------------------------ MODULE LogProofs ------------------------------
(***************************************************************************)
(* Proofs about Log, for any number of processes, blocks, operations and   *)
(* crashes, and any sizes of the log.                                      *)
(* From one invariant: commits are safe, Log implements AtomicDisk, and    *)
(* operations never overflow the log.                                      *)
(***************************************************************************)
EXTENDS Log, FiniteSetTheorems, TLAPS

\* What Append yields.
LEMMA AppendFacts ==
  ASSUME NEW S, NEW s \in Seq(S), NEW e \in S
  PROVE  /\ Append(s, e) \in Seq(S) /\ Len(Append(s, e)) = Len(s) + 1
         /\ \A i \in 1..Len(s) : Append(s, e)[i] = s[i]
         /\ Append(s, e)[Len(s) + 1] = e
  OBVIOUS

CommitPCs == {"wlog", "whead", "install", "clear", "done"}
Active == {p \in Procs : pc[p] = "op"}
Injective(s) == \A i, j \in 1..Len(s) : s[i] = s[j] => i = j

\* During recovery nothing else runs, and what it has replayed is in place.
Booting ==
  boot # "up" =>
    /\ pc = AllIdle /\ outstanding = 0 /\ ~committing /\ ~panicked /\ pin = NoPins
    /\ IF boot = "head" THEN lh = <<>> /\ btail = 1 ELSE lh = head
    /\ boot = "install" => btail <= Len(lh)
    /\ \A i \in 1..Len(lh) : boot = "clear" \/ i < btail => home[lh[i]] = logblk[i]
    /\ \A b \in Blocks : cache[b] \in {None, home[b]}

\* One process commits, while no operation is in progress; the log is empty when
\* neither is the case.
Commits ==
  /\ CommitAlone
  /\ committing => \E p \in Procs : pc[p] \in CommitPCs
  /\ outstanding = Cardinality(Active)
  /\ boot = "up" /\ ~committing /\ outstanding = 0 => lh = <<>>

\* The header on disk is the list in memory from the commit until it is cleared.
Heads ==
  /\ Injective(lh) /\ Injective(head)
  /\ boot = "up" => head = IF \E p \in Procs : pc[p] \in {"install", "clear"} THEN lh ELSE <<>>
  /\ \A p \in Procs : /\ pc[p] \in {"wlog", "install"} => tail[p] <= Len(lh)
                      /\ pc[p] = "whead" => tail[p] = 1 /\ lh # <<>>
                      /\ pc[p] = "done" => lh = <<>>

\* A block is in the cache, pinned, from log_write() to its installation, and
\* otherwise the cache has what is on disk. The loops of commit() have done what
\* they have passed.
Cached(b) ==
  IF b \in ToInstall THEN pin[b] = 1 /\ cache[b] # None
                     ELSE pin[b] = 0 /\ cache[b] \in {None, home[b]}
Copied(p, i) ==
  /\ pc[p] = "wlog" /\ i < tail[p] => logblk[i] = cache[lh[i]]
  /\ pc[p] = "whead" => logblk[i] = cache[lh[i]]
  /\ pc[p] = "install" => logblk[i] = IF i < tail[p] THEN home[lh[i]] ELSE cache[lh[i]]
  /\ pc[p] = "clear" => logblk[i] = home[lh[i]]
Contents ==
  /\ boot = "up" => \A b \in Blocks : Cached(b)
  /\ \A p \in Procs : \A i \in 1..Len(lh) : Copied(p, i)

\* A torn block is one that the header on disk lists, and the log has what
\* belongs there.
Replayable ==
  /\ \A i \in 1..Len(head) : logblk[i] \in Values
  /\ \A b \in Blocks : home[b] = Torn => boot # "up" /\ \E i \in 1..Len(head) : head[i] = b

IInv == TypeOK /\ Booting /\ Commits /\ Heads /\ Contents /\ Replayable

-----------------------------------------------------------------------------
(* Consequences of the definitions.                                        *)

\* Who commits, commits alone and after recovery.
LEMMA Committer ==
  ASSUME IInv, NEW p \in Procs, pc[p] \in CommitPCs
  PROVE  /\ committing /\ boot = "up"
         /\ \A q \in Procs : q # p => pc[q] \in {"idle", "asleep", "begin"}
<1>1. boot = "up"
  BY Zenon DEF IInv, Booting, AllIdle, CommitPCs
<1> QED
  BY Zenon, <1>1 DEF IInv, Commits, CommitAlone, CommitPCs

\* An operation in progress means that nobody commits.
LEMMA Operating ==
  ASSUME IInv, NEW p \in Procs, pc[p] = "op"
  PROVE  /\ boot = "up" /\ ~committing
         /\ \A q \in Procs : pc[q] \in {"idle", "asleep", "begin", "op"}
<1>1. boot = "up"
  BY Zenon DEF IInv, Booting, AllIdle
<1>2. \A q \in Procs : pc[q] \notin CommitPCs
  BY Zenon, Committer DEF CommitPCs
<1> QED
  BY Zenon, <1>1, <1>2 DEF IInv, Commits, CommitPCs, TypeOK, PCs

\* ToInstall, without the sets.
LEMMA InToInstall ==
  ASSUME NEW b
  PROVE  b \in ToInstall <=>
           /\ \A p \in Procs : pc[p] # "clear"
           /\ \E i \in 1..Len(lh) : /\ lh[i] = b
                                    /\ \A p \in Procs : pc[p] = "install" => i >= tail[p]
  BY Zenon DEF ToInstall

\* What ToInstall depends on.
LEMMA SameToInstall ==
  ASSUME lh' = lh,
         \A p \in Procs : /\ pc'[p] = "clear" <=> pc[p] = "clear"
                          /\ pc'[p] = "install" <=> pc[p] = "install"
                          /\ pc[p] = "install" => tail'[p] = tail[p]
  PROVE  ToInstall' = ToInstall
<1>1. (\E p \in Procs : pc'[p] = "clear") <=> (\E p \in Procs : pc[p] = "clear")
  BY Zenon
<1>2. \A k : (\A p \in Procs : pc'[p] = "install" => k >= tail'[p])
               <=> (\A p \in Procs : pc[p] = "install" => k >= tail[p])
  BY Zenon
<1> QED
  BY Zenon, <1>1, <1>2 DEF ToInstall

\* Before installation starts, all of the log is still to be installed.
LEMMA AllToInstall ==
  ASSUME \A p \in Procs : pc[p] \notin {"install", "clear"}
  PROVE  \A b : b \in ToInstall <=> \E i \in 1..Len(lh) : lh[i] = b
  BY Zenon, InToInstall

\* The processes inside an operation are finitely many.
LEMMA ActiveFinite ==
  IsFiniteSet(Active) /\ Cardinality(Active) \in Nat
<1>1. Active \in SUBSET Procs
  BY Zenon DEF Active
<1> QED
  BY Zenon, <1>1, FS_Subset, FS_CardinalityType, BoundsAssumption

-----------------------------------------------------------------------------
(* Every step keeps the invariant.                                         *)

\* The invariant holds before the first recovery.
LEMMA InitInv == Init => IInv
<1> SUFFICES ASSUME Init PROVE IInv
  BY Zenon
<1>1. TypeOK
  <2>1. <<>> \in Seq(Blocks) /\ Len(<<>>) = 0 /\ 0 \in Values
    BY BoundsAssumption DEF Values
  <2>2. /\ home \in [Blocks -> Values \cup {Torn}] /\ logblk \in [1..LOGSIZE -> Values \cup {Torn}]
        /\ cache \in [Blocks -> Values \cup {None}] /\ pin \in [Blocks -> Nat]
    BY Zenon, <2>1 DEF Init, NoCache, NoPins
  <2>3. pc \in [Procs -> PCs] /\ op \in [Procs -> Values] /\ written \in [Procs -> SUBSET Blocks]
    BY Zenon, <2>1 DEF Init, AllIdle, PCs
  <2>4. 1 \in 1..(LOGSIZE + 1)
    BY SizesAssumption
  <2>5. tail \in [Procs -> 1..(LOGSIZE + 1)]
    BY Zenon, <2>4 DEF Init
  <2>6. 0 <= LOGSIZE /\ 0 \in 0..MaxOps /\ 0 \in 0..MaxCrashes
    BY SizesAssumption, BoundsAssumption
  <2> QED
    BY Zenon, <2>1, <2>2, <2>3, <2>4, <2>5, <2>6 DEF Init, TypeOK
<1>2. Active = {}
  BY Zenon DEF Init, Active, AllIdle
<1>3. Commits
  BY Zenon, <1>2, FS_EmptySet DEF Init, Commits, CommitAlone, AllIdle, CommitPCs
<1>4. Len(<<>>) = 0 /\ lh = <<>> /\ head = <<>>
  BY Zenon DEF Init
<1>5. Booting
  BY <1>4 DEF Init, Booting, NoCache
<1>6. Heads
  BY <1>4 DEF Init, Heads, Injective, AllIdle
<1>7. Contents
  BY <1>4 DEF Init, Contents, AllIdle
<1>8. Replayable
  <2>1. \A b \in Blocks : home[b] # Torn
    BY MarksAssumption, BoundsAssumption DEF Init, Values
  <2> QED
    BY <1>4, <2>1 DEF Replayable
<1> QED
  BY Zenon, <1>1, <1>3, <1>5, <1>6, <1>7, <1>8 DEF IInv

\* bread() and the recycling of a clean buffer keep the invariant.
LEMMA ReadKeeps ==
  ASSUME IInv, NEW b \in Blocks, bread(b) \/ Recycle(b)
  PROVE  IInv'
<1> USE DEF bread, Recycle, Up, disk, booting, local
<1>1. home[b] \in Values
  BY Zenon DEF IInv, Replayable, TypeOK
<1>2. TypeOK'
  BY Zenon, <1>1 DEF IInv, TypeOK
<1>3. Booting' /\ Heads'
  BY DEF IInv, Booting, Heads, Injective
<1>4. Commits'
  <2>1. Active' = Active
    BY Zenon DEF Active
  <2> QED
    BY <2>1 DEF IInv, Commits, CommitAlone, CommitPCs
<1>5. Replayable'
  BY Zenon DEF IInv, Replayable
<1>6. Contents'
  <2>1. ToInstall' = ToInstall
    BY ZenonT(60) DEF ToInstall
  <2>2. b \notin ToInstall
    BY DEF IInv, Contents, Cached
  <2>3. \A p \in Procs, i \in 1..Len(lh) :
          pc[p] = "wlog" \/ pc[p] = "whead" \/ (pc[p] = "install" /\ ~(i < tail[p]))
            => lh[i] # b
    <3> SUFFICES ASSUME NEW p \in Procs, NEW i \in 1..Len(lh),
                        pc[p] = "wlog" \/ pc[p] = "whead" \/ (pc[p] = "install" /\ ~(i < tail[p]))
                 PROVE  lh[i] \in ToInstall
      BY Zenon, <2>2
    <3>1. \A q \in Procs : q # p => pc[q] \in {"idle", "asleep", "begin"}
      BY Zenon, Committer DEF CommitPCs
    <3>2. \A q \in Procs : pc[q] = "install" => i >= tail[q]
      <4>1. i \in Nat /\ tail[p] \in Nat
        BY DEF IInv, TypeOK
      <4> QED
        BY <3>1, <4>1
    <3> QED
      BY Zenon, <3>1, <3>2, InToInstall
  <2>4. ASSUME NEW p \in Procs, NEW i \in 1..Len(lh)
        PROVE  lh[i] \in Blocks
    BY DEF IInv, TypeOK
  <2>5. \A c \in Blocks : c # b => cache'[c] = cache[c]
    BY Zenon DEF IInv, TypeOK
  <2>6. cache'[b] \in {None, home[b]}
    BY Zenon DEF IInv, TypeOK
  <2>7. boot' = "up" => \A c \in Blocks : Cached(c)'
    BY Zenon, <2>1, <2>2, <2>5, <2>6 DEF IInv, Contents, Cached
  <2>8. ASSUME NEW p \in Procs, NEW i \in 1..Len(lh)
        PROVE  Copied(p, i)'
    <3>1. Copied(p, i)
      BY Zenon DEF IInv, Contents
    <3>2. pc[p] \in {"wlog", "whead"} \/ (pc[p] = "install" /\ ~(i < tail[p]))
            => cache'[lh[i]] = cache[lh[i]]
      BY Zenon, <2>3, <2>4, <2>5
    <3>3. UNCHANGED <<pc, tail, logblk, home, lh>>
      BY Zenon
    <3> HIDE DEF bread, Recycle
    <3> QED
      BY Zenon, <3>1, <3>2, <3>3 DEF Copied
  <2> QED
    BY Zenon, <2>7, <2>8 DEF Contents
<1> QED
  BY Zenon, <1>2, <1>3, <1>4, <1>5, <1>6 DEF IInv

\* begin_op() keeps the invariant, whether it waits or starts.
LEMMA BeginKeeps ==
  ASSUME IInv, NEW p \in Procs, begin_op(p)
  PROVE  IInv'
<1> USE DEF begin_op, Up, disk, booting
<1>1. TypeOK'
  <2>1. nops' \in 0..MaxOps /\ op' \in [Procs -> Values]
    <3>1. CASE nops < MaxOps /\ nops' = nops + 1 /\ op' = [op EXCEPT ![p] = nops + 1]
      <4>1. nops + 1 \in 0..MaxOps
        BY <3>1, BoundsAssumption DEF IInv, TypeOK
      <4> QED
        BY Zenon, <3>1, <4>1 DEF IInv, TypeOK, Values
    <3>2. CASE UNCHANGED <<nops, op>>
      BY Zenon, <3>2 DEF IInv, TypeOK
    <3> QED
      BY Zenon, <3>1, <3>2
  <2>2. pc' \in [Procs -> PCs] /\ written' \in [Procs -> SUBSET Blocks] /\ outstanding' \in Nat
    <3>1. CASE MustWait
      BY Zenon, <3>1 DEF IInv, TypeOK, PCs
    <3>2. CASE ~MustWait
      <4>1. /\ pc' = [pc EXCEPT ![p] = "op"] /\ outstanding' = outstanding + 1
            /\ written' = [written EXCEPT ![p] = {}]
        BY Zenon, <3>2
      <4>2. {} \in SUBSET Blocks /\ "op" \in PCs
        BY Zenon DEF PCs
      <4> HIDE DEF begin_op
      <4> QED
        BY <4>1, <4>2 DEF IInv, TypeOK
    <3> QED
      BY Zenon, <3>1, <3>2
  <2> QED
    BY Zenon, <2>1, <2>2 DEF IInv, TypeOK
<1>2. /\ pc[p] \in {"idle", "begin"} /\ pc'[p] \in {"asleep", "op"}
      /\ \A q \in Procs : q # p => pc'[q] = pc[q]
      /\ pc'[p] = "op" => ~committing
  BY Zenon DEF IInv, TypeOK, MustWait
<1>3. Booting' /\ Heads'
  BY <1>2 DEF IInv, Booting, Heads, Injective
<1>4. Commits'
  <2>1. CommitAlone'
    BY Zenon, <1>2 DEF IInv, Commits, CommitAlone, CommitPCs
  <2>2. committing' => \E q \in Procs : pc'[q] \in CommitPCs
    BY Zenon, <1>2 DEF IInv, Commits, CommitPCs
  <2>3. outstanding' = Cardinality(Active)'
    <3>1. CASE pc'[p] = "asleep"
      <4>1. Active' = Active /\ outstanding' = outstanding
        BY Zenon, <3>1, <1>2 DEF Active, IInv, TypeOK
      <4> QED
        BY Zenon, <4>1 DEF IInv, Commits
    <3>2. CASE pc'[p] = "op"
      <4>1. Active' = Active \cup {p} /\ p \notin Active /\ outstanding' = outstanding + 1
        BY <3>2, <1>2 DEF Active, IInv, TypeOK
      <4> QED
        BY Zenon, <4>1, ActiveFinite, FS_AddElement DEF IInv, Commits
    <3> QED
      BY Zenon, <3>1, <3>2, <1>2
  <2>4. boot' = "up" /\ ~committing' /\ outstanding' = 0 => lh' = <<>>
    BY DEF IInv, Commits, TypeOK
  <2> QED
    BY Zenon, <2>1, <2>2, <2>3, <2>4 DEF Commits
<1>5. Replayable'
  BY Zenon DEF IInv, Replayable
<1>6. Contents'
  <2>1. ToInstall' = ToInstall
    BY Zenon, <1>2, SameToInstall
  <2> QED
    BY <2>1, <1>2 DEF IInv, Contents, Cached, Copied
<1> QED
  BY Zenon, <1>1, <1>3, <1>4, <1>5, <1>6 DEF IInv

\* log_write() keeps the invariant, absorbed or not.
LEMMA WriteKeeps ==
  ASSUME IInv, NEW p \in Procs, NEW b \in Blocks, log_write(p, b)
  PROVE  IInv'
<1>1. /\ boot = "up" /\ ~committing
      /\ \A q \in Procs : pc[q] \in {"idle", "asleep", "begin", "op"}
  BY Zenon, Operating DEF log_write
<1>2. CASE TooBig \/ outstanding < 1
  <2>1. UNCHANGED <<disk, mem, booting, local, nops, crashes>> /\ panicked' = TRUE
    BY Zenon, <1>2 DEF log_write, mem, local
  <2>2. Active' = Active /\ ToInstall' = ToInstall
    BY Zenon, <2>1 DEF Active, ToInstall, mem, local
  <2>3. TypeOK' /\ Booting'
    BY Zenon, <1>1, <2>1 DEF IInv, TypeOK, Booting, disk, mem, booting, local
  <2>4. Commits' /\ Heads'
    BY <2>1, <2>2 DEF IInv, Commits, CommitAlone, CommitPCs, Heads, Injective, disk, mem, booting, local
  <2>5. Contents' /\ Replayable'
    BY <2>1, <2>2 DEF IInv, Contents, Cached, Copied, Replayable, disk, mem, booting, local
  <2> QED
    BY Zenon, <2>3, <2>4, <2>5 DEF IInv
<1>3. CASE ~(TooBig \/ outstanding < 1)
  <2>1. /\ UNCHANGED <<disk, outstanding, committing, booting, pc, tail, op, nops, crashes, panicked>>
        /\ cache' = [cache EXCEPT ![b] = op[p]]
        /\ written' = [written EXCEPT ![p] = @ \cup {b}]
        /\ Absorb(b)
    BY Zenon, <1>3 DEF log_write
  <2>2. Len(lh) < LOGSIZE /\ outstanding >= 1
    BY <1>3, SizesAssumption DEF TooBig, IInv, TypeOK
  <2>3. /\ lh' \in Seq(Blocks) /\ Len(lh') <= LOGSIZE /\ Injective(lh')
        /\ \A c : (\E i \in 1..Len(lh') : lh'[i] = c) <=> c = b \/ \E i \in 1..Len(lh) : lh[i] = c
        /\ \A i \in 1..Len(lh) : lh'[i] = lh[i]
        /\ pin' = IF \E i \in 1..Len(lh) : lh[i] = b THEN pin ELSE [pin EXCEPT ![b] = @ + 1]
    <3>1. lh \in Seq(Blocks) /\ Injective(lh) /\ Len(lh) \in Nat
      BY DEF IInv, TypeOK, Heads
    <3>2. b \in Range(lh) <=> \E i \in 1..Len(lh) : lh[i] = b
      BY <3>1 DEF Range
    <3>3. CASE b \in Range(lh)
      <4>1. lh' = lh /\ pin' = pin
        BY Zenon, <2>1, <3>3 DEF Absorb
      <4>2. Len(lh) <= LOGSIZE
        BY <2>2, <3>1, SizesAssumption
      <4>3. \A c : (\E i \in 1..Len(lh) : lh[i] = c) <=> c = b \/ \E i \in 1..Len(lh) : lh[i] = c
        BY Zenon, <3>2, <3>3
      <4> QED
        BY Zenon, <3>1, <3>2, <3>3, <4>1, <4>2, <4>3
    <3>4. CASE b \notin Range(lh)
      <4>1. lh' = Append(lh, b) /\ pin' = [pin EXCEPT ![b] = @ + 1]
        BY Zenon, <2>1, <3>4 DEF Absorb
      <4>2. /\ lh' \in Seq(Blocks) /\ Len(lh') = Len(lh) + 1
            /\ lh'[Len(lh) + 1] = b /\ \A i \in 1..Len(lh) : lh'[i] = lh[i]
        BY <3>1, <4>1, AppendFacts
      <4>3. Injective(lh')
        BY <3>1, <3>2, <3>4, <4>2 DEF Injective
      <4>4. \A c : (\E i \in 1..Len(lh') : lh'[i] = c) <=> c = b \/ \E i \in 1..Len(lh) : lh[i] = c
        BY <3>1, <4>2
      <4>5. Len(lh') <= LOGSIZE
        BY <2>2, <3>1, <4>2, SizesAssumption
      <4> QED
        BY Zenon, <3>2, <3>4, <4>1, <4>2, <4>3, <4>4, <4>5
    <3> QED
      BY Zenon, <3>3, <3>4
  <2>4. TypeOK'
    <3>1. op[p] \in Values \cup {None} /\ written[p] \cup {b} \in SUBSET Blocks
      BY Zenon DEF IInv, TypeOK
    <3>2. cache' \in [Blocks -> Values \cup {None}] /\ written' \in [Procs -> SUBSET Blocks]
      BY Zenon, <2>1, <3>1 DEF IInv, TypeOK
    <3>3. pin' \in [Blocks -> Nat]
      BY <2>3 DEF IInv, TypeOK
    <3> QED
      BY Zenon, <2>1, <2>3, <3>2, <3>3 DEF IInv, TypeOK, disk, booting
  <2>5. Booting' /\ Replayable'
    BY Zenon, <1>1, <2>1 DEF IInv, Booting, Replayable, disk, booting
  <2>6. Commits'
    <3>1. Active' = Active
      BY Zenon, <2>1 DEF Active
    <3> QED
      BY <2>1, <2>2, <3>1 DEF IInv, Commits, CommitAlone, CommitPCs, TypeOK, booting
  <2>7. Heads'
    BY <1>1, <2>1, <2>3 DEF IInv, Heads, Injective, disk, booting
  <2>8. Contents'
    <3>1. \A c : c \in ToInstall <=> \E i \in 1..Len(lh) : lh[i] = c
      BY Zenon, <1>1, AllToInstall
    <3>2. \A c : c \in ToInstall' <=> c = b \/ c \in ToInstall
      <4>1. \A q \in Procs : pc'[q] \notin {"install", "clear"}
        BY Zenon, <1>1, <2>1
      <4>2. \A c : c \in ToInstall' <=> \E i \in 1..Len(lh') : lh'[i] = c
        BY Zenon, <4>1 DEF ToInstall
      <4> QED
        BY Zenon, <2>3, <3>1, <4>2
    <3>3. op[p] # None
      BY MarksAssumption DEF IInv, TypeOK
    <3>4. ASSUME NEW c \in Blocks PROVE Cached(c)'
      <4>1. Cached(c)
        BY Zenon, <1>1 DEF IInv, Contents
      <4>2. CASE c = b
        <5>1. cache'[b] # None
          BY Zenon, <2>1, <3>3 DEF IInv, TypeOK
        <5>2. pin'[b] = 1
          <6>1. CASE b \in ToInstall
            BY Zenon, <6>1, <2>3, <3>1, <4>1, <4>2 DEF Cached
          <6>2. CASE b \notin ToInstall
            <7>1. pin[b] = 0 /\ pin' = [pin EXCEPT ![b] = @ + 1]
              BY Zenon, <6>2, <2>3, <3>1, <4>1, <4>2 DEF Cached
            <7> QED
              BY <7>1 DEF IInv, TypeOK
          <6> QED
            BY Zenon, <6>1, <6>2
        <5> QED
          BY Zenon, <4>2, <5>1, <5>2, <3>2 DEF Cached
      <4>3. CASE c # b
        <5>1. cache'[c] = cache[c] /\ pin'[c] = pin[c] /\ home' = home
          BY Zenon, <2>1, <2>3, <4>3 DEF IInv, TypeOK, disk
        <5> QED
          BY Zenon, <4>1, <4>3, <5>1, <3>2 DEF Cached
      <4> QED
        BY Zenon, <4>2, <4>3
    <3> QED
      BY Zenon, <1>1, <2>1, <3>4 DEF Contents, Copied
  <2> QED
    BY Zenon, <2>4, <2>5, <2>6, <2>7, <2>8 DEF IInv
<1> QED
  BY Zenon, <1>2, <1>3

\* end_op() keeps the invariant; the last one out starts the commit.
LEMMA EndKeeps ==
  ASSUME IInv, NEW p \in Procs, end_op(p)
  PROVE  IInv'
<1>1. /\ boot = "up" /\ ~committing /\ pc[p] = "op"
      /\ \A q \in Procs : pc[q] \in {"idle", "asleep", "begin", "op"}
  BY Zenon, Operating DEF end_op
<1>2. /\ UNCHANGED <<disk, cache, pin, lh, booting, op, written, nops, crashes>>
      /\ outstanding' = outstanding - 1 /\ panicked' = committing
  BY Zenon DEF end_op
<1>3. Active' = Active \ {p} /\ p \in Active
  <2>1. pc'[p] # "op" /\ \A q \in Procs : q # p => (pc'[q] = "op" <=> pc[q] = "op")
    BY Zenon DEF end_op, Wake, IInv, TypeOK
  <2> QED
    BY Zenon, <1>1, <2>1 DEF Active
<1>4. outstanding' = Cardinality(Active') /\ outstanding' \in Nat
  <2>1. Cardinality(Active') = Cardinality(Active) - 1
    BY Zenon, <1>3, ActiveFinite, FS_RemoveElement
  <2>2. Cardinality(Active) # 0
    BY Zenon, <1>3, ActiveFinite, FS_EmptySet
  <2> QED
    BY <1>2, <2>1, <2>2, ActiveFinite DEF IInv, Commits
<1>5. CASE outstanding' = 0
  <2>1. /\ committing' = TRUE
        /\ pc' = [pc EXCEPT ![p] = IF lh = <<>> THEN "done" ELSE "wlog"]
        /\ tail' = [tail EXCEPT ![p] = 1]
    BY Zenon, <1>5 DEF end_op
  <2>2. \A q \in Procs : q # p => pc[q] # "op"
    <3>1. Active' = {}
      <4>1. Active' \in SUBSET Active
        BY Zenon, <1>3
      <4>2. IsFiniteSet(Active')
        BY Zenon, <4>1, ActiveFinite, FS_Subset
      <4> QED
        BY Zenon, <1>4, <1>5, <4>2, FS_EmptySet
    <3> QED
      BY Zenon, <1>3, <3>1 DEF Active
  <2>3. /\ pc'[p] = IF lh = <<>> THEN "done" ELSE "wlog"
        /\ tail'[p] = 1
        /\ \A q \in Procs : q # p => pc'[q] = pc[q] /\ pc[q] \in {"idle", "asleep", "begin"}
    BY Zenon, <1>1, <2>1, <2>2 DEF IInv, TypeOK
  <2>4. TypeOK'
    <3>1. 1 \in 1..(LOGSIZE + 1)
      BY SizesAssumption
    <3>2. pc' \in [Procs -> PCs] /\ tail' \in [Procs -> 1..(LOGSIZE + 1)]
      BY Zenon, <2>1, <3>1 DEF IInv, TypeOK, PCs
    <3>3. panicked' \in BOOLEAN /\ committing' \in BOOLEAN
      BY Zenon, <1>2, <2>1 DEF IInv, TypeOK
    <3> QED
      BY Zenon, <1>2, <1>4, <3>2, <3>3 DEF IInv, TypeOK, disk, booting
  <2>5. Booting' /\ Replayable'
    BY Zenon, <1>1, <1>2 DEF IInv, Booting, Replayable, disk, booting
  <2>6. Commits'
    BY Zenon, <1>4, <2>1, <2>3 DEF Commits, CommitAlone, CommitPCs
  <2>7. Heads'
    <3>1. lh # <<>> => 1 <= Len(lh)
      BY DEF IInv, TypeOK
    <3>2. head' = <<>>
      BY Zenon, <1>1, <1>2 DEF IInv, Heads, disk
    <3> QED
      BY <1>2, <2>3, <3>1, <3>2 DEF IInv, Heads, Injective, disk
  <2>8. Contents'
    <3>1. ToInstall' = ToInstall
      BY Zenon, <1>1, <1>2, <2>3, SameToInstall
    <3>2. \A c \in Blocks : Cached(c)'
      BY Zenon, <1>1, <1>2, <3>1 DEF IInv, Contents, Cached, disk
    <3>3. ASSUME NEW q \in Procs, NEW i \in 1..Len(lh) PROVE Copied(q, i)'
      <4>1. i \in Nat /\ i >= 1
        OBVIOUS
      <4> QED
        BY <2>3, <4>1 DEF Copied
    <3> QED
      BY Zenon, <1>2, <3>2, <3>3 DEF Contents
  <2> QED
    BY Zenon, <2>4, <2>5, <2>6, <2>7, <2>8 DEF IInv
<1>6. CASE outstanding' # 0
  <2>1. pc' = [Wake EXCEPT ![p] = "idle"] /\ UNCHANGED <<committing, tail>>
    BY Zenon, <1>6 DEF end_op
  <2>2. \A q \in Procs : pc'[q] \in {"idle", "asleep", "begin", "op"}
    BY Zenon, <1>1, <2>1 DEF Wake, IInv, TypeOK
  <2>3. TypeOK'
    <3>1. pc' \in [Procs -> PCs]
      BY Zenon, <2>1 DEF Wake, IInv, TypeOK, PCs
    <3>2. panicked' \in BOOLEAN
      BY Zenon, <1>2 DEF IInv, TypeOK
    <3> QED
      BY Zenon, <1>2, <1>4, <2>1, <3>1, <3>2 DEF IInv, TypeOK, disk, booting
  <2>4. Booting' /\ Replayable'
    BY Zenon, <1>1, <1>2 DEF IInv, Booting, Replayable, disk, booting
  <2>5. Commits'
    BY Zenon, <1>1, <1>4, <1>6, <2>1, <2>2 DEF Commits, CommitAlone, CommitPCs
  <2>6. Heads'
    BY <1>1, <1>2, <2>2 DEF IInv, Heads, Injective, disk
  <2>7. Contents'
    <3>1. ToInstall' = ToInstall
      BY Zenon, <1>1, <1>2, <2>2, SameToInstall
    <3> QED
      BY Zenon, <1>1, <1>2, <2>2, <3>1 DEF IInv, Contents, Cached, Copied, disk
  <2> QED
    BY Zenon, <2>3, <2>4, <2>5, <2>6, <2>7 DEF IInv
<1> QED
  BY Zenon, <1>5, <1>6

-----------------------------------------------------------------------------
(* Recovery and crashes.                                                   *)

\* Every step of recover_from_log() keeps the invariant.
LEMMA RecoverKeeps ==
  ASSUME IInv, Recover
  PROVE  IInv'
<1>1. /\ pc = AllIdle /\ outstanding = 0 /\ committing = FALSE /\ pin = NoPins /\ panicked = FALSE
      /\ boot # "up" /\ UNCHANGED <<logblk, pin, outstanding, committing, local, nops, crashes, panicked>>
  BY Zenon DEF IInv, Booting, TypeOK, Recover, read_head, recover_install, recover_clear, disk
<1>2. \A p \in Procs : pc[p] = "idle" /\ pc'[p] = "idle"
  BY Zenon, <1>1 DEF AllIdle, local
<1>3. (boot' = "up" => lh' = <<>>) => Commits'
  <2>1. Active' = Active
    BY Zenon, <1>2 DEF Active
  <2> QED
    BY Zenon, <2>1, <1>1, <1>2 DEF IInv, Commits, CommitAlone, CommitPCs
<1>4. Len(<<>>) = 0 /\ <<>> \in Seq(Blocks) /\ 0 <= LOGSIZE
  BY SizesAssumption
<1>5. CASE read_head
  <2>1. /\ boot = "head" /\ lh' = head /\ boot' = IF head = <<>> THEN "clear" ELSE "install"
        /\ UNCHANGED <<home, head, cache, btail>> /\ btail = 1
    BY Zenon, <1>5 DEF read_head, disk, IInv, Booting
  <2>2. TypeOK'
    BY Zenon, <2>1, <1>1 DEF IInv, TypeOK, local
  <2>3. Booting'
    <3>1. head # <<>> => 1 <= Len(head)
      BY DEF IInv, TypeOK
    <3>2. head = <<>> => Len(head) = 0
      BY Zenon, <1>4
    <3>3. \A i \in 1..Len(lh') : (boot' = "clear" \/ i < btail') => home'[lh'[i]] = logblk'[i]
      BY <2>1, <3>2
    <3> QED
      BY Zenon, <2>1, <3>1, <3>3, <1>1 DEF IInv, Booting, local
  <2>4. Commits'
    BY Zenon, <2>1, <1>3
  <2>5. Heads' /\ Contents'
    BY <2>1, <1>2 DEF IInv, Heads, Injective, Contents, Copied
  <2>6. Replayable'
    BY Zenon, <2>1, <1>1 DEF IInv, Replayable
  <2> QED
    BY Zenon, <2>2, <2>3, <2>4, <2>5, <2>6 DEF IInv
<1>6. CASE recover_install
  <2> DEFINE b == lh[btail]
  <2>1. /\ boot = "install" /\ lh = head /\ btail <= Len(lh) /\ UNCHANGED <<head, lh>>
        /\ home' = [home EXCEPT ![b] = logblk[btail]] /\ cache' = [cache EXCEPT ![b] = logblk[btail]]
        /\ IF btail < Len(lh) THEN btail' = btail + 1 /\ boot' = boot
                              ELSE btail' = 1 /\ boot' = "clear"
    BY Zenon, <1>6 DEF recover_install, CopyHome, IInv, Booting
  <2>2. /\ btail \in 1..Len(lh) /\ Len(lh) \in Nat /\ Len(lh) <= LOGSIZE /\ LOGSIZE \in Nat
        /\ lh \in Seq(Blocks) /\ b \in Blocks /\ logblk[btail] \in Values
    <3>1. /\ btail \in 1..Len(lh) /\ Len(lh) \in Nat /\ Len(lh) <= LOGSIZE /\ LOGSIZE \in Nat
          /\ lh \in Seq(Blocks)
      BY <2>1, SizesAssumption DEF IInv, TypeOK
    <3> QED
      BY <3>1, <2>1 DEF IInv, Replayable
  <2>3. \A i \in 1..Len(lh) : lh[i] \in Blocks /\ (lh[i] = b <=> i = btail)
    BY <2>2 DEF IInv, Heads, Injective
  <2>4. /\ home'[b] = logblk[btail] /\ cache'[b] = logblk[btail]
        /\ \A c \in Blocks : c # b => home'[c] = home[c] /\ cache'[c] = cache[c]
    BY Zenon, <2>1, <2>2 DEF IInv, TypeOK
  <2>5. /\ btail' \in 1..(LOGSIZE + 1) /\ boot' \in {"install", "clear"}
        /\ boot' = "install" => btail' <= Len(lh)
        /\ \A i \in 1..Len(lh) : (boot' = "clear" \/ i < btail') => i <= btail
    BY <2>1, <2>2
  <2>6. TypeOK'
    <3>1. home' \in [Blocks -> Values \cup {Torn}] /\ cache' \in [Blocks -> Values \cup {None}]
      BY Zenon, <2>1, <2>2 DEF IInv, TypeOK
    <3> QED
      BY Zenon, <3>1, <2>1, <2>5, <1>1 DEF IInv, TypeOK, local
  <2>7. Booting'
    <3>1. ASSUME NEW i \in 1..Len(lh), boot' = "clear" \/ i < btail' PROVE home'[lh[i]] = logblk'[i]
      <4>1. CASE i = btail
        BY Zenon, <4>1, <2>4, <1>1
      <4>2. CASE i # btail
        <5>1. i < btail
          BY <4>2, <3>1, <2>2, <2>5
        <5>2. home[lh[i]] = logblk[i]
          BY Zenon, <5>1, <1>1 DEF IInv, Booting
        <5> QED
          BY Zenon, <4>2, <5>2, <2>3, <2>4, <1>1
      <4> QED
        BY Zenon, <4>1, <4>2
    <3>2. \A c \in Blocks : cache'[c] \in {None, home'[c]}
      BY Zenon, <2>4, <1>1 DEF IInv, Booting
    <3> HIDE DEF b
    <3> QED
      BY <3>1, <3>2, <2>1, <2>5, <1>1 DEF Booting, local
  <2>8. Commits'
    BY Zenon, <2>5, <1>3
  <2>9. Heads' /\ Contents'
    BY <2>1, <2>5, <1>2 DEF IInv, Heads, Injective, Contents, Copied
  <2>10. Replayable'
    <3>1. \A c \in Blocks : home'[c] = Torn => home[c] = Torn
      BY Zenon, <2>2, <2>4, MarksAssumption
    <3> QED
      BY Zenon, <3>1, <2>1, <2>5, <1>1 DEF IInv, Replayable
  <2> QED
    BY Zenon, <2>6, <2>7, <2>8, <2>9, <2>10 DEF IInv
<1>7. CASE recover_clear
  <2>1. /\ boot = "clear" /\ lh = head /\ lh' = <<>> /\ head' = <<>> /\ boot' = "up"
        /\ UNCHANGED <<home, cache, btail>>
        /\ \A i \in 1..Len(lh) : home[lh[i]] = logblk[i]
        /\ \A c \in Blocks : cache[c] \in {None, home[c]}
    BY Zenon, <1>7 DEF recover_clear, IInv, Booting
  <2>2. TypeOK'
    BY Zenon, <2>1, <1>1, <1>4 DEF IInv, TypeOK, local
  <2>3. Booting'
    BY Zenon, <2>1 DEF Booting
  <2>4. Commits'
    BY Zenon, <2>1, <1>3
  <2>5. Heads'
    BY <2>1, <1>2, <1>4 DEF Heads, Injective
  <2>6. Contents'
    <3>1. \A c : c \notin ToInstall'
      BY <2>1, <1>4 DEF ToInstall
    <3>2. \A c \in Blocks : Cached(c)'
      BY Zenon, <3>1, <2>1, <1>1 DEF Cached, NoPins
    <3> QED
      BY <3>2, <2>1, <1>4 DEF Contents
  <2>7. Replayable'
    <3>1. \A c \in Blocks : home[c] # Torn
      BY <2>1, MarksAssumption DEF IInv, Replayable
    <3> QED
      BY <3>1, <2>1, <1>4 DEF Replayable
  <2> QED
    BY Zenon, <2>2, <2>3, <2>4, <2>5, <2>6, <2>7 DEF IInv
<1> QED
  BY Zenon, <1>5, <1>6, <1>7 DEF Recover

\* What a crash does to the disk: it may tear a home block that the header
\* lists, or a log block while the header is empty.
LEMMA CrashTears ==
  ASSUME IInv, Crash
  PROVE  /\ home' \in [Blocks -> Values \cup {Torn}] /\ logblk' \in [1..LOGSIZE -> Values \cup {Torn}]
         /\ \A i \in 1..Len(head) : logblk'[i] = logblk[i]
         /\ \A c \in Blocks : home'[c] = home[c] \/ \E i \in 1..Len(head) : head[i] = c
<1>1. home \in [Blocks -> Values \cup {Torn}] /\ logblk \in [1..LOGSIZE -> Values \cup {Torn}]
  BY Zenon DEF IInv, TypeOK
<1>2. CASE UNCHANGED <<home, logblk>>
  BY Zenon, <1>1, <1>2
<1>3. ASSUME NEW b \in TornHome, home' = [home EXCEPT ![b] = Torn], logblk' = logblk
      PROVE  /\ home' \in [Blocks -> Values \cup {Torn}]
             /\ \A c \in Blocks : home'[c] = home[c] \/ \E i \in 1..Len(head) : head[i] = c
  <2>1. \E i \in 1..Len(head) : head[i] = b
    <3>1. CASE boot = "install"
      <4>1. b = head[btail] /\ btail <= Len(head)
        BY Zenon, <1>3, <3>1 DEF TornHome, IInv, Booting
      <4>2. btail \in Nat /\ btail >= 1 /\ Len(head) \in Nat
        BY SizesAssumption DEF IInv, TypeOK
      <4> QED
        BY <4>1, <4>2
    <3>2. CASE boot # "install"
      <4>1. PICK p \in Procs : pc[p] = "install" /\ b = lh[tail[p]]
        BY Zenon, <1>3, <3>2 DEF TornHome
      <4>2. boot = "up"
        BY Zenon, <4>1, Committer DEF CommitPCs
      <4>3. head = lh /\ tail[p] <= Len(lh)
        BY Zenon, <4>1, <4>2 DEF IInv, Heads
      <4>4. tail[p] \in Nat /\ tail[p] >= 1 /\ Len(lh) \in Nat
        BY SizesAssumption DEF IInv, TypeOK
      <4> QED
        BY <4>1, <4>3, <4>4
    <3> QED
      BY Zenon, <3>1, <3>2
  <2>2. \A c \in Blocks : c # b => home'[c] = home[c]
    BY Zenon, <1>1, <1>3
  <2>3. home' \in [Blocks -> Values \cup {Torn}]
    BY Zenon, <1>1, <1>3
  <2> QED
    BY Zenon, <2>1, <2>2, <2>3
<1>4. ASSUME NEW i \in TornLog, logblk' = [logblk EXCEPT ![i] = Torn], home' = home
      PROVE  /\ logblk' \in [1..LOGSIZE -> Values \cup {Torn}]
             /\ \A j \in 1..Len(head) : logblk'[j] = logblk[j]
  <2>1. PICK p \in Procs : pc[p] = "wlog"
    BY Zenon, <1>4 DEF TornLog
  <2>2. boot = "up" /\ \A q \in Procs : pc[q] \notin {"install", "clear"}
    BY Zenon, <2>1, Committer DEF CommitPCs
  <2>3. head = <<>> /\ Len(<<>>) = 0
    BY Zenon, <2>2 DEF IInv, Heads
  <2>4. logblk' \in [1..LOGSIZE -> Values \cup {Torn}]
    BY Zenon, <1>1, <1>4
  <2> QED
    BY <2>3, <2>4
<1> QED
  BY Zenon, <1>1, <1>2, <1>3, <1>4 DEF Crash

\* A crash at any point leaves a disk that can be recovered.
LEMMA CrashKeeps ==
  ASSUME IInv, Crash
  PROVE  IInv'
<1>1. /\ cache' = NoCache /\ pin' = NoPins /\ lh' = <<>> /\ outstanding' = 0 /\ committing' = FALSE
      /\ boot' = "head" /\ btail' = 1 /\ pc' = AllIdle /\ tail' = [p \in Procs |-> 1]
      /\ op' = [p \in Procs |-> 0] /\ written' = [p \in Procs |-> {}]
      /\ UNCHANGED <<head, nops, panicked>> /\ ~panicked
      /\ crashes < MaxCrashes /\ crashes' = crashes + 1
  BY Zenon DEF Crash
<1>2. Len(<<>>) = 0 /\ <<>> \in Seq(Blocks) /\ 0 <= LOGSIZE /\ 1 \in 1..(LOGSIZE + 1) /\ 0 \in Values
  BY SizesAssumption, BoundsAssumption DEF Values
<1>3. TypeOK'
  <2>1. cache' \in [Blocks -> Values \cup {None}] /\ pin' \in [Blocks -> Nat]
    BY Zenon, <1>1 DEF NoCache, NoPins
  <2>2. pc' \in [Procs -> PCs] /\ tail' \in [Procs -> 1..(LOGSIZE + 1)]
    BY Zenon, <1>1, <1>2 DEF AllIdle, PCs
  <2>3. op' \in [Procs -> Values] /\ written' \in [Procs -> SUBSET Blocks]
    BY Zenon, <1>1, <1>2
  <2>4. crashes' \in 0..MaxCrashes
    BY <1>1, BoundsAssumption DEF IInv, TypeOK
  <2> QED
    BY Zenon, <2>1, <2>2, <2>3, <2>4, <1>1, <1>2, CrashTears DEF IInv, TypeOK
<1>4. Booting'
  BY <1>1, <1>2 DEF Booting, NoCache
<1>5. \A p \in Procs : pc'[p] = "idle"
  BY Zenon, <1>1 DEF AllIdle
<1>6. Commits'
  <2>1. Active' = {}
    BY Zenon, <1>5 DEF Active
  <2> QED
    BY Zenon, <2>1, <1>1, <1>5, FS_EmptySet DEF Commits, CommitAlone, CommitPCs
<1>7. Heads' /\ Contents'
  BY <1>1, <1>2, <1>5 DEF IInv, Heads, Injective, Contents
<1>8. Replayable'
  <2>1. \A i \in 1..Len(head) : logblk'[i] \in Values
    BY Zenon, CrashTears DEF IInv, Replayable
  <2>2. \A c \in Blocks : home'[c] = Torn => \E i \in 1..Len(head) : head[i] = c
    BY Zenon, CrashTears DEF IInv, Replayable
  <2> QED
    BY Zenon, <2>1, <2>2, <1>1 DEF Replayable
<1> QED
  BY Zenon, <1>3, <1>4, <1>6, <1>7, <1>8 DEF IInv

\* A step that changes nothing keeps the invariant.
LEMMA StutterKeeps ==
  ASSUME IInv, UNCHANGED vars
  PROVE  IInv'
<1>1. Active' = Active /\ ToInstall' = ToInstall
  BY Zenon DEF Active, ToInstall, vars
<1>2. TypeOK' /\ Booting'
  BY Zenon DEF IInv, TypeOK, Booting, vars
<1>3. Commits' /\ Heads'
  BY <1>1 DEF IInv, Commits, CommitAlone, CommitPCs, Heads, Injective, vars
<1>4. Contents' /\ Replayable'
  BY <1>1 DEF IInv, Contents, Cached, Copied, Replayable, vars
<1> QED
  BY Zenon, <1>2, <1>3, <1>4 DEF IInv

-----------------------------------------------------------------------------
(* The steps of commit() keep the invariant, which so holds always.        *)

\* The iterations of the loops of commit().
LEMMA LoopFacts ==
  ASSUME TypeOK, NEW p \in Procs, NEW next, tail[p] <= Len(lh), Loop(p, next)
  PROVE  /\ tail' \in [Procs -> 1..(LOGSIZE + 1)]
         /\ \A q \in Procs : q # p => pc'[q] = pc[q] /\ tail'[q] = tail[q]
         /\ next \in PCs => pc' \in [Procs -> PCs]
         /\ IF tail[p] < Len(lh) THEN pc'[p] = pc[p] /\ tail'[p] = tail[p] + 1
                                 ELSE pc'[p] = next /\ tail'[p] = 1 /\ tail[p] = Len(lh)
<1>1. tail[p] \in 1..(LOGSIZE + 1) /\ Len(lh) \in Nat /\ Len(lh) <= LOGSIZE /\ LOGSIZE \in Nat
  BY SizesAssumption DEF TypeOK
<1>2. CASE tail[p] < Len(lh)
  <2>1. tail' = [tail EXCEPT ![p] = @ + 1] /\ pc' = pc
    BY Zenon, <1>2 DEF Loop
  <2>2. tail[p] + 1 \in 1..(LOGSIZE + 1)
    BY <1>1, <1>2
  <2> QED
    BY Zenon, <1>2, <2>1, <2>2 DEF TypeOK
<1>3. CASE ~(tail[p] < Len(lh))
  <2>1. tail' = [tail EXCEPT ![p] = 1] /\ pc' = [pc EXCEPT ![p] = next]
    BY Zenon, <1>3 DEF Loop
  <2>2. 1 \in 1..(LOGSIZE + 1) /\ tail[p] = Len(lh)
    BY <1>1, <1>3
  <2> QED
    BY Zenon, <1>3, <2>1, <2>2 DEF TypeOK
<1> QED
  BY Zenon, <1>2, <1>3

LEMMA WriteLogKeeps ==
  ASSUME IInv, NEW p \in Procs, write_log(p)
  PROVE  IInv'
<1> DEFINE t == tail[p]
<1>1. /\ pc[p] = "wlog" /\ boot = "up" /\ committing
      /\ \A q \in Procs : q # p => pc[q] \in {"idle", "asleep", "begin"}
  BY Zenon, Committer DEF write_log, CommitPCs
<1>2. /\ UNCHANGED <<home, head, mem, booting, op, written, nops, crashes, panicked>>
      /\ logblk' = [logblk EXCEPT ![t] = Content(lh[t])]
      /\ Loop(p, "whead")
  BY Zenon DEF write_log, AfterWriteLog
<1>3. /\ t <= Len(lh) /\ t \in 1..Len(lh) /\ t \in 1..LOGSIZE /\ Len(lh) \in Nat
      /\ lh \in Seq(Blocks) /\ lh[t] \in Blocks /\ lh # <<>>
  <2>1. t <= Len(lh) /\ t \in 1..(LOGSIZE + 1) /\ Len(lh) \in Nat /\ Len(lh) <= LOGSIZE
        /\ lh \in Seq(Blocks)
    BY <1>1 DEF IInv, Heads, TypeOK
  <2> QED
    BY <2>1, SizesAssumption
<1>4. /\ tail' \in [Procs -> 1..(LOGSIZE + 1)] /\ pc' \in [Procs -> PCs]
      /\ \A q \in Procs : q # p => pc'[q] = pc[q] /\ tail'[q] = tail[q]
      /\ IF t < Len(lh) THEN pc'[p] = "wlog" /\ tail'[p] = t + 1
                        ELSE pc'[p] = "whead" /\ tail'[p] = 1 /\ t = Len(lh)
  <2>1. TypeOK /\ "whead" \in PCs
    BY Zenon DEF IInv, PCs
  <2> HIDE DEF t
  <2> QED
    BY Zenon, <1>1, <1>2, <1>3, <2>1, LoopFacts DEF t
<1>5. \A c : c \in ToInstall <=> \E i \in 1..Len(lh) : lh[i] = c
  BY Zenon, <1>1, AllToInstall
<1>6. Content(lh[t]) = cache[lh[t]] /\ cache[lh[t]] \in Values
  <2>1. Cached(lh[t]) /\ lh[t] \in ToInstall
    BY Zenon, <1>1, <1>3, <1>5 DEF IInv, Contents
  <2>2. cache[lh[t]] # None /\ cache[lh[t]] \in Values \cup {None}
    BY Zenon, <2>1, <1>3 DEF Cached, IInv, TypeOK
  <2> QED
    BY Zenon, <2>2 DEF Content
<1>7. logblk'[t] = cache[lh[t]] /\ \A i \in 1..LOGSIZE : i # t => logblk'[i] = logblk[i]
  BY Zenon, <1>2, <1>3, <1>6 DEF IInv, TypeOK
<1> HIDE DEF t
<1>8. TypeOK'
  <2>1. logblk' \in [1..LOGSIZE -> Values \cup {Torn}]
    BY Zenon, <1>2, <1>3, <1>6 DEF IInv, TypeOK
  <2> QED
    BY Zenon, <2>1, <1>2, <1>4 DEF IInv, TypeOK, mem, booting
<1>9. head = <<>>
  BY Zenon, <1>1 DEF IInv, Heads
<1>10. Booting' /\ Replayable'
  BY <1>1, <1>2, <1>9 DEF IInv, Booting, Replayable, mem, booting
<1>11. pc'[p] \in {"wlog", "whead"}
  BY Zenon, <1>4
<1>12. Commits'
  <2>1. Active' = Active
    BY Zenon, <1>1, <1>4, <1>11 DEF Active
  <2> QED
    BY Zenon, <2>1, <1>1, <1>2, <1>4, <1>11 DEF IInv, Commits, CommitAlone, CommitPCs, mem, booting
<1>13. Heads'
  <2>1. pc'[p] = "wlog" => tail'[p] <= Len(lh)
    BY <1>3, <1>4
  <2>2. pc'[p] = "whead" => tail'[p] = 1
    BY Zenon, <1>4
  <2> QED
    BY ZenonT(60), <2>1, <2>2, <1>1, <1>2, <1>3, <1>4, <1>11 DEF IInv, Heads, Injective, mem, booting
<1>14. Contents'
  <2>1. ToInstall' = ToInstall
    BY Zenon, <1>1, <1>2, <1>4, <1>11, SameToInstall DEF mem
  <2>2. \A c \in Blocks : Cached(c)'
    BY Zenon, <2>1, <1>1, <1>2 DEF IInv, Contents, Cached, mem
  <2>3. ASSUME NEW i \in 1..Len(lh) PROVE Copied(p, i)'
    <3>1. i < t => logblk[i] = cache[lh[i]]
      BY Zenon, <1>1 DEF IInv, Contents, Copied, t
    <3>2. i \in 1..LOGSIZE
      BY SizesAssumption DEF IInv, TypeOK
    <3>3. i < t \/ i = t => logblk'[i] = cache[lh[i]]
      BY Zenon, <3>1, <3>2, <1>3, <1>7
    <3>4. (pc'[p] = "wlog" /\ i < tail'[p]) \/ pc'[p] = "whead" => i < t \/ i = t
      BY <1>3, <1>4
    <3> QED
      BY Zenon, <3>3, <3>4, <1>2, <1>11 DEF Copied, mem
  <2>4. ASSUME NEW q \in Procs, q # p, NEW i \in 1..Len(lh) PROVE Copied(q, i)'
    BY Zenon, <2>4, <1>1, <1>4 DEF Copied
  <2>5. lh' = lh
    BY Zenon, <1>2 DEF mem
  <2> QED
    BY Zenon, <2>2, <2>3, <2>4, <2>5 DEF Contents
<1> QED
  BY Zenon, <1>8, <1>10, <1>12, <1>13, <1>14 DEF IInv

LEMMA WriteHeadKeeps ==
  ASSUME IInv, NEW p \in Procs, write_head(p)
  PROVE  IInv'
<1>1. /\ pc[p] = "whead" /\ boot = "up" /\ committing
      /\ \A q \in Procs : q # p => pc[q] \in {"idle", "asleep", "begin"}
  BY Zenon, Committer DEF write_head, CommitPCs
<1>2. /\ UNCHANGED <<home, logblk, mem, booting, tail, op, written, nops, crashes, panicked>>
      /\ head' = lh /\ pc' = [pc EXCEPT ![p] = "install"]
  BY Zenon DEF write_head
<1>3. pc'[p] = "install" /\ \A q \in Procs : q # p => pc'[q] = pc[q]
  BY Zenon, <1>2 DEF IInv, TypeOK
<1>4. tail[p] = 1 /\ lh # <<>> /\ lh \in Seq(Blocks) /\ Len(lh) \in Nat /\ Len(lh) >= 1
  BY <1>1 DEF IInv, Heads, TypeOK
<1>5. TypeOK'
  <2>1. pc' \in [Procs -> PCs]
    BY Zenon, <1>2 DEF IInv, TypeOK, PCs
  <2> QED
    BY Zenon, <2>1, <1>2 DEF IInv, TypeOK, mem, booting
<1>6. Booting'
  BY Zenon, <1>1, <1>2 DEF Booting, booting
<1>7. Commits'
  <2>1. Active' = Active
    BY Zenon, <1>1, <1>3 DEF Active
  <2> QED
    BY <2>1, <1>1, <1>2, <1>3 DEF IInv, Commits, CommitAlone, CommitPCs, mem, booting
<1>8. Heads'
  BY <1>1, <1>2, <1>3, <1>4 DEF IInv, Heads, Injective, mem, booting
<1>9. \A c : c \in ToInstall <=> \E i \in 1..Len(lh) : lh[i] = c
  BY Zenon, <1>1, AllToInstall
<1>10. \A i \in 1..Len(lh) : logblk[i] = cache[lh[i]] /\ cache[lh[i]] \in Values
  <2>1. ASSUME NEW i \in 1..Len(lh) PROVE logblk[i] = cache[lh[i]] /\ cache[lh[i]] \in Values
    <3>1. lh[i] \in Blocks
      BY <1>4
    <3>2. Copied(p, i) /\ Cached(lh[i]) /\ lh[i] \in ToInstall
      BY Zenon, <3>1, <1>1, <1>9 DEF IInv, Contents
    <3> QED
      BY Zenon, <3>1, <3>2, <1>1 DEF Copied, Cached, IInv, TypeOK
  <2> QED
    BY Zenon, <2>1
<1>11. Replayable'
  BY Zenon, <1>1, <1>2, <1>10 DEF IInv, Replayable
<1>12. Contents'
  <2>1. \A c : c \in ToInstall' <=> c \in ToInstall
    <3>1. \A q \in Procs : pc'[q] # "clear" /\ (pc'[q] = "install" => tail'[q] = 1)
      BY Zenon, <1>1, <1>2, <1>3, <1>4
    <3>2. \A c : c \in ToInstall' <=> \E i \in 1..Len(lh') : lh'[i] = c
      <4>1. lh' = lh
        BY Zenon, <1>2 DEF mem
      <4>2. \A i \in 1..Len(lh) : \A q \in Procs : pc'[q] = "install" => i >= tail'[q]
        BY <3>1, <1>4
      <4> QED
        BY Zenon, <3>1, <4>1, <4>2 DEF ToInstall
    <3> QED
      BY Zenon, <3>2, <1>2, <1>9 DEF mem
  <2>2. \A c \in Blocks : Cached(c)'
    BY Zenon, <2>1, <1>1, <1>2 DEF IInv, Contents, Cached, mem
  <2>3. ASSUME NEW q \in Procs, NEW i \in 1..Len(lh) PROVE Copied(q, i)'
    <3>1. ~(i < tail[p])
      BY <1>4
    <3> QED
      BY Zenon, <3>1, <1>1, <1>2, <1>3, <1>10 DEF Copied, mem
  <2>4. lh' = lh
    BY Zenon, <1>2 DEF mem
  <2> QED
    BY Zenon, <2>2, <2>3, <2>4 DEF Contents
<1> QED
  BY Zenon, <1>5, <1>6, <1>7, <1>8, <1>11, <1>12 DEF IInv

LEMMA InstallKeeps ==
  ASSUME IInv, NEW p \in Procs, install_trans(p)
  PROVE  IInv'
<1> DEFINE t == tail[p]
           b == lh[t]
<1>1. /\ pc[p] = "install" /\ boot = "up" /\ committing
      /\ \A q \in Procs : q # p => pc[q] \in {"idle", "asleep", "begin"}
  BY Zenon, Committer DEF install_trans, CommitPCs
<1>2. /\ UNCHANGED <<logblk, head, lh, outstanding, committing, booting, op, written,
                     nops, crashes, panicked>>
      /\ home' = [home EXCEPT ![b] = logblk[t]] /\ cache' = [cache EXCEPT ![b] = logblk[t]]
      /\ pin' = [pin EXCEPT ![b] = @ - 1]
      /\ Loop(p, "clear")
  BY Zenon DEF install_trans, CopyHome, Unpin
<1>3. /\ t <= Len(lh) /\ t \in 1..Len(lh) /\ t \in 1..LOGSIZE /\ Len(lh) \in Nat
      /\ lh \in Seq(Blocks) /\ b \in Blocks
  <2>1. t <= Len(lh) /\ t \in 1..(LOGSIZE + 1) /\ Len(lh) \in Nat /\ Len(lh) <= LOGSIZE
        /\ lh \in Seq(Blocks)
    BY <1>1 DEF IInv, Heads, TypeOK
  <2> QED
    BY <2>1, SizesAssumption
<1>4. /\ tail' \in [Procs -> 1..(LOGSIZE + 1)] /\ pc' \in [Procs -> PCs]
      /\ \A q \in Procs : q # p => pc'[q] = pc[q] /\ tail'[q] = tail[q]
      /\ IF t < Len(lh) THEN pc'[p] = "install" /\ tail'[p] = t + 1
                        ELSE pc'[p] = "clear" /\ tail'[p] = 1 /\ t = Len(lh)
  <2>1. TypeOK /\ "clear" \in PCs
    BY Zenon DEF IInv, PCs
  <2> HIDE DEF t
  <2> QED
    BY Zenon, <1>1, <1>2, <1>3, <2>1, LoopFacts DEF t
<1>5. head = lh /\ Injective(lh) /\ logblk[t] \in Values
  BY Zenon, <1>1, <1>3 DEF IInv, Heads, Replayable
<1>6. \A i \in 1..Len(lh) : lh[i] \in Blocks /\ (lh[i] = b <=> i = t)
  BY <1>3, <1>5 DEF Injective
<1>7. \A c : c \in ToInstall <=> \E i \in 1..Len(lh) : lh[i] = c /\ i >= t
  BY Zenon, <1>1, InToInstall
<1>8. pc'[p] \in {"install", "clear"}
  BY Zenon, <1>4
<1>9. \A c : c \in ToInstall' <=> c \in ToInstall /\ c # b
  <2>1. \A c : c \in ToInstall' <=>
           /\ \A q \in Procs : pc'[q] # "clear"
           /\ \E i \in 1..Len(lh) : /\ lh[i] = c
                                    /\ \A q \in Procs : pc'[q] = "install" => i >= tail'[q]
    BY Zenon, <1>2 DEF ToInstall
  <2>2. CASE t < Len(lh)
    <3>1. \A i \in 1..Len(lh) : (\A q \in Procs : pc'[q] = "install" => i >= tail'[q]) <=> i >= t /\ i # t
      BY SMTT(60), <2>2, <1>1, <1>3, <1>4
    <3>2. \A q \in Procs : pc'[q] # "clear"
      BY Zenon, <2>2, <1>1, <1>4
    <3> HIDE DEF t, b
    <3> QED
      BY <2>1, <3>1, <3>2, <1>6, <1>7
  <2>3. CASE ~(t < Len(lh))
    <3>1. \A i \in 1..Len(lh) : i >= t => i = t
      BY <2>3, <1>3
    <3>2. pc'[p] = "clear"
      BY Zenon, <2>3, <1>4
    <3> HIDE DEF t, b
    <3> QED
      BY Zenon, <2>1, <3>1, <3>2, <1>6, <1>7
  <2> QED
    BY Zenon, <2>2, <2>3
<1>10. b \in ToInstall /\ pin[b] = 1
  <2>1. b \in ToInstall
    BY SMTT(60), <1>3, <1>7
  <2> QED
    BY Zenon, <2>1, <1>1, <1>3 DEF IInv, Contents, Cached
<1>11. /\ home'[b] = logblk[t] /\ cache'[b] = logblk[t] /\ pin'[b] = 0
       /\ \A c \in Blocks : c # b => home'[c] = home[c] /\ cache'[c] = cache[c] /\ pin'[c] = pin[c]
  BY <1>2, <1>3, <1>10 DEF IInv, TypeOK
<1>12. TypeOK'
  <2>1. pin[b] - 1 \in Nat
    BY <1>10
  <2>2. pin' \in [Blocks -> Nat]
    BY Zenon, <2>1, <1>2, <1>3 DEF IInv, TypeOK
  <2>3. home' \in [Blocks -> Values \cup {Torn}] /\ cache' \in [Blocks -> Values \cup {None}]
    BY Zenon, <1>2, <1>3, <1>5 DEF IInv, TypeOK
  <2> QED
    BY Zenon, <2>2, <2>3, <1>2, <1>4 DEF IInv, TypeOK, booting
<1>13. Booting'
  BY Zenon, <1>1, <1>2 DEF Booting, booting
<1>14. Replayable'
  <2>1. \A c \in Blocks : home'[c] # Torn
    BY <1>1, <1>5, <1>11, MarksAssumption DEF IInv, Replayable
  <2> QED
    BY Zenon, <2>1, <1>2 DEF IInv, Replayable
<1>15. Commits'
  <2>1. Active' = Active
    BY Zenon, <1>1, <1>4, <1>8 DEF Active
  <2> QED
    BY Zenon, <2>1, <1>1, <1>2, <1>4, <1>8 DEF IInv, Commits, CommitAlone, CommitPCs, booting
<1>16. Heads'
  <2>1. pc'[p] = "install" => tail'[p] <= Len(lh)
    BY <1>3, <1>4
  <2> QED
    <3>1. Injective(lh)' /\ Injective(head)'
      BY Zenon, <1>2 DEF IInv, Heads, Injective
    <3>2. head' = IF \E q \in Procs : pc'[q] \in {"install", "clear"} THEN lh' ELSE <<>>
      BY Zenon, <1>2, <1>5, <1>8
    <3>3. \A q \in Procs : q # p => pc'[q] \notin {"wlog", "install", "whead", "done"}
      BY Zenon, <1>1, <1>4
    <3> QED
      BY Zenon, <3>1, <3>2, <3>3, <2>1, <1>2, <1>8 DEF Heads
<1>17. Contents'
  <2>1. ASSUME NEW c \in Blocks PROVE Cached(c)'
    <3>1. Cached(c)
      BY Zenon, <1>1 DEF IInv, Contents
    <3>2. CASE c = b
      BY Zenon, <3>2, <1>9, <1>11 DEF Cached
    <3>3. CASE c # b
      BY Zenon, <3>1, <3>3, <1>9, <1>11 DEF Cached
    <3> QED
      BY Zenon, <3>2, <3>3
  <2>2. ASSUME NEW i \in 1..Len(lh) PROVE Copied(p, i)'
    <3>1. logblk[i] = IF i < t THEN home[lh[i]] ELSE cache[lh[i]]
      BY Zenon, <1>1 DEF IInv, Contents, Copied
    <3>2. CASE i = t
      <4>1. logblk[i] = home'[lh[i]] /\ logblk[i] = cache'[lh[i]]
        BY Zenon, <3>2, <1>11
      <4> QED
        BY Zenon, <4>1, <1>2, <1>8 DEF Copied
    <3>3. CASE i # t
      <4>1. home'[lh[i]] = home[lh[i]] /\ cache'[lh[i]] = cache[lh[i]]
        BY Zenon, <3>3, <1>6, <1>11
      <4>2. pc'[p] = "install" => (i < tail'[p] <=> i < t)
        BY <3>3, <1>3, <1>4
      <4>3. pc'[p] = "clear" => i < t
        BY <3>3, <1>3, <1>4
      <4> QED
        BY Zenon, <3>1, <4>1, <4>2, <4>3, <1>2, <1>8 DEF Copied
    <3> QED
      BY Zenon, <3>2, <3>3
  <2>3. ASSUME NEW q \in Procs, q # p, NEW i \in 1..Len(lh) PROVE Copied(q, i)'
    BY Zenon, <2>3, <1>1, <1>4 DEF Copied
  <2>4. lh' = lh
    BY Zenon, <1>2
  <2> QED
    BY Zenon, <2>1, <2>2, <2>3, <2>4 DEF Contents
<1> QED
  BY Zenon, <1>12, <1>13, <1>14, <1>15, <1>16, <1>17 DEF IInv

LEMMA ClearKeeps ==
  ASSUME IInv, NEW p \in Procs, clear_head(p)
  PROVE  IInv'
<1>1. /\ pc[p] = "clear" /\ boot = "up" /\ committing
      /\ \A q \in Procs : q # p => pc[q] \in {"idle", "asleep", "begin"}
  BY Zenon, Committer DEF clear_head, CommitPCs
<1>2. /\ UNCHANGED <<home, logblk, cache, pin, outstanding, committing, booting, tail, op,
                     written, nops, crashes, panicked>>
      /\ lh' = <<>> /\ head' = <<>> /\ pc' = [pc EXCEPT ![p] = "done"]
  BY Zenon DEF clear_head
<1>3. pc'[p] = "done" /\ \A q \in Procs : q # p => pc'[q] = pc[q]
  BY Zenon, <1>2 DEF IInv, TypeOK
<1>4. Len(<<>>) = 0 /\ <<>> \in Seq(Blocks)
  OBVIOUS
<1>5. TypeOK'
  <2>1. pc' \in [Procs -> PCs]
    BY Zenon, <1>2 DEF IInv, TypeOK, PCs
  <2>2. 0 <= LOGSIZE
    BY SizesAssumption
  <2> QED
    BY Zenon, <2>1, <2>2, <1>2, <1>4 DEF IInv, TypeOK, booting
<1>6. Booting'
  BY Zenon, <1>1, <1>2 DEF Booting, booting
<1>7. Commits'
  <2>1. Active' = Active
    BY Zenon, <1>1, <1>3 DEF Active
  <2> QED
    BY Zenon, <2>1, <1>1, <1>2, <1>3 DEF IInv, Commits, CommitAlone, CommitPCs, booting
<1>8. Heads'
  BY SMTT(60), <1>1, <1>2, <1>3, <1>4 DEF Heads, Injective
<1>9. Replayable'
  BY <1>1, <1>2, <1>4 DEF IInv, Replayable
<1>10. Contents'
  <2>1. \A c : c \notin ToInstall /\ c \notin ToInstall'
    <3>1. \A c : c \notin ToInstall
      BY Zenon, <1>1, InToInstall
    <3>2. \A c : c \notin ToInstall'
      BY <1>2, <1>4 DEF ToInstall
    <3> QED
      BY Zenon, <3>1, <3>2
  <2>2. \A c \in Blocks : Cached(c)'
    BY Zenon, <2>1, <1>1, <1>2 DEF IInv, Contents, Cached
  <2> QED
    BY <2>2, <1>2, <1>4 DEF Contents
<1> QED
  BY Zenon, <1>5, <1>6, <1>7, <1>8, <1>9, <1>10 DEF IInv

LEMMA DoneKeeps ==
  ASSUME IInv, NEW p \in Procs, commit_done(p)
  PROVE  IInv'
<1>1. /\ pc[p] = "done" /\ boot = "up" /\ committing
      /\ \A q \in Procs : q # p => pc[q] \in {"idle", "asleep", "begin"}
  BY Zenon, Committer DEF commit_done, CommitPCs
<1>2. /\ UNCHANGED <<disk, cache, pin, lh, outstanding, booting, tail, op, written,
                     nops, crashes, panicked>>
      /\ committing' = FALSE /\ pc' = [Wake EXCEPT ![p] = "idle"]
  BY Zenon DEF commit_done, WakeAfterCommit
<1>3. \A q \in Procs : pc'[q] \in {"idle", "begin"}
  BY Zenon, <1>1, <1>2 DEF Wake, IInv, TypeOK
<1>4. TypeOK'
  <2>1. pc' \in [Procs -> PCs]
    BY Zenon, <1>2 DEF Wake, IInv, TypeOK, PCs
  <2> QED
    BY Zenon, <2>1, <1>2 DEF IInv, TypeOK, disk, booting
<1>5. Booting' /\ Replayable'
  BY Zenon, <1>1, <1>2 DEF IInv, Booting, Replayable, disk, booting
<1>6. lh = <<>> /\ head = <<>> /\ Len(<<>>) = 0
  BY Zenon, <1>1 DEF IInv, Heads
<1>7. Commits'
  <2>1. Active' = Active
    BY Zenon, <1>1, <1>3 DEF Active
  <2> QED
    BY Zenon, <2>1, <1>2, <1>3, <1>6 DEF IInv, Commits, CommitAlone, CommitPCs
<1>8. Heads'
  BY <1>2, <1>3, <1>6 DEF Heads, Injective, disk
<1>9. Contents'
  <2>1. \A c : c \notin ToInstall /\ c \notin ToInstall'
    BY <1>2, <1>6 DEF ToInstall
  <2>2. \A c \in Blocks : Cached(c)'
    BY Zenon, <2>1, <1>1, <1>2 DEF IInv, Contents, Cached, disk
  <2> QED
    BY SMTT(60), <2>2, <1>2, <1>6 DEF Contents
<1> QED
  BY Zenon, <1>4, <1>5, <1>7, <1>8, <1>9 DEF IInv

-----------------------------------------------------------------------------

\* The inductive invariant: the log in memory, the one on disk, the cache and
\* the pins agree as far as commit() or recover_from_log() has come.
THEOREM Invariance == Spec => []IInv
<1>1. ASSUME IInv, [Next]_vars PROVE IInv'
  <2>1. ASSUME NEW p \in Procs, Step(p) PROVE IInv'
    BY Zenon, <1>1, <2>1, BeginKeeps, EndKeeps, WriteKeeps, WriteLogKeeps, WriteHeadKeeps,
       InstallKeeps, ClearKeeps, DoneKeeps DEF Step
  <2> QED
    BY Zenon, <1>1, <2>1, ReadKeeps, RecoverKeeps, CrashKeeps, StutterKeeps DEF Next
<1> QED
  BY <1>1, InitInv, PTL DEF Spec

\* struct log stays consistent, for any number of processes and blocks, through
\* any number of crashes: a commit runs alone, and exactly what it has still to
\* install is pinned.
THEOREM CommitIsSafe == Spec => []CommitSafe
<1>1. IInv => CommitSafe
  BY Zenon DEF IInv, CommitSafe, Commits, Contents, Cached, PinnedExact
<1> QED
  BY <1>1, Invariance, PTL

-----------------------------------------------------------------------------
(* Log implements AtomicDisk.                                              *)

\* The file system's view of the disk, the second part of the refinement mapping.
Memory == IF boot = "up" THEN [b \in Blocks |-> Content(b)] ELSE Recovered

\* What recovery will make of a block: what the log has for it, if the header
\* lists it.
LEMMA RecoveredAt ==
  ASSUME Injective(head), NEW b \in Blocks
  PROVE  /\ \A i \in 1..Len(head) : head[i] = b => Recovered[b] = logblk[i]
         /\ (\A i \in 1..Len(head) : head[i] # b) => Recovered[b] = home[b]
<1> DEFINE at == {i \in 1..Len(head) : head[i] = b}
<1>1. Recovered[b] = IF at = {} THEN home[b] ELSE logblk[CHOOSE i \in at : TRUE]
  BY Zenon DEF Recovered
<1>2. ASSUME NEW i \in 1..Len(head), head[i] = b
      PROVE  Recovered[b] = logblk[i]
  <2>1. i \in at /\ \A j \in at : j = i
    BY Zenon, <1>2 DEF Injective
  <2>2. (CHOOSE j \in at : TRUE) \in at
    BY Zenon, <2>1
  <2> HIDE DEF at
  <2> QED
    BY Zenon, <1>1, <2>1, <2>2
<1>3. ASSUME \A i \in 1..Len(head) : head[i] # b
      PROVE  Recovered[b] = home[b]
  BY Zenon, <1>1, <1>3
<1> QED
  BY Zenon, <1>2, <1>3

LEMMA RecoveredAtNext ==
  ASSUME Injective(head)', NEW b \in Blocks
  PROVE  /\ \A i \in 1..Len(head') : head'[i] = b => Recovered'[b] = logblk'[i]
         /\ (\A i \in 1..Len(head') : head'[i] # b) => Recovered'[b] = home'[b]
<1>1. (Injective(head) =>
         /\ \A i \in 1..Len(head) : head[i] = b => Recovered[b] = logblk[i]
         /\ (\A i \in 1..Len(head) : head[i] # b) => Recovered[b] = home[b])'
  BY RecoveredAt, PTL
<1> QED
  BY Zenon, <1>1

LEMMA RecoveredFun == Recovered = [b \in Blocks |-> Recovered[b]]
  BY DEF Recovered

LEMMA SameRecovered ==
  ASSUME \A b \in Blocks : Recovered'[b] = Recovered[b]
  PROVE  Recovered' = Recovered
<1>1. Recovered = [b \in Blocks |-> Recovered[b]]
  BY Zenon, RecoveredFun
<1>2. Recovered' = [b \in Blocks |-> Recovered'[b]]
  BY DEF Recovered
<1> QED
  BY Zenon, <1>1, <1>2

\* As long as the header lists the same blocks with the same content, a home
\* block that it lists may have any content.
LEMMA RecoveredKept ==
  ASSUME IInv, IInv', head' = head,
         \A i \in 1..Len(head) : logblk'[i] = logblk[i],
         \A b \in Blocks : home'[b] = home[b] \/ \E i \in 1..Len(head) : head[i] = b
  PROVE  Recovered' = Recovered
<1>1. Injective(head) /\ Injective(head')
  BY Zenon DEF IInv, Heads
<1>2. ASSUME NEW b \in Blocks PROVE Recovered'[b] = Recovered[b]
  <2>1. CASE \E i \in 1..Len(head) : head[i] = b
    <3>1. PICK i \in 1..Len(head) : head[i] = b
      BY Zenon, <2>1
    <3>2. Recovered[b] = logblk[i]
      BY Zenon, <3>1, <1>1, RecoveredAt
    <3>3. Recovered'[b] = logblk'[i]
      BY Zenon, <3>1, <1>1, RecoveredAtNext DEF Injective
    <3> QED
      BY Zenon, <3>2, <3>3
  <2>2. CASE \A i \in 1..Len(head) : head[i] # b
    <3>1. Recovered[b] = home[b]
      BY Zenon, <2>2, <1>1, RecoveredAt
    <3>2. Recovered'[b] = home'[b]
      BY Zenon, <2>2, <1>1, RecoveredAtNext DEF Injective
    <3> QED
      BY Zenon, <2>2, <3>1, <3>2
  <2> QED
    BY Zenon, <2>1, <2>2
<1> QED
  BY Zenon, <1>2, SameRecovered

\* Clearing the header, when everything is installed.
LEMMA RecoveredCleared ==
  ASSUME IInv, IInv', head' = <<>>, home' = home,
         \A i \in 1..Len(head) : home[head[i]] = logblk[i]
  PROVE  Recovered' = Recovered
<1>1. Injective(head) /\ Injective(head') /\ Len(<<>>) = 0
  BY Zenon DEF IInv, Heads
<1>2. ASSUME NEW b \in Blocks PROVE Recovered'[b] = Recovered[b]
  <2>1. Recovered'[b] = home[b]
    BY <1>1, RecoveredAtNext DEF Injective
  <2>2. Recovered[b] = home[b]
    BY Zenon, <1>1, RecoveredAt
  <2> QED
    BY Zenon, <2>1, <2>2
<1> QED
  BY Zenon, <1>2, SameRecovered

\* What the file system reads, once recovery is over.
LEMMA MemoryKept ==
  ASSUME boot = "up", boot' = "up", \A b \in Blocks : Content(b)' = Content(b)
  PROVE  Memory' = Memory
  BY Zenon DEF Memory

\* A step that neither the disk after recovery, nor memory, nor the set of
\* operations in progress shows.
Hidden == Recovered' = Recovered /\ Memory' = Memory /\ Active' = Active

LEMMA ReadRefines ==
  ASSUME IInv, IInv', NEW b \in Blocks, bread(b) \/ Recycle(b)
  PROVE  Hidden
<1>1. boot = "up" /\ UNCHANGED <<home, logblk, head, boot, pc>>
  BY Zenon DEF bread, Recycle, Up, disk, booting, local
<1>2. Recovered' = Recovered
  BY Zenon, <1>1, RecoveredKept
<1>3. Content(b)' = Content(b)
  <2>1. home[b] # None
    <3>1. home[b] \in Values \cup {Torn} /\ home[b] # Torn
      BY Zenon, <1>1 DEF IInv, TypeOK, Replayable
    <3> QED
      BY Zenon, <3>1, MarksAssumption
  <2>2. CASE bread(b)
    <3>1. cache[b] = None /\ cache'[b] = home[b]
      BY Zenon, <2>2 DEF bread, IInv, TypeOK
    <3> QED
      BY Zenon, <1>1, <2>1, <3>1 DEF Content
  <2>3. CASE Recycle(b)
    <3>1. cache[b] # None /\ cache'[b] = None /\ pin[b] = 0
      BY Zenon, <2>3 DEF Recycle, IInv, TypeOK
    <3>2. cache[b] = home[b]
      BY <1>1, <3>1 DEF IInv, Contents, Cached
    <3> QED
      BY Zenon, <1>1, <3>1, <3>2 DEF Content
  <2> QED
    BY Zenon, <2>2, <2>3
<1>4. \A c \in Blocks : c # b => Content(c)' = Content(c)
  <2>1. \A c \in Blocks : c # b => cache'[c] = cache[c]
    BY Zenon DEF bread, Recycle, IInv, TypeOK
  <2> QED
    BY Zenon, <1>1, <2>1 DEF Content
<1>5. Memory' = Memory
  BY Zenon, <1>1, <1>3, <1>4, MemoryKept
<1> QED
  BY Zenon, <1>1, <1>2, <1>5 DEF Hidden, Active

\* Steps that leave the disk and the cache alone.
LEMMA MemoryUnchanged ==
  ASSUME IInv, IInv', UNCHANGED <<home, logblk, head, boot, cache>>
  PROVE  Recovered' = Recovered /\ Memory' = Memory
<1>1. Recovered' = Recovered
  BY Zenon, RecoveredKept
<1> QED
  BY Zenon, <1>1 DEF Memory, Content

LEMMA BeginRefines ==
  ASSUME IInv, IInv', NEW p \in Procs, begin_op(p)
  PROVE  /\ Recovered' = Recovered /\ Memory' = Memory
         /\ Active' = Active \/ (p \notin Active /\ Active' = Active \cup {p})
<1>1. UNCHANGED <<home, logblk, head, boot, cache>>
  BY Zenon DEF begin_op, disk, booting
<1>2. Active' = Active \/ (p \notin Active /\ Active' = Active \cup {p})
  <2>1. /\ pc[p] # "op" /\ pc'[p] \in {"asleep", "op"}
        /\ \A q \in Procs : q # p => pc'[q] = pc[q]
    BY Zenon DEF begin_op, IInv, TypeOK
  <2> QED
    BY Zenon, <2>1 DEF Active
<1> QED
  BY Zenon, <1>1, <1>2, MemoryUnchanged

LEMMA EndRefines ==
  ASSUME IInv, IInv', NEW p \in Procs, end_op(p)
  PROVE  Recovered' = Recovered /\ Memory' = Memory /\ p \in Active /\ Active' = Active \ {p}
<1>1. UNCHANGED <<home, logblk, head, boot, cache>>
  BY Zenon DEF end_op, disk, booting
<1>2. pc[p] = "op" /\ pc'[p] # "op" /\ \A q \in Procs : q # p => (pc'[q] = "op" <=> pc[q] = "op")
  BY Zenon DEF end_op, Wake, IInv, TypeOK
<1> QED
  BY Zenon, <1>1, <1>2, MemoryUnchanged DEF Active

LEMMA WriteRefines ==
  ASSUME IInv, IInv', NEW p \in Procs, NEW b \in Blocks, log_write(p, b)
  PROVE  \/ Hidden
         \/ /\ p \in Active /\ op[p] \in Values /\ Memory' = [Memory EXCEPT ![b] = op[p]]
            /\ Recovered' = Recovered /\ Active' = Active
<1>1. /\ boot = "up" /\ UNCHANGED <<home, logblk, head, boot, pc>>
      /\ pc[p] = "op" /\ op[p] \in Values
      /\ cache' = cache \/ cache' = [cache EXCEPT ![b] = op[p]]
  BY Zenon DEF log_write, Up, disk, booting, IInv, TypeOK
<1>2. Recovered' = Recovered /\ Active' = Active /\ p \in Active
  BY Zenon, <1>1, RecoveredKept DEF Active
<1>3. CASE cache' = cache
  BY Zenon, <1>1, <1>2, <1>3, MemoryUnchanged DEF Hidden
<1>4. CASE cache' = [cache EXCEPT ![b] = op[p]]
  <2>1. Content(b)' = op[p] /\ \A c \in Blocks : c # b => Content(c)' = Content(c)
    <3>1. cache'[b] = op[p] /\ \A c \in Blocks : c # b => cache'[c] = cache[c]
      BY Zenon, <1>4 DEF IInv, TypeOK
    <3>2. op[p] # None
      BY Zenon, <1>1, MarksAssumption
    <3> QED
      BY Zenon, <1>1, <3>1, <3>2 DEF Content
  <2>2. Memory' = [Memory EXCEPT ![b] = op[p]]
    <3>1. Memory = [c \in Blocks |-> Content(c)] /\ Memory' = [c \in Blocks |-> Content(c)']
      BY Zenon, <1>1 DEF Memory
    <3> QED
      BY Zenon, <2>1, <3>1
  <2> QED
    BY Zenon, <1>1, <1>2, <2>2
<1> QED
  BY Zenon, <1>1, <1>3, <1>4

LEMMA WriteLogRefines ==
  ASSUME IInv, IInv', NEW p \in Procs, write_log(p)
  PROVE  Hidden
<1>1. /\ pc[p] = "wlog" /\ boot = "up"
      /\ \A q \in Procs : q # p => pc[q] \in {"idle", "asleep", "begin"}
  BY Zenon, Committer DEF write_log, CommitPCs
<1>2. head = <<>> /\ Len(<<>>) = 0
  BY Zenon, <1>1 DEF IInv, Heads
<1>3. UNCHANGED <<home, head, cache, boot>>
  BY Zenon DEF write_log, mem, booting
<1>4. Recovered' = Recovered
  BY <1>2, <1>3, RecoveredKept
<1>5. Memory' = Memory
  BY Zenon, <1>3, <1>4 DEF Memory, Content
<1>6. Active' = Active
  <2>1. \A q \in Procs : q # p => pc'[q] = pc[q]
    BY Zenon DEF write_log, Loop, IInv, TypeOK
  <2>2. pc'[p] # "op"
    BY Zenon, <1>1 DEF write_log, Loop, AfterWriteLog, IInv, TypeOK
  <2> QED
    BY Zenon, <1>1, <2>1, <2>2 DEF Active
<1> QED
  BY Zenon, <1>4, <1>5, <1>6 DEF Hidden

\* Writing the header is the commit.
LEMMA WriteHeadRefines ==
  ASSUME IInv, IInv', NEW p \in Procs, write_head(p)
  PROVE  Active = {} /\ Recovered' = Memory /\ Memory' = Memory /\ Active' = {}
<1>1. /\ pc[p] = "whead" /\ boot = "up"
      /\ \A q \in Procs : q # p => pc[q] \in {"idle", "asleep", "begin"}
  BY Zenon, Committer DEF write_head, CommitPCs
<1>2. UNCHANGED <<home, logblk, cache, boot, lh>> /\ head' = lh /\ pc' = [pc EXCEPT ![p] = "install"]
  BY Zenon DEF write_head, mem, booting
<1>3. \A c : c \in ToInstall <=> \E i \in 1..Len(lh) : lh[i] = c
  BY Zenon, <1>1, AllToInstall
<1>4. Injective(head)'
  BY Zenon DEF IInv, Heads
<1>5. ASSUME NEW b \in Blocks PROVE Recovered'[b] = Content(b)
  <2>1. Cached(b)
    BY Zenon, <1>1 DEF IInv, Contents
  <2>2. CASE b \in ToInstall
    <3>1. PICK i \in 1..Len(lh) : lh[i] = b
      BY Zenon, <1>3, <2>2
    <3>2. logblk[i] = cache[b]
      BY Zenon, <3>1, <1>1 DEF IInv, Contents, Copied
    <3>3. Recovered'[b] = logblk'[i]
      BY Zenon, <3>1, <1>2, <1>4, RecoveredAtNext
    <3> QED
      BY Zenon, <3>2, <3>3, <2>1, <2>2, <1>2 DEF Cached, Content
  <2>3. CASE b \notin ToInstall
    <3>1. Recovered'[b] = home'[b]
      BY Zenon, <2>3, <1>2, <1>3, <1>4, RecoveredAtNext
    <3> QED
      BY Zenon, <3>1, <2>1, <2>3, <1>2 DEF Cached, Content
  <2> QED
    BY Zenon, <2>2, <2>3
<1>6. Recovered' = Memory
  <2>1. Recovered' = [b \in Blocks |-> Recovered'[b]]
    BY DEF Recovered
  <2>2. Memory = [b \in Blocks |-> Content(b)]
    BY Zenon, <1>1 DEF Memory
  <2> QED
    BY Zenon, <2>1, <2>2, <1>5
<1>7. Memory' = Memory
  BY Zenon, <1>1, <1>2, MemoryKept DEF Content
<1>8. Active = {} /\ Active' = {}
  BY Zenon, <1>1, <1>2 DEF Active, IInv, TypeOK
<1> QED
  BY Zenon, <1>6, <1>7, <1>8

LEMMA InstallRefines ==
  ASSUME IInv, IInv', NEW p \in Procs, install_trans(p)
  PROVE  Hidden
<1> DEFINE t == tail[p]
           b == lh[t]
<1>1. /\ pc[p] = "install" /\ boot = "up"
      /\ \A q \in Procs : q # p => pc[q] \in {"idle", "asleep", "begin"}
  BY Zenon, Committer DEF install_trans, CommitPCs
<1>2. /\ UNCHANGED <<logblk, head, lh, boot>>
      /\ home' = [home EXCEPT ![b] = logblk[t]] /\ cache' = [cache EXCEPT ![b] = logblk[t]]
      /\ Loop(p, "clear")
  BY Zenon DEF install_trans, CopyHome, booting
<1>3. t \in 1..Len(lh) /\ head = lh /\ b \in Blocks
  <2>1. t <= Len(lh) /\ head = lh
    BY Zenon, <1>1 DEF IInv, Heads
  <2>2. t \in Nat /\ t >= 1 /\ Len(lh) \in Nat /\ lh \in Seq(Blocks)
    BY SMTT(60), SizesAssumption DEF IInv, TypeOK
  <2> QED
    BY <2>1, <2>2
<1>4. /\ home'[b] = logblk[t] /\ cache'[b] = logblk[t]
      /\ \A c \in Blocks : c # b => home'[c] = home[c] /\ cache'[c] = cache[c]
  BY Zenon, <1>2, <1>3 DEF IInv, TypeOK
<1>5. logblk[t] = cache[b] /\ cache[b] # None
  <2>1. logblk[t] = cache[b]
    <3>1. ~(t < t)
      BY <1>3
    <3>2. Copied(p, t)
      BY Zenon, <1>3 DEF IInv, Contents
    <3> QED
      BY Zenon, <1>1, <3>1, <3>2 DEF Copied
  <2>2. logblk[t] \in Values
    BY Zenon, <1>3 DEF IInv, Replayable
  <2> QED
    BY Zenon, <2>1, <2>2, MarksAssumption
<1>6. Recovered' = Recovered
  <2>1. \A c \in Blocks : home'[c] = home[c] \/ \E i \in 1..Len(head) : head[i] = c
    BY Zenon, <1>3, <1>4
  <2> HIDE DEF b, t
  <2> QED
    BY Zenon, <2>1, <1>2, RecoveredKept
<1> HIDE DEF b, t
<1>7. Memory' = Memory
  <2>1. \A c \in Blocks : Content(c)' = Content(c)
    BY Zenon, <1>4, <1>5 DEF Content
  <2> QED
    BY Zenon, <2>1, <1>1, <1>2, MemoryKept
<1>8. Active' = Active
  <2>1. (\A q \in Procs : q # p => pc'[q] = pc[q]) /\ pc'[p] # "op"
    BY SMTT(60), <1>1, <1>2 DEF Loop, IInv, TypeOK
  <2> QED
    BY Zenon, <1>1, <2>1 DEF Active
<1> QED
  BY Zenon, <1>6, <1>7, <1>8 DEF Hidden

LEMMA ClearRefines ==
  ASSUME IInv, IInv', NEW p \in Procs, clear_head(p)
  PROVE  Hidden
<1>1. pc[p] = "clear" /\ boot = "up"
  BY Zenon, Committer DEF clear_head, CommitPCs
<1>2. UNCHANGED <<home, cache, boot>> /\ head' = <<>> /\ pc' = [pc EXCEPT ![p] = "done"]
  BY Zenon DEF clear_head, booting
<1>3. head = lh /\ \A i \in 1..Len(lh) : home[lh[i]] = logblk[i]
  BY Zenon, <1>1 DEF IInv, Heads, Contents, Copied
<1>4. Recovered' = Recovered
  BY Zenon, <1>2, <1>3, RecoveredCleared
<1>5. Memory' = Memory
  BY Zenon, <1>1, <1>2, MemoryKept DEF Content
<1>6. Active' = Active
  BY Zenon, <1>1, <1>2 DEF Active, IInv, TypeOK
<1> QED
  BY Zenon, <1>4, <1>5, <1>6 DEF Hidden

LEMMA DoneRefines ==
  ASSUME IInv, IInv', NEW p \in Procs, commit_done(p)
  PROVE  Hidden
<1>1. UNCHANGED <<home, logblk, head, boot, cache>>
  BY Zenon DEF commit_done, disk, booting
<1>2. Active' = Active
  <2>1. pc[p] = "done" /\ pc'[p] = "idle"
        /\ \A q \in Procs : q # p => (pc'[q] = "op" <=> pc[q] = "op")
    BY Zenon DEF commit_done, WakeAfterCommit, Wake, IInv, TypeOK
  <2> QED
    BY Zenon, <2>1 DEF Active
<1> QED
  BY Zenon, <1>1, <1>2, MemoryUnchanged DEF Hidden

LEMMA RecoverRefines ==
  ASSUME IInv, IInv', Recover
  PROVE  Hidden
<1>1. boot # "up" /\ pc' = pc
  BY Zenon DEF Recover, read_head, recover_install, recover_clear, local
<1>2. Active' = Active
  BY Zenon, <1>1 DEF Active
<1>3. CASE read_head
  <2>1. UNCHANGED <<home, logblk, head>> /\ boot' # "up"
    BY Zenon, <1>3 DEF read_head, disk
  <2>2. Recovered' = Recovered
    BY Zenon, <2>1, RecoveredKept
  <2> QED
    BY Zenon, <1>1, <1>2, <2>1, <2>2 DEF Hidden, Memory
<1>4. CASE recover_install
  <2>1. /\ lh = head /\ btail <= Len(lh) /\ UNCHANGED <<head, logblk>> /\ boot' # "up"
        /\ home' = [home EXCEPT ![lh[btail]] = logblk[btail]]
    BY Zenon, <1>4 DEF recover_install, CopyHome, IInv, Booting
  <2>2. btail \in 1..Len(head)
    BY <2>1, SizesAssumption DEF IInv, TypeOK
  <2>3. \A c \in Blocks : home'[c] = home[c] \/ \E i \in 1..Len(head) : head[i] = c
    BY Zenon, <2>1, <2>2 DEF IInv, TypeOK
  <2>4. Recovered' = Recovered
    BY Zenon, <2>1, <2>3, RecoveredKept
  <2> QED
    BY Zenon, <1>1, <1>2, <2>1, <2>4 DEF Hidden, Memory
<1>5. CASE recover_clear
  <2>1. /\ UNCHANGED <<home, cache>> /\ head' = <<>> /\ boot' = "up"
        /\ \A i \in 1..Len(head) : home[head[i]] = logblk[i]
        /\ \A c \in Blocks : cache[c] \in {None, home[c]}
    BY Zenon, <1>5 DEF recover_clear, IInv, Booting
  <2>2. Recovered' = Recovered
    BY Zenon, <2>1, RecoveredCleared
  <2>3. ASSUME NEW c \in Blocks PROVE Content(c)' = Recovered'[c]
    <3>1. Injective(head)' /\ Len(<<>>) = 0
      BY Zenon DEF IInv, Heads
    <3>2. Recovered'[c] = home'[c]
      BY <2>1, <3>1, RecoveredAtNext
    <3> QED
      BY Zenon, <2>1, <3>2 DEF Content
  <2>4. Memory' = [c \in Blocks |-> Content(c)'] /\ Recovered' = [c \in Blocks |-> Recovered'[c]]
    BY <2>1 DEF Memory, Recovered
  <2>5. Memory' = Recovered'
    BY Zenon, <2>3, <2>4
  <2> QED
    BY Zenon, <1>1, <1>2, <2>2, <2>5 DEF Hidden, Memory
<1> QED
  BY Zenon, <1>3, <1>4, <1>5 DEF Recover

LEMMA CrashRefines ==
  ASSUME IInv, IInv', Crash
  PROVE  Recovered' = Recovered /\ Memory' = Recovered /\ Active' = {}
<1>1. head' = head /\ boot' = "head" /\ pc' = AllIdle
  BY Zenon DEF Crash
<1>2. Recovered' = Recovered
  BY Zenon, <1>1, CrashTears, RecoveredKept
<1> QED
  BY Zenon, <1>1, <1>2 DEF Memory, Active, AllIdle

\* Crash atomicity: log.c implements AtomicDisk, for any number of processes,
\* blocks, operations and crashes, with torn writes. The first write_head() of
\* commit() is the commit; a crash, wherever it comes, loses exactly what was
\* written since.
THEOREM LogIsAtomic == Spec => AtomicCommit
<1>1. Init => Abstract!Init
  <2> SUFFICES ASSUME Init PROVE Abstract!Init
    BY Zenon
  <2>1. IInv /\ Len(<<>>) = 0 /\ head = <<>> /\ boot # "up" /\ home = [b \in Blocks |-> 0]
    BY Zenon, InitInv DEF Init
  <2>2. \A b \in Blocks : Recovered[b] = 0
    BY <2>1, RecoveredAt DEF IInv, Heads
  <2>3. 0 \in Values
    BY BoundsAssumption DEF Values
  <2>4. Recovered \in [Blocks -> Values]
    BY Zenon, <2>2, <2>3, RecoveredFun
  <2>5. Active = {}
    BY Zenon DEF Init, Active, AllIdle
  <2> QED
    BY Zenon, <2>1, <2>4, <2>5 DEF Abstract!Init, Active
<1>2. IInv /\ IInv' /\ [Next]_vars => [Abstract!Next]_(Abstract!vars)
  <2> SUFFICES ASSUME IInv, IInv', [Next]_vars PROVE [Abstract!Next]_(Abstract!vars)
    BY Zenon
  <2>1. Hidden => UNCHANGED Abstract!vars
    BY Zenon DEF Hidden, Abstract!vars, Memory, Active
  <2>2. ASSUME NEW p \in Procs, begin_op(p) PROVE [Abstract!Next]_(Abstract!vars)
    <3>1. Hidden \/ Abstract!Begin(p)
      BY Zenon, <2>2, BeginRefines DEF Hidden, Abstract!Begin, Memory, Active
    <3> QED
      BY Zenon, <2>1, <3>1 DEF Abstract!Next
  <2>3. ASSUME NEW p \in Procs, end_op(p) PROVE [Abstract!Next]_(Abstract!vars)
    <3>1. Abstract!End(p)
      BY Zenon, <2>3, EndRefines DEF Abstract!End, Memory, Active
    <3> QED
      BY Zenon, <3>1 DEF Abstract!Next
  <2>4. ASSUME NEW p \in Procs, NEW b \in Blocks, log_write(p, b) PROVE [Abstract!Next]_(Abstract!vars)
    <3>1. Hidden \/ (op[p] \in Values /\ Abstract!Write(p, b, op[p]))
      BY Zenon, <2>4, WriteRefines DEF Abstract!Write, Memory, Active
    <3> QED
      BY Zenon, <2>1, <3>1 DEF Abstract!Next
  <2>5. ASSUME NEW p \in Procs, write_head(p) PROVE [Abstract!Next]_(Abstract!vars)
    <3>1. Abstract!Commit
      BY Zenon, <2>5, WriteHeadRefines DEF Abstract!Commit, Memory, Active
    <3> QED
      BY Zenon, <3>1 DEF Abstract!Next
  <2>6. CASE Crash
    <3>1. Abstract!Crash
      BY Zenon, <2>6, CrashRefines DEF Abstract!Crash, Memory, Active
    <3> QED
      BY Zenon, <3>1 DEF Abstract!Next
  <2>7. ASSUME NEW p \in Procs, Step(p) PROVE [Abstract!Next]_(Abstract!vars)
    BY Zenon, <2>1, <2>2, <2>3, <2>4, <2>5, <2>7, WriteLogRefines, InstallRefines, ClearRefines,
       DoneRefines DEF Step
  <2>8. CASE UNCHANGED vars
    <3>1. UNCHANGED <<home, logblk, head, boot, cache>> /\ Active' = Active
      BY Zenon, <2>8 DEF vars, Active
    <3> QED
      BY Zenon, <2>1, <3>1, MemoryUnchanged DEF Hidden
  <2> QED
    BY Zenon, <2>1, <2>6, <2>7, <2>8, ReadRefines, RecoverRefines DEF Next
<1> QED
  BY <1>1, <1>2, Invariance, PTL DEF Spec, AtomicCommit, Abstract!Spec

-----------------------------------------------------------------------------
(* The reservation of begin_op().                                          *)

\* What the operations in progress may still add to the log.
Room == {r \in Procs \X (1..OPBLOCKS) : pc[r[1]] = "op" /\ Cardinality(written[r[1]]) < r[2]}

Reserved == /\ \A p \in Procs : IsFiniteSet(written[p])
            /\ \A p \in Procs : pc[p] = "op" =>
                 \A b \in written[p] : \E i \in 1..Len(lh) : lh[i] = b
            /\ boot = "up" => Len(lh) + Cardinality(Room) <= LOGSIZE - 2
            /\ ~panicked

\* Operations write fewer blocks than begin_op() reserves for them. The log has
\* LOGSIZE blocks, as mkfs makes it, of which the header takes one.
Modest == OPBLOCKS < MAXOPBLOCKS /\ OPBLOCKS + 2 <= LOGSIZE /\ LOGSIZE <= SIZE

LEMMA RoomFinite ==
  /\ IsFiniteSet(Room) /\ Cardinality(Room) \in Nat
  /\ Cardinality(Room) <= Cardinality(Active) * OPBLOCKS
<1>1. IsFiniteSet(1..OPBLOCKS) /\ Cardinality(1..OPBLOCKS) = OPBLOCKS
  BY FS_Interval, SizesAssumption
<1>2. /\ IsFiniteSet(Active \X (1..OPBLOCKS))
      /\ Cardinality(Active \X (1..OPBLOCKS)) = Cardinality(Active) * OPBLOCKS
  BY Zenon, <1>1, ActiveFinite, FS_Product
<1>3. Room \in SUBSET (Active \X (1..OPBLOCKS))
  BY Zenon DEF Room, Active
<1> QED
  BY Zenon, <1>2, <1>3, FS_Subset, FS_CardinalityType

LEMMA RoomFiniteNext ==
  /\ IsFiniteSet(Room') /\ Cardinality(Room') \in Nat
  /\ Cardinality(Room') <= Cardinality(Active') * OPBLOCKS
<1>1. (/\ IsFiniteSet(Room) /\ Cardinality(Room) \in Nat
       /\ Cardinality(Room) <= Cardinality(Active) * OPBLOCKS)'
  BY RoomFinite, PTL
<1> QED
  BY Zenon, <1>1

\* The operations lose what they have no room for.
LEMMA RoomShrinks ==
  ASSUME Room' \in SUBSET Room
  PROVE  Cardinality(Room') <= Cardinality(Room)
  BY Zenon, RoomFinite, FS_Subset

\* The arithmetic of begin_op().
LEMMA Reservation ==
  ASSUME NEW m \in Nat, NEW k \in Nat, NEW n \in Nat, NEW len \in Nat, NEW size \in Nat,
         k < m, n >= 1, len + (n + 1) * m <= size
  PROVE  len + (n + 1) * k <= size - 2
<1>1. (n + 1) * m = (n + 1) * k + (n + 1) * (m - k)
  OBVIOUS
<1>2. (n + 1) * (m - k) >= (n + 1)
  <2>1. (n + 1) * (m - k) = (n + 1) + (n + 1) * (m - k - 1)
    OBVIOUS
  <2>2. (n + 1) * (m - k - 1) >= 0
    OBVIOUS
  <2> QED
    BY <2>1, <2>2
<1> QED
  BY <1>1, <1>2

LEMMA BeginFits ==
  ASSUME Modest, IInv, IInv', Reserved, NEW p \in Procs, begin_op(p)
  PROVE  Reserved'
<1>1. UNCHANGED <<lh, panicked>>
  BY Zenon DEF begin_op
<1>2. \A q \in Procs : IsFiniteSet(written'[q])
  BY ZenonT(60), FS_EmptySet DEF begin_op, Reserved, IInv, TypeOK
<1>3. CASE MustWait
  <2>1. /\ written' = written /\ pc[p] # "op" /\ pc'[p] # "op"
        /\ \A q \in Procs : q # p => pc'[q] = pc[q]
    BY Zenon, <1>3 DEF begin_op, IInv, TypeOK
  <2>2. Room' = Room
    BY Zenon, <2>1 DEF Room
  <2> QED
    BY <1>1, <1>2, <2>1, <2>2 DEF Reserved, begin_op, booting
<1>4. CASE ~MustWait
  <2>1. outstanding' = outstanding + 1 /\ ~committing /\ boot = "up"
    BY Zenon, <1>4 DEF begin_op, MustWait, Up
  <2>2. Cardinality(Active') = outstanding + 1
    BY Zenon, <2>1 DEF IInv, Commits
  <2>3. /\ outstanding \in Nat /\ Len(lh) \in Nat /\ LOGSIZE \in Nat /\ OPBLOCKS \in Nat
        /\ MAXOPBLOCKS \in Nat
    BY SizesAssumption DEF IInv, TypeOK
  <2>4. Len(lh) + (outstanding + 1) * OPBLOCKS <= LOGSIZE - 2
    <3>1. CASE outstanding = 0
      <4>1. lh = <<>> /\ Len(<<>>) = 0
        BY Zenon, <3>1, <2>1 DEF IInv, Commits
      <4> QED
        BY <3>1, <4>1, <2>3 DEF Modest
    <3>2. CASE outstanding # 0
      <4>1. outstanding >= 1
        BY <3>2, <2>3
      <4>2. Len(lh) + (outstanding + 1) * MAXOPBLOCKS <= LOGSIZE
        <5>1. ~(Len(lh) + (outstanding + 1) * MAXOPBLOCKS > LOGSIZE)
          BY Zenon, <1>4 DEF MustWait
        <5>2. (outstanding + 1) * MAXOPBLOCKS \in Nat
          BY <2>3
        <5> QED
          BY <5>1, <5>2, <2>3
      <4> QED
        BY Zenon, <4>1, <4>2, <2>3, Reservation DEF Modest
    <3> QED
      BY Zenon, <3>1, <3>2
  <2>5. Cardinality(Room') <= (outstanding + 1) * OPBLOCKS /\ Cardinality(Room') \in Nat
    BY Zenon, <2>2, RoomFiniteNext
  <2>6. (outstanding + 1) * OPBLOCKS \in Nat
    BY <2>3
  <2>7. Len(lh) + Cardinality(Room') <= LOGSIZE - 2
    BY <2>3, <2>4, <2>5, <2>6
  <2>8. \A q \in Procs : pc'[q] = "op" => written'[q] = {} \/ (pc[q] = "op" /\ written'[q] = written[q])
    BY Zenon, <1>4 DEF begin_op, IInv, TypeOK
  <2> QED
    BY Zenon, <1>1, <1>2, <2>7, <2>8 DEF Reserved
<1> QED
  BY Zenon, <1>3, <1>4

LEMMA WriteFits ==
  ASSUME Modest, IInv, IInv', Reserved, NEW p \in Procs, NEW b \in Blocks, log_write(p, b)
  PROVE  Reserved'
<1>1. pc[p] = "op" /\ p \in Active /\ boot = "up" /\ boot' = "up"
  BY Zenon DEF log_write, Active, Up, booting
<1>2. /\ outstanding \in Nat /\ Len(lh) \in Nat /\ LOGSIZE \in Nat /\ SIZE \in Nat
      /\ OPBLOCKS \in Nat /\ lh \in Seq(Blocks)
  BY SizesAssumption DEF IInv, TypeOK
<1>3. Len(lh) <= LOGSIZE - 2
  BY <1>1, <1>2, RoomFinite DEF Reserved
<1>4. ~(TooBig \/ outstanding < 1)
  <2>1. Cardinality(Active) # 0
    BY Zenon, <1>1, ActiveFinite, FS_EmptySet
  <2>2. outstanding >= 1
    BY <1>2, <2>1 DEF IInv, Commits
  <2> QED
    BY <1>2, <1>3, <2>2 DEF TooBig, Modest
<1>5. /\ written' = [written EXCEPT ![p] = @ \cup {b}] /\ UNCHANGED <<pc, panicked>>
      /\ Absorb(b) /\ (b \in written[p] \/ Cardinality(written[p]) < OPBLOCKS)
  BY Zenon, <1>4 DEF log_write
<1>6. /\ Len(lh') = Len(lh) \/ Len(lh') = Len(lh) + 1
      /\ \A i \in 1..Len(lh) : lh'[i] = lh[i]
      /\ \E i \in 1..Len(lh') : lh'[i] = b
  <2>1. CASE b \in Range(lh)
    <3>1. lh' = lh
      BY Zenon, <2>1, <1>5 DEF Absorb
    <3>2. \E i \in 1..Len(lh) : lh[i] = b
      BY <2>1, <1>2 DEF Range
    <3> QED
      BY Zenon, <3>1, <3>2
  <2>2. CASE b \notin Range(lh)
    <3>1. lh' = Append(lh, b)
      BY Zenon, <2>2, <1>5 DEF Absorb
    <3>2. Len(lh') = Len(lh) + 1 /\ lh'[Len(lh) + 1] = b /\ \A i \in 1..Len(lh) : lh'[i] = lh[i]
      BY <3>1, <1>2, AppendFacts
    <3> QED
      BY <3>2, <1>2
  <2> QED
    BY Zenon, <2>1, <2>2
<1>7. written'[p] = written[p] \cup {b} /\ \A q \in Procs : q # p => written'[q] = written[q]
  BY Zenon, <1>5 DEF IInv, TypeOK
<1>8. /\ IsFiniteSet(written[p]) /\ Cardinality(written[p]) \in Nat
      /\ IsFiniteSet(written'[p])
      /\ Cardinality(written'[p]) = IF b \in written[p] THEN Cardinality(written[p])
                                                      ELSE Cardinality(written[p]) + 1
  BY <1>7, FS_AddElement, FS_CardinalityType DEF Reserved
<1>9. /\ \A q \in Procs : IsFiniteSet(written'[q])
      /\ \A q \in Procs : pc'[q] = "op" =>
           \A c \in written'[q] : \E i \in 1..Len(lh') : lh'[i] = c
  <2>1. \A q \in Procs : IsFiniteSet(written'[q])
    BY Zenon, <1>7, <1>8 DEF Reserved
  <2>2. \A i \in 1..Len(lh) : i \in 1..Len(lh')
    BY <1>2, <1>6
  <2>3. ASSUME NEW q \in Procs, pc'[q] = "op", NEW c \in written'[q]
        PROVE  \E i \in 1..Len(lh') : lh'[i] = c
    <3>1. CASE c = b
      BY Zenon, <3>1, <1>6
    <3>2. CASE c # b
      <4>1. PICK i \in 1..Len(lh) : lh[i] = c
        BY Zenon, <3>2, <2>3, <1>5, <1>7 DEF Reserved
      <4> QED
        BY Zenon, <4>1, <2>2, <1>6
    <3> QED
      BY Zenon, <3>1, <3>2
  <2> QED
    BY Zenon, <2>1, <2>3
<1>10. CASE b \in written[p]
  <2>1. lh' = lh
    <3>1. b \in Range(lh)
      BY SMTT(60), <1>1, <1>2, <1>10 DEF Reserved, Range
    <3> QED
      BY Zenon, <3>1, <1>5 DEF Absorb
  <2>2. written' = written
    <3>1. \A q \in Procs : written'[q] = written[q]
      BY Zenon, <1>7, <1>10
    <3>2. written \in [Procs -> SUBSET Blocks] /\ DOMAIN written' = DOMAIN written
      BY Zenon, <1>5 DEF IInv, TypeOK
    <3>3. written' = [q \in Procs |-> written'[q]]
      BY Zenon, <1>5, <3>2
    <3> QED
      BY <3>1, <3>2, <3>3
  <2>3. Room' = Room
    BY Zenon, <1>5, <2>2 DEF Room
  <2> QED
    BY Zenon, <1>1, <1>5, <1>9, <2>1, <2>3 DEF Reserved
<1>11. CASE b \notin written[p]
  <2> DEFINE r == <<p, Cardinality(written[p]) + 1>>
  <2>1. Cardinality(written[p]) < OPBLOCKS
    BY Zenon, <1>5, <1>11
  <2>2. r \in Room
    BY <1>1, <1>2, <1>8, <2>1 DEF Room
  <2>3. Room' \in SUBSET (Room \ {r})
    <3> SUFFICES ASSUME NEW x \in Room' PROVE x \in Room /\ x # r
      BY Zenon
    <3>1. x \in Procs \X (1..OPBLOCKS) /\ pc[x[1]] = "op" /\ Cardinality(written'[x[1]]) < x[2]
      BY Zenon, <1>5 DEF Room
    <3>2. CASE x[1] = p
      BY <3>1, <3>2, <1>8, <1>11 DEF Room
    <3>3. CASE x[1] # p
      BY <3>1, <3>3, <1>7 DEF Room
    <3> QED
      BY Zenon, <3>2, <3>3
  <2>4. Cardinality(Room') <= Cardinality(Room) - 1
    <3> HIDE DEF r
    <3>1. IsFiniteSet(Room \ {r}) /\ Cardinality(Room \ {r}) = Cardinality(Room) - 1
      BY Zenon, <2>2, RoomFinite, FS_RemoveElement
    <3>2. Cardinality(Room') <= Cardinality(Room \ {r})
      BY Zenon, <2>3, <3>1, FS_Subset
    <3> QED
      BY Zenon, <3>1, <3>2
  <2>5. Len(lh') + Cardinality(Room') <= LOGSIZE - 2
    BY <1>1, <1>2, <1>6, <2>4, RoomFinite, RoomFiniteNext DEF Reserved
  <2> QED
    BY Zenon, <1>5, <1>9, <2>5 DEF Reserved
<1> QED
  BY Zenon, <1>10, <1>11

\* Every other step leaves the log alone, or empties it while no operation is in
\* progress.
LEMMA OthersFit ==
  ASSUME Modest, IInv, IInv', Reserved, boot = "up", panicked' = FALSE, written' = written,
         \A p \in Procs : pc'[p] = "op" => pc[p] = "op",
         lh' = lh \/ (lh' = <<>> /\ \A p \in Procs : pc'[p] # "op")
  PROVE  Reserved'
<1>1. Room' \in SUBSET Room
  BY Zenon DEF Room
<1>2. Len(lh') <= Len(lh) /\ Len(lh) \in Nat /\ Len(lh') \in Nat
  <2>1. lh \in Seq(Blocks) /\ Len(<<>>) = 0
    BY Zenon DEF IInv, TypeOK
  <2> QED
    BY <2>1
<1>3. Len(lh') + Cardinality(Room') <= LOGSIZE - 2
  BY <1>1, <1>2, RoomShrinks, RoomFinite, RoomFiniteNext, SizesAssumption DEF Reserved
<1> QED
  BY Zenon, <1>3 DEF Reserved

LEMMA EndFits ==
  ASSUME Modest, IInv, IInv', Reserved, NEW p \in Procs, end_op(p)
  PROVE  Reserved'
<1>1. boot = "up" /\ panicked' = FALSE /\ lh' = lh /\ written' = written
  BY Zenon, Operating DEF end_op, IInv, TypeOK
<1>2. \A q \in Procs : pc'[q] = "op" => pc[q] = "op"
  BY Zenon DEF end_op, Wake, IInv, TypeOK
<1> QED
  BY Zenon, <1>1, <1>2, OthersFit

LEMMA CommitFits ==
  ASSUME Modest, IInv, IInv', Reserved, NEW p \in Procs,
         write_log(p) \/ write_head(p) \/ install_trans(p) \/ clear_head(p) \/ commit_done(p)
  PROVE  Reserved'
<1>1. pc[p] \in CommitPCs /\ panicked' = FALSE /\ written' = written /\ (lh' = lh \/ lh' = <<>>)
  BY Zenon DEF write_log, write_head, install_trans, clear_head, commit_done, CommitPCs, mem, Reserved,
         IInv, TypeOK
<1>2. boot = "up" /\ \A q \in Procs : q # p => pc[q] \in {"idle", "asleep", "begin"}
  BY Zenon, <1>1, Committer
<1>3. (\A q \in Procs : q # p => pc'[q] = pc[q]) \/ pc' = [Wake EXCEPT ![p] = "idle"]
  BY Zenon DEF write_log, write_head, install_trans, clear_head, commit_done, WakeAfterCommit, Loop,
         IInv, TypeOK
<1>4. pc'[p] # "op"
  BY Zenon, <1>1 DEF write_log, write_head, install_trans, clear_head, commit_done, WakeAfterCommit, Wake,
              Loop, AfterWriteLog, IInv, TypeOK, CommitPCs
<1>5. \A q \in Procs : pc'[q] # "op"
  BY Zenon, <1>2, <1>3, <1>4 DEF Wake, IInv, TypeOK
<1> QED
  BY Zenon, <1>1, <1>2, <1>5, OthersFit

LEMMA ReadFits ==
  ASSUME Modest, IInv, IInv', Reserved, NEW b \in Blocks, bread(b) \/ Recycle(b)
  PROVE  Reserved'
<1>1. boot = "up" /\ panicked' = FALSE /\ UNCHANGED <<lh, written, pc>>
  BY Zenon DEF bread, Recycle, Up, local, Reserved, IInv, TypeOK
<1> QED
  BY Zenon, <1>1, OthersFit

LEMMA BootFits ==
  ASSUME Modest, IInv, IInv', Reserved, Recover \/ Crash
  PROVE  Reserved'
<1>1. \A p \in Procs : pc'[p] = "idle"
  <2>1. CASE Recover
    BY Zenon, <2>1 DEF Recover, read_head, recover_install, recover_clear, local, IInv, Booting, AllIdle
  <2>2. CASE Crash
    BY Zenon, <2>2 DEF Crash, AllIdle
  <2> QED
    BY Zenon, <2>1, <2>2
<1>2. panicked' = panicked /\ \A p \in Procs : written'[p] = written[p] \/ written'[p] = {}
  BY Zenon DEF Recover, read_head, recover_install, recover_clear, local, Crash
<1>3. boot' = "up" => lh' = <<>>
  BY Zenon DEF Recover, read_head, recover_install, recover_clear, Crash
<1>4. Room' = {}
  BY Zenon, <1>1 DEF Room
<1>5. Len(<<>>) + Cardinality({}) <= LOGSIZE - 2
  <2>1. Len(<<>>) = 0 /\ Cardinality({}) = 0
    BY Zenon, FS_EmptySet
  <2> QED
    BY <2>1, SizesAssumption DEF Modest
<1>6. \A p \in Procs : IsFiniteSet(written'[p])
  BY Zenon, <1>2, FS_EmptySet DEF Reserved
<1> QED
  BY Zenon, <1>1, <1>2, <1>3, <1>4, <1>5, <1>6 DEF Reserved

\* No panic of log.c is reached, "too big a transaction" in particular, with any
\* number of processes, as long as an operation writes fewer than MAXOPBLOCKS
\* different blocks. begin_op() counts neither the header among the log's blocks
\* nor the entry that log_write() wants free even for a block that is in the log
\* already; the block that an operation does not use makes up for both.
THEOREM LogNeverOverflows ==
  ASSUME OPBLOCKS < MAXOPBLOCKS, OPBLOCKS + 2 <= LOGSIZE, LOGSIZE <= SIZE
  PROVE  Spec => []LogFits
<1>1. Modest
  BY Zenon DEF Modest
<1>2. Init => Reserved
  <2> SUFFICES ASSUME Init PROVE Reserved
    BY Zenon
  <2>1. \A p \in Procs : pc[p] = "idle" /\ written[p] = {}
    BY Zenon DEF Init, AllIdle
  <2> QED
    BY Zenon, <2>1, FS_EmptySet DEF Init, Reserved
<1>3. IInv /\ IInv' /\ Reserved /\ [Next]_vars => Reserved'
  <2> SUFFICES ASSUME IInv, IInv', Reserved, [Next]_vars PROVE Reserved'
    BY Zenon
  <2>1. CASE UNCHANGED vars
    <3>1. Room' = Room
      BY Zenon, <2>1 DEF Room, vars
    <3> QED
      BY Zenon, <2>1, <3>1 DEF Reserved, vars
  <2>2. ASSUME NEW p \in Procs, Step(p) PROVE Reserved'
    BY Zenon, <1>1, <2>2, BeginFits, EndFits, WriteFits, CommitFits DEF Step
  <2> QED
    BY Zenon, <1>1, <2>1, <2>2, ReadFits, BootFits DEF Next
<1>4. Reserved => LogFits
  BY Zenon DEF Reserved, LogFits
<1> QED
  BY <1>2, <1>3, <1>4, Invariance, PTL DEF Spec
=============================================================================
