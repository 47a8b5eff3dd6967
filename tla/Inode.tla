--------------------------------- MODULE Inode ---------------------------------
(***************************************************************************)
(* The inode layer and the directory layer of kernel/fs.c under the system *)
(* calls of kernel/sysfile.c that change names: open, mkdir, link, unlink, *)
(* chdir and close, run by several processes.                              *)
(*                                                                         *)
(* disk[i] is what a reader of inode i's blocks sees: its type, its link   *)
(* count and, of a directory, its entries (0 is an empty one; "." is left  *)
(* out). The in-memory copy differs from it only between a change and its  *)
(* iupdate, under the inode's lock, so of the table entry only ref, valid  *)
(* and lock are kept; iget finds the one entry of an inum, so entries are  *)
(* named by inum. A step is what runs between two points where the process *)
(* may wait: ilock, or the itable.lock of iget and iput.                   *)
(*                                                                         *)
(* A call is in a transaction from begin_op to end_op (Log), so a crash    *)
(* takes the disk back to a moment with no call in progress.               *)
(***************************************************************************)
EXTENDS Integers, FiniteSets, Sequences

CONSTANTS Procs, NoProc,
          NINODES,         \* sb.ninodes - 1: inums are 1..NINODES
          Names,           \* names that calls use, besides ".."
          Calls            \* the calls made: [op, from, to], paths [abs, elems]

ASSUME InodeAssumption == NINODES \in Nat \ {0}

Inodes == 1..NINODES
Root == 1                  \* ROOTINO
Elems == Names \cup {".."}
NoEnts == [e \in Elems |-> 0]
Free == [type |-> "none", nlink |-> 0, ents |-> NoEnts]

\* A call's locals: cur is the ip or dp of namex and what follows it, obj the
\* second inode of create, unlink and link; new is link's second path.
NoPath == [abs |-> TRUE, elems |-> <<>>]
NoCall == [op |-> "none", cur |-> 0, obj |-> 0, path |-> <<>>, new |-> NoPath]

VARIABLES disk, ref, valid, lock,
          pc, call,           \* where a call is, and its local variables
          todo,               \* the iunlocks and iputs it still has to do
          cwd, file,          \* p->cwd; the inode of p's open file, or 0
          orphan, lost, raced,    \* history: see LinkCounts
          panicked

table == <<ref, valid, lock>>
owned == <<cwd, file>>
history == <<orphan, lost, raced>>
vars == <<disk, table, pc, call, todo, owned, history, panicked>>

\* The image mkfs makes, and every process in the root directory.
Init ==
  /\ disk = [i \in Inodes |->
               IF i = Root THEN [type |-> "dir", nlink |-> 1,
                                 ents |-> [NoEnts EXCEPT ![".."] = Root]]
               ELSE Free]
  /\ ref = [i \in Inodes |-> IF i = Root THEN Cardinality(Procs) ELSE 0]
  /\ valid = [i \in Inodes |-> FALSE]
  /\ lock = [i \in Inodes |-> NoProc]
  /\ pc = [p \in Procs |-> "idle"]
  /\ call = [p \in Procs |-> NoCall]
  /\ todo = [p \in Procs |-> <<>>]
  /\ cwd = [p \in Procs |-> Root] /\ file = [p \in Procs |-> 0]
  /\ orphan = {} /\ lost = {} /\ raced = {}
  /\ panicked = FALSE

Idle(p) == pc[p] = "idle" /\ todo[p] = <<>>
At(p, l) == pc[p] = l /\ todo[p] = <<>>

\* Where p goes on, with which locals, and what it has to put first.
Then(p, l, c, puts) == /\ pc' = [pc EXCEPT ![p] = l]
                       /\ call' = [call EXCEPT ![p] = c]
                       /\ todo' = [todo EXCEPT ![p] = puts]
Return(p, puts) == Then(p, "idle", NoCall, puts)
Put(i) == [do |-> "put", i |-> i]
Unlock(i) == [do |-> "unlock", i |-> i]

\* iget and idup: under itable.lock; an entry that was unused is not valid yet.
iget(i) == /\ ref' = [ref EXCEPT ![i] = @ + 1]
           /\ valid' = [valid EXCEPT ![i] = @ /\ ref[i] > 0]

\* ilock waits for the lock and panics on an inode that turns out to be free.
CanLock(i) == lock[i] = NoProc
Panics(i) == ~valid[i] /\ disk[i].type = "none"
ilock(i) == /\ CanLock(i)
            /\ valid' = [valid EXCEPT ![i] = TRUE]
            /\ panicked' = (panicked \/ Panics(i))

\* iput's test, under itable.lock.
LastUse_Never(i) == ref[i] = 0 /\ valid[i] /\ disk[i].nlink = 0
LastUse(i) == ref[i] = 1 /\ valid[i] /\ disk[i].nlink = 0

\* iput, and the iunlock of the locks a call still holds. The last reference to
\* an inode without links frees it: lock it, drop itable.lock, truncate and
\* free it on disk, unlock, and only then drop the reference.
iput(p) ==
  LET i == Head(todo[p]).i
      next(d) == [todo EXCEPT ![p] = <<[do |-> d, i |-> i]>> \o Tail(@)]
      done == [todo EXCEPT ![p] = Tail(@)]
  IN /\ todo[p] # <<>>
     /\ CASE Head(todo[p]).do = "unlock" ->
               /\ lock' = [lock EXCEPT ![i] = NoProc]
               /\ todo' = done
               /\ UNCHANGED <<disk, ref, valid, lost, raced, panicked>>
          [] Head(todo[p]).do = "put" /\ LastUse(i) ->
               /\ panicked' = (panicked \/ lock[i] # NoProc)
               /\ lock' = [lock EXCEPT ![i] = p]
               /\ todo' = next("free")
               /\ UNCHANGED <<disk, ref, valid, lost, raced>>
          [] Head(todo[p]).do = "free" ->
               /\ disk' = [disk EXCEPT ![i] = Free]
               /\ lost' = (lost \cup {disk[i].ents[n] : n \in Names}) \ {0}
               /\ valid' = [valid EXCEPT ![i] = FALSE]
               /\ lock' = [lock EXCEPT ![i] = NoProc]
               /\ todo' = next("drop")
               /\ UNCHANGED <<ref, raced, panicked>>
          [] OTHER ->
               /\ ref' = [ref EXCEPT ![i] = @ - 1]
               /\ raced' = IF /\ Head(todo[p]).do = "drop" /\ ref[i] = 1
                             /\ disk[i].type # "none" /\ disk[i].nlink = 0
                          THEN raced \cup {i} ELSE raced
               /\ todo' = done
               /\ UNCHANGED <<disk, valid, lock, lost, panicked>>
     /\ UNCHANGED <<pc, call, owned, orphan>>

\* A call begins: begin_op, then namex starts at the root or at p->cwd.
Start(p, from) == IF from.abs THEN Root ELSE cwd[p]
Begin(p, k) ==
  /\ Idle(p)
  /\ iget(Start(p, k.from))
  /\ Then(p, "walk", [op |-> k.op, cur |-> Start(p, k.from), obj |-> 0,
                      path |-> k.from.elems, new |-> k.to], <<>>)
  /\ UNCHANGED <<disk, lock, owned, history, panicked>>

\* namex: with nameiparent set it stops at the directory of the last element.
Parent(c) == c.op \in {"create", "mkdir", "unlink"} \/ c.obj # 0
Found(p, c) == Then(p, IF c.obj # 0 THEN "link2" ELSE c.op, c, <<>>)
NotFound_NoUndo(p, c) == Return(p, <<Put(c.cur)>>)
NotFound(p, c) ==
  IF c.obj # 0 THEN Then(p, "linkbad", [c EXCEPT !.cur = 0], <<Put(c.cur)>>)
  ELSE Return(p, <<Put(c.cur)>>)

WalkEnd(p) ==
  LET c == call[p] IN
  /\ At(p, "walk") /\ c.path = <<>>
  /\ IF Parent(c) THEN NotFound(p, c) ELSE Found(p, c)
  /\ UNCHANGED <<disk, table, owned, history, panicked>>

Walk(p) ==
  LET c == call[p]
      i == c.cur
      dir == disk[i].type = "dir"
      stop == Parent(c) /\ Len(c.path) = 1
      n == disk[i].ents[Head(c.path)]
  IN /\ At(p, "walk") /\ c.path # <<>>
     /\ CanLock(i)
     /\ panicked' = (panicked \/ Panics(i))
     /\ IF dir /\ ~stop /\ n # 0
        THEN /\ ref' = [ref EXCEPT ![n] = @ + 1]      \* dirlookup's iget
             /\ valid' = [valid EXCEPT ![i] = TRUE, ![n] = @ /\ ref[n] > 0]
             /\ Then(p, "walk", [c EXCEPT !.cur = n, !.path = Tail(@)], <<Put(i)>>)
        ELSE /\ valid' = [valid EXCEPT ![i] = TRUE]
             /\ IF dir /\ stop THEN Found(p, c) ELSE NotFound(p, c)
             /\ UNCHANGED ref
     /\ UNCHANGED <<disk, lock, owned, history>>

\* The end of sys_open: filealloc and fdalloc may fail.
OpenFile(p, i, before) ==
  \/ /\ file[p] = 0
     /\ file' = [file EXCEPT ![p] = i]
     /\ Return(p, before)
  \/ /\ Return(p, before \o <<Put(i)>>)
     /\ UNCHANGED file

\* sys_open without O_CREATE.
Open(p) ==
  /\ At(p, "open")
  /\ ilock(call[p].cur)
  /\ OpenFile(p, call[p].cur, <<>>)
  /\ UNCHANGED <<disk, ref, lock, cwd, history>>

\* sys_chdir: the old directory is put before end_op.
Chdir(p) ==
  LET i == call[p].cur IN
  /\ At(p, "chdir")
  /\ ilock(i)
  /\ IF disk[i].type = "dir"
     THEN cwd' = [cwd EXCEPT ![p] = i] /\ Return(p, <<Put(cwd[p])>>)
     ELSE UNCHANGED cwd /\ Return(p, <<Put(i)>>)
  /\ UNCHANGED <<disk, ref, lock, file, history>>

\* create, under the parent's lock: the name exists, or there is no free inode,
\* or ialloc takes the first free one. The parent stays locked for the rest.
FreeInodes == {i \in Inodes : disk[i].type = "none"}
Create(p) ==
  LET c == call[p]
      d == c.cur
      n == disk[d].ents[c.path[1]]
      i == CHOOSE j \in FreeInodes : \A k \in FreeInodes : j <= k
  IN /\ At(p, "create") \/ At(p, "mkdir")
     /\ CanLock(d)
     /\ \/ /\ n # 0
           /\ iget(n)
           /\ Then(p, "exists", [c EXCEPT !.cur = n], <<Put(d)>>)
           /\ UNCHANGED <<disk, lock>>
        \/ /\ n = 0 /\ FreeInodes = {}
           /\ Return(p, <<Put(d)>>)
           /\ UNCHANGED <<disk, table>>
        \/ /\ n = 0 /\ FreeInodes # {}
           /\ disk' = [disk EXCEPT ![i] =
                [Free EXCEPT !.type = IF c.op = "mkdir" THEN "dir" ELSE "file"]]
           /\ iget(i)
           /\ lock' = [lock EXCEPT ![d] = p]
           /\ Then(p, "create2", [c EXCEPT !.obj = i], <<>>)
     /\ UNCHANGED <<owned, history, panicked>>

\* create of a name that exists: only open of a file goes on with it.
Exists(p) ==
  LET i == call[p].cur IN
  /\ At(p, "exists")
  /\ ilock(i)
  /\ IF call[p].op = "create" /\ disk[i].type = "file" THEN OpenFile(p, i, <<>>)
     ELSE Return(p, <<Put(i)>>) /\ UNCHANGED file
  /\ UNCHANGED <<disk, ref, lock, cwd, history>>

\* The rest of create, with both inodes locked; a dirlink fails for want of
\* blocks. Then the caller: mkdir puts the inode, open keeps it.
Create2(p) ==
  LET c == call[p]
      d == c.cur
      i == c.obj
      dir == c.op = "mkdir"
  IN /\ At(p, "create2")
     /\ ilock(i)
     /\ \/ /\ disk' = [disk EXCEPT ![i].nlink = 1,
                                    ![i].ents[".."] = IF dir THEN d ELSE 0,
                                    ![d].ents[c.path[1]] = i,
                                    ![d].nlink = IF dir THEN @ + 1 ELSE @]
           /\ lock' = [lock EXCEPT ![d] = NoProc, ![i] = p]
           /\ IF dir THEN Return(p, <<Put(d), Unlock(i), Put(i)>>) /\ UNCHANGED file
              ELSE OpenFile(p, i, <<Put(d), Unlock(i)>>)
        \/ /\ Return(p, <<Put(i), Unlock(d), Put(d)>>)   \* fail:
           /\ UNCHANGED <<disk, lock, file>>
     /\ UNCHANGED <<ref, cwd, history>>

\* sys_unlink under the parent's lock, which it keeps while it locks the child.
Unlink(p) ==
  LET c == call[p]
      d == c.cur
      n == disk[d].ents[c.path[1]]
  IN /\ At(p, "unlink")
     /\ CanLock(d)
     /\ IF c.path[1] = ".." \/ n = 0
        THEN Return(p, <<Put(d)>>) /\ UNCHANGED table
        ELSE /\ iget(n)
             /\ lock' = [lock EXCEPT ![d] = p]
             /\ Then(p, "unlink2", [c EXCEPT !.obj = n], <<>>)
     /\ UNCHANGED <<disk, owned, history, panicked>>

isdirempty(i) == \A n \in Names : disk[i].ents[n] = 0

Unlink2(p) ==
  LET c == call[p]
      d == c.cur
      i == c.obj
      dir == disk[i].type = "dir"
  IN /\ At(p, "unlink2")
     /\ CanLock(i)
     /\ valid' = [valid EXCEPT ![i] = TRUE]
     /\ panicked' = (panicked \/ Panics(i) \/ disk[i].nlink < 1)
     /\ IF dir /\ ~isdirempty(i)
        THEN /\ Return(p, <<Put(i), Unlock(d), Put(d)>>)
             /\ UNCHANGED <<disk, lock>>
        ELSE /\ disk' = [disk EXCEPT ![d].ents[c.path[1]] = 0,
                                     ![d].nlink = IF dir THEN @ - 1 ELSE @]
             /\ lock' = [lock EXCEPT ![d] = NoProc, ![i] = p]
             /\ Then(p, "unlink3", [c EXCEPT !.cur = 0], <<Put(d)>>)
     /\ UNCHANGED <<ref, owned, history>>

\* ... and only after the parent is put does the child lose its link.
Unlink3(p) ==
  LET i == call[p].obj IN
  /\ At(p, "unlink3")
  /\ disk' = [disk EXCEPT ![i].nlink = @ - 1]
  /\ lock' = [lock EXCEPT ![i] = NoProc]
  /\ Return(p, <<Put(i)>>)
  /\ UNCHANGED <<ref, valid, owned, history, panicked>>

\* sys_link: count the link first, then look for the directory to put it in.
Link(p) ==
  LET c == call[p]
      i == c.cur
      s == Start(p, c.new)
  IN /\ At(p, "link")
     /\ CanLock(i)
     /\ panicked' = (panicked \/ Panics(i))
     /\ IF disk[i].type = "dir"
        THEN /\ valid' = [valid EXCEPT ![i] = TRUE]
             /\ Return(p, <<Put(i)>>)
             /\ UNCHANGED <<disk, ref>>
        ELSE /\ disk' = [disk EXCEPT ![i].nlink = @ + 1]
             /\ ref' = [ref EXCEPT ![s] = @ + 1]
             /\ valid' = [valid EXCEPT ![i] = TRUE, ![s] = @ /\ ref[s] > 0]
             /\ Then(p, "walk", [c EXCEPT !.obj = i, !.cur = s,
                                          !.path = c.new.elems], <<>>)
     /\ UNCHANGED <<lock, owned, history>>

Link2(p) ==
  LET c == call[p]
      d == c.cur
  IN /\ At(p, "link2")
     /\ CanLock(d)
     /\ \/ /\ NotFound(p, c)                     \* name taken, or no blocks
           /\ UNCHANGED disk
        \/ /\ disk[d].ents[c.path[1]] = 0
           /\ disk' = [disk EXCEPT ![d].ents[c.path[1]] = c.obj]
           /\ Return(p, <<Put(d), Put(c.obj)>>)
     /\ UNCHANGED <<table, owned, history, panicked>>

LinkBad(p) ==
  LET i == call[p].obj IN
  /\ At(p, "linkbad")
  /\ ilock(i)
  /\ disk' = [disk EXCEPT ![i].nlink = @ - 1]
  /\ Return(p, <<Put(i)>>)
  /\ UNCHANGED <<ref, lock, owned, history>>

\* fileclose of the last reference to a file.
Close(p) ==
  /\ Idle(p) /\ file[p] # 0
  /\ file' = [file EXCEPT ![p] = 0]
  /\ Return(p, <<Put(file[p])>>)
  /\ UNCHANGED <<disk, table, cwd, history, panicked>>

\* A crash and the recovery after it: memory is gone, the disk is as it was
\* when no call was in a transaction.
Reboot ==
  /\ \A p \in Procs : Idle(p)
  /\ orphan' = orphan \cup {i \in Inodes : disk[i].type # "none" /\ disk[i].nlink = 0}
  /\ ref' = [i \in Inodes |-> IF i = Root THEN Cardinality(Procs) ELSE 0]
  /\ valid' = [i \in Inodes |-> FALSE]
  /\ cwd' = [p \in Procs |-> Root] /\ file' = [p \in Procs |-> 0]
  /\ UNCHANGED <<disk, lock, pc, call, todo, lost, raced, panicked>>

Steps(p) == \/ iput(p) \/ WalkEnd(p) \/ Walk(p) \/ Open(p) \/ Chdir(p) \/ Create(p)
            \/ Exists(p) \/ Create2(p) \/ Unlink(p) \/ Unlink2(p) \/ Unlink3(p)
            \/ Link(p) \/ Link2(p) \/ LinkBad(p)
Next == Reboot \/ \E p \in Procs : Close(p) \/ Steps(p) \/ \E k \in Calls : Begin(p, k)

Spec == Init /\ [][Next]_vars
-------------------------------------------------------------------------------
(* Properties *)

Count(b) == IF b THEN 1 ELSE 0

\* The references to i that processes hold: as current directory, as open file, in
\* the locals of calls, and those that they have still to put.
ToPut == UNION {{p} \X {k \in DOMAIN todo[p] : todo[p][k].do # "unlock"} : p \in Procs}
Uses(i) == Cardinality({p \in Procs : cwd[p] = i}) + Cardinality({p \in Procs : file[p] = i})
           + Cardinality({p \in Procs : call[p].cur = i})
           + Cardinality({p \in Procs : call[p].obj = i})
           + Cardinality({u \in ToPut : todo[u[1]][u[2]].i = i})

\* ref is exactly the number of references that processes hold, also in every
\* failure path, so that an entry is recycled when and only when nobody can use
\* it; an unreferenced inode is unlocked; and no panic of ilock, iput's assumed
\* lock order ("this acquiresleep() won't block") or unlink is reached.
RefsExact ==
  /\ \A i \in Inodes : ref[i] = Uses(i)
  /\ \A i \in Inodes : ref[i] = 0 => lock[i] = NoProc
  /\ ~panicked

\* The directory entries that name i, and the subdirectories whose ".." is i.
Entries(i) == Cardinality({e \in Inodes \X Names : disk[e[1]].ents[e[2]] = i})
Subdirs(i) == Cardinality({n \in Names : disk[i].ents[n] # 0
                                         /\ disk[disk[i].ents[n]].type = "dir"})
\* Links counted before their entry is written or after it is cleared.
InFlight(i) == Cardinality({p \in Procs :
                 call[p].obj = i /\ pc[p] \in {"walk", "link2", "linkbad", "unlink3"}})

\* nlink is the number of names an inode has, at every step of every
\* interleaving, and no entry names a free inode. One exception is the code's:
\* an entry made in a directory that was removed while in use goes with that
\* directory (lost), and what it named keeps the link.
LinkCounts ==
  \A i \in Inodes :
    LET names == Entries(i) + Subdirs(i)
    IN IF disk[i].type = "none" THEN Entries(i) = 0
       ELSE /\ i \in lost \/ disk[i].nlink = names + InFlight(i) + Count(i = Root)
            /\ disk[i].nlink >= names

\* Both counts of an inode are right: ref, of the users in memory, and nlink, of
\* the names on disk.
CountsExact == RefsExact /\ LinkCounts

\* "If that was the last reference and the inode has no links to it, free the
\* inode": an inode without names that nobody uses is free, unless the system
\* crashed while it was in use (orphan).
FreedWhenUnused ==
  \A i \in Inodes : disk[i].type # "none" /\ disk[i].nlink = 0 =>
                      ref[i] > 0 \/ i \in orphan

\* ... or unless iput's last step, which does not look at nlink again, dropped
\* the last reference of an inode that was allocated anew (and lost its names)
\* since iput freed it (raced): the one way to leak an inode without a crash.
FreedUnlessRaced ==
  \A i \in Inodes : disk[i].type # "none" /\ disk[i].nlink = 0 =>
                      ref[i] > 0 \/ i \in orphan \cup raced
=============================================================================
