--------------------------------- MODULE Memory ---------------------------------
(***************************************************************************)
(* Physical pages and user address spaces: kernel/kalloc.c, kernel/vm.c,   *)
(* and what fork, exec, sbrk, exit and wait do with them (kernel/proc.c,   *)
(* kernel/exec.c, sys_exec), for processes whose kallocs interleave and    *)
(* fail when memory runs out.                                              *)
(*                                                                         *)
(* Pages are interchangeable, so a page is named after the use it is       *)
(* allocated for (there are two of a name, as exec builds an image beside  *)
(* the old one), and the free list is what is left of NPAGES. Freeing      *)
(* never waits: each tear-down is one step.                                *)
(* A page table is a record: page, the page of each page-table node (<<>>  *)
(* if there is none); leaf, the physical page of each virtual one; user,   *)
(* the virtual pages with PTE_U. Node <<l, j>> holds the PTEs of level l for   *)
(* the j-th run of F^(l+1) virtual pages. Sizes are in units of 1/PGSIZE   *)
(* of a page, so that a size need not be a whole number of pages.          *)
(***************************************************************************)
EXTENDS Integers, Sequences, FiniteSets, FiniteSetsExt

CONSTANTS MPROC, NPAGES, PGSIZE,
          LEVELS, F,          \* of page tables; 3 and 512 in the hardware
          MaxSz,              \* bound on p->sz
          Deltas,             \* the n of sbrk
          SegEnds,            \* vaddr + memsz of program segments
          MaxArgs             \* bound on the arguments of exec

Slots == 1..MPROC
VAs == 0..F^LEVELS - 1
TRAMPOLINE == F^LEVELS - 1
TRAPFRAME == F^LEVELS - 2
NoPage == <<>>
Tramp == <<"trampoline">>          \* the page of trampoline.S

\* The address space has room for every size that memory has room for, below
\* the two pages at its top; exec's stack included.
ASSUME RoomAssumption == /\ LEVELS > 1 /\ PGSIZE > 0
                         /\ MaxSz + 3 * PGSIZE <= TRAPFRAME * PGSIZE
                         /\ \A e \in SegEnds : 0 < e /\ e <= MaxSz

Nodes == UNION {{l} \X (0..F^(LEVELS - 1 - l) - 1) : l \in 0..LEVELS - 1}
Root == <<LEVELS - 1, 0>>
NoTable == [page |-> [n \in Nodes |-> NoPage], leaf |-> [va \in VAs |-> NoPage],
            user |-> {}]
RoundUp(sz) == (sz + PGSIZE - 1) \div PGSIZE       \* PGROUNDUP, in pages

\* A call's locals: t, the table it fills; a, from, to, the loop of uvmalloc or
\* uvmcopy; mem, its page that is not mapped yet; child; exec's sz, whether it is at
\* the stack, and argv's pages.
NoCall == [op |-> "none", t |-> <<0, "proc">>, a |-> 0, from |-> 0, to |-> 0,
           mem |-> NoPage, child |-> 0, sz |-> 0, stack |-> FALSE, args |-> {}]
Tables == Slots \X {"proc", "exec"}                \* p->pagetable, exec's local

VARIABLES used,                         \* the pages that are not free
          mstate, sz, trapframe,         \* fields of struct proc
          pt,                           \* the page tables
          mpc, call,
          panicked

memvars == <<used, mstate, sz, trapframe, pt, mpc, call, panicked>>

\* The free list after freerange; userinit's process is built by Boot.
MemInit ==
  /\ used = {}
  /\ mstate = [s \in Slots |-> IF s = 1 THEN "used" ELSE "unused"]
  /\ sz = [s \in Slots |-> 0]
  /\ trapframe = [s \in Slots |-> NoPage]
  /\ pt = [t \in Tables |-> NoTable]
  /\ mpc = [s \in Slots |-> IF s = 1 THEN "trapframe" ELSE "user"]
  /\ call = [s \in Slots |-> IF s = 1 THEN [NoCall EXCEPT !.op = "boot", !.child = 1]
                             ELSE NoCall]
  /\ panicked = FALSE

MemGoto(p, l, c) == mpc' = [mpc EXCEPT ![p] = l] /\ call' = [call EXCEPT ![p] = c]
Return(p) == MemGoto(p, "user", NoCall)
Live(p) == mstate[p] = "live" /\ mpc[p] = "user"

\* kalloc for p, when there is a page; kfree of a set of pages. A page that is
\* freed twice is on the list twice, which the model counts as a panic.
CanAlloc == Cardinality(used) < NPAGES
NewPage(s, use, i) == IF <<s, use, i, 0>> \in used THEN <<s, use, i, 1>>
                      ELSE <<s, use, i, 0>>
kalloc(g) == used' = used \cup {g}
kfree(S, bad) == /\ used' = used \ S
                 /\ panicked' = (panicked \/ bad \/ ~(S \subseteq used))

\* walk with alloc: the page-table nodes on the way to va that are missing.
Missing(t, va) == {l \in 0..LEVELS - 1 : pt[t].page[<<l, va \div F^(l + 1)>>] = NoPage}
walk(t, va) ==
  LET l == Max(Missing(t, va))
      n == <<l, va \div F^(l + 1)>>
      g == NewPage(t[1], "node", n)
  IN  kalloc(g) /\ pt' = [pt EXCEPT ![t].page[n] = g]

\* mappages of one page, with the path to it in place.
mappages(t, va, pa, u) ==
  /\ pt' = [pt EXCEPT ![t].leaf[va] = pa,
                      ![t].user = IF u THEN @ \cup {va} ELSE @]
  /\ panicked' = (panicked \/ pt[t].leaf[va] # NoPage)

\* uvmunmap with do_free: the table without these pages, the physical pages,
\* and whether it panics because one is not mapped.
Unmapped(x, vas) == [x EXCEPT !.leaf = [va \in VAs |-> IF va \in vas THEN NoPage ELSE @[va]],
                              !.user = @ \ vas]
PagesOf(x, vas) == {x.leaf[va] : va \in vas}
uvmunmapBad(x, vas) == NoPage \in PagesOf(x, vas)

\* uvmfree (uvmunmap of 0..size, freewalk): the pages freed; freewalk panics if
\* a leaf is left. proc_freepagetable first unmaps the two pages at the top.
uvmfree(x, size) ==
  PagesOf(x, 0..RoundUp(size) - 1) \cup ({x.page[n] : n \in Nodes} \ {NoPage})
uvmfreeBad(x, size) ==
  \/ uvmunmapBad(x, 0..RoundUp(size) - 1)
  \/ \E va \in VAs \ (0..RoundUp(size) - 1) : x.leaf[va] # NoPage
TopUnmapped(x) == Unmapped(x, {TRAMPOLINE, TRAPFRAME})
freepagetableBad(x, size) == \/ uvmunmapBad(x, {TRAMPOLINE, TRAPFRAME})
                             \/ uvmfreeBad(TopUnmapped(x), size)

\* freeproc of slot s, whose page table is x (NoTable if it has none), and
\* whose parent or creator p returns.
HasTable(x) == x.page[Root] # NoPage
freeproc(p, s, x, extra) ==
  /\ kfree(extra \cup ({trapframe[s]} \ {NoPage})
                 \cup (IF HasTable(x) THEN uvmfree(x, sz[s]) ELSE {}),
           HasTable(x) /\ freepagetableBad(x, sz[s]))
  /\ trapframe' = [trapframe EXCEPT ![s] = NoPage]
  /\ pt' = [pt EXCEPT ![<<s, "proc">>] = NoTable]
  /\ sz' = [sz EXCEPT ![s] = 0]
  /\ mstate' = [mstate EXCEPT ![s] = "unused"]
  /\ Return(p)

\* exec's bad: label, then sys_exec frees the argument pages. x is exec's table.
ExecBad(p, x, extra) ==
  /\ kfree(extra \cup call[p].args
                 \cup (IF HasTable(x) THEN uvmfree(x, call[p].sz) ELSE {}),
           HasTable(x) /\ freepagetableBad(x, call[p].sz))
  /\ pt' = [pt EXCEPT ![<<p, "exec">>] = NoTable]
  /\ Return(p)
  /\ UNCHANGED <<mstate, sz, trapframe>>

\* A call that has to give up, its table being x: boot has no failure path.
Fail(p, x, extra) ==
  CASE call[p].op = "fork" -> freeproc(p, call[p].child, x, extra)
    [] call[p].op = "exec" -> ExecBad(p, x, extra)
    [] call[p].op = "sbrk" -> /\ kfree(extra, FALSE)
                              /\ pt' = [pt EXCEPT ![call[p].t] = x]
                              /\ Return(p)
                              /\ UNCHANGED <<mstate, sz, trapframe>>

-------------------------------------------------------------------------------
\* fork: allocproc takes an unused slot ...
ForkMem(p) ==
  /\ Live(p)
  /\ \E s \in Slots : /\ mstate[s] = "unused"
                      /\ \A q \in 1..s - 1 : mstate[q] # "unused"
                      /\ mstate' = [mstate EXCEPT ![s] = "used"]
                      /\ MemGoto(p, "trapframe", [NoCall EXCEPT !.op = "fork", !.child = s])
  /\ UNCHANGED <<used, sz, trapframe, pt, panicked>>

\* ... and gives it a trapframe page and (proc_pagetable) a page table.
allocproc(p) ==
  LET s == call[p].child IN
  /\ mpc[p] = "trapframe"
  /\ IF CanAlloc
     THEN /\ kalloc(NewPage(s, "trapframe", 0))
          /\ trapframe' = [trapframe EXCEPT ![s] = NewPage(s, "trapframe", 0)]
          /\ MemGoto(p, "root", [call[p] EXCEPT !.t = <<s, "proc">>])
          /\ UNCHANGED <<mstate, sz, pt, panicked>>
     ELSE freeproc(p, s, NoTable, {})

\* sys_exec fetches the argument strings, then exec finds and checks the file:
\* each part may fail.
Exec(p) ==
  /\ Live(p)
  /\ MemGoto(p, "args", [NoCall EXCEPT !.op = "exec", !.t = <<p, "exec">>])
  /\ UNCHANGED <<used, mstate, sz, trapframe, pt, panicked>>
sys_exec(p) ==
  LET g == NewPage(p, "arg", Cardinality(call[p].args)) IN
  /\ mpc[p] = "args"
  /\ \/ /\ CanAlloc /\ Cardinality(call[p].args) < MaxArgs
        /\ kalloc(g)
        /\ MemGoto(p, "args", [call[p] EXCEPT !.args = @ \cup {g}])
        /\ UNCHANGED <<mstate, sz, trapframe, pt, panicked>>
     \/ ExecBad(p, NoTable, {})
     \/ /\ MemGoto(p, "root", call[p])
        /\ UNCHANGED <<used, mstate, sz, trapframe, pt, panicked>>

\* proc_pagetable: uvmcreate, then the trampoline, then the trapframe.
uvmcreate(p) ==
  LET t == call[p].t
      g == NewPage(t[1], "node", Root)
  IN
  /\ mpc[p] = "root"
  /\ IF CanAlloc
     THEN /\ kalloc(g)
          /\ pt' = [pt EXCEPT ![t].page[Root] = g]
          /\ MemGoto(p, "tramp", call[p])
          /\ UNCHANGED <<mstate, sz, trapframe, panicked>>
     ELSE Fail(p, NoTable, {})

proc_pagetable(p) ==
  LET t == call[p].t
      va == IF mpc[p] = "tramp" THEN TRAMPOLINE ELSE TRAPFRAME
      pa == IF mpc[p] = "tramp" THEN Tramp ELSE trapframe[t[1]]
      c == call[p]
  IN /\ mpc[p] \in {"tramp", "tframe"}
     /\ CASE Missing(t, va) = {} ->
               /\ mappages(t, va, pa, FALSE)
               /\ IF mpc[p] = "tramp" THEN MemGoto(p, "tframe", c)
                  ELSE IF c.op = "exec" THEN MemGoto(p, "load", c)
                  ELSE MemGoto(p, "fill", [c EXCEPT !.to = IF c.op = "fork" THEN sz[p]
                                                       ELSE PGSIZE])
               /\ UNCHANGED <<used, mstate, sz, trapframe>>
          [] Missing(t, va) # {} /\ CanAlloc ->
               /\ walk(t, va)
               /\ UNCHANGED <<mstate, sz, trapframe, mpc, call, panicked>>
          [] OTHER ->          \* uvmfree(pagetable, 0), after unmapping
               Fail(p, NoTable, uvmfree(pt[t], 0))

-------------------------------------------------------------------------------
\* The loop of uvmalloc and of uvmcopy: a page, then its mapping.
MoreToMap(c) == c.a * PGSIZE < c.to
kallocMem(p) ==
  LET g == NewPage(call[p].t[1], "user", call[p].a) IN
  /\ mpc[p] = "fill" /\ MoreToMap(call[p]) /\ call[p].mem = NoPage /\ CanAlloc
  /\ kalloc(g)
  /\ call' = [call EXCEPT ![p].mem = g]
  /\ UNCHANGED <<mstate, sz, trapframe, pt, mpc, panicked>>

\* uvmcopy copies the flags, and panics if the parent's page is not there.
PTE_U(p) == call[p].op # "fork" \/ call[p].a \in pt[<<p, "proc">>].user
mapMem(p) ==
  LET c == call[p]
      absent == c.op = "fork" /\ pt[<<p, "proc">>].leaf[c.a] = NoPage
  IN /\ mpc[p] = "fill" /\ c.mem # NoPage
     /\ \/ /\ Missing(c.t, c.a) # {} /\ CanAlloc
           /\ walk(c.t, c.a)
           /\ UNCHANGED <<call, panicked>>
        \/ /\ Missing(c.t, c.a) = {}
           /\ pt' = [pt EXCEPT ![c.t].leaf[c.a] = c.mem,
                               ![c.t].user = IF PTE_U(p) THEN @ \cup {c.a} ELSE @]
           /\ panicked' = (panicked \/ absent \/ pt[c.t].leaf[c.a] # NoPage)
           /\ call' = [call EXCEPT ![p].a = @ + 1, ![p].mem = NoPage]
           /\ UNCHANGED used
     /\ UNCHANGED <<mstate, sz, trapframe, mpc>>

InHand_Not(c) == {}
InHand(c) == {c.mem} \ {NoPage}

\* Out of memory: free the page in hand and unmap what the loop mapped. Table
\* pages stay.
fillFails(p) ==
  LET c == call[p]
      undo == c.from..c.a - 1
  IN /\ mpc[p] = "fill" /\ MoreToMap(c) /\ ~CanAlloc
     /\ c.mem = NoPage \/ Missing(c.t, c.a) # {}
     /\ Fail(p, Unmapped(pt[c.t], undo), PagesOf(pt[c.t], undo) \cup InHand(c))

\* The loop is done: growproc sets p->sz; fork and userinit let the new process
\* go; exec has a segment or the stack, whose lower page is the guard (uvmclear).
fillDone(p) ==
  LET c == call[p] IN
  /\ mpc[p] = "fill" /\ ~MoreToMap(c)
  /\ CASE c.op = "sbrk" ->
            /\ sz' = [sz EXCEPT ![p] = c.to]
            /\ Return(p)
            /\ UNCHANGED <<mstate, pt>>
       [] c.op \in {"fork", "boot"} ->
            /\ sz' = [sz EXCEPT ![c.child] = c.to]
            /\ mstate' = [mstate EXCEPT ![c.child] = "live"]
            /\ Return(p)
            /\ UNCHANGED pt
       [] c.op = "exec" ->
            /\ MemGoto(p, IF c.stack THEN "commit" ELSE "load", [c EXCEPT !.sz = c.to])
            /\ pt' = IF c.stack THEN [pt EXCEPT ![c.t].user = @ \ {RoundUp(c.to) - 2}]
                     ELSE pt
            /\ UNCHANGED <<mstate, sz>>
  /\ UNCHANGED <<used, trapframe, panicked>>

\* uvmalloc(pagetable, oldsz, newsz) begins; a smaller newsz changes nothing.
uvmalloc(p, c, oldsz, newsz) ==
  MemGoto(p, "fill", [c EXCEPT !.from = RoundUp(oldsz), !.a = RoundUp(oldsz),
                            !.to = IF newsz < oldsz THEN oldsz ELSE newsz])

\* sbrk: growproc. sz + n wraps for n < -sz, and then uvmdealloc does nothing.
growproc(p, n) ==
  LET gone == RoundUp(sz[p] + n)..RoundUp(sz[p]) - 1
      t == <<p, "proc">>
  IN /\ Live(p) /\ sz[p] + n <= MaxSz
     /\ \/ /\ n > 0
           /\ uvmalloc(p, [NoCall EXCEPT !.op = "sbrk", !.t = t], sz[p], sz[p] + n)
           /\ UNCHANGED <<used, sz, pt, panicked>>
        \/ /\ n < 0 /\ sz[p] + n >= 0          \* uvmdealloc
           /\ kfree(PagesOf(pt[t], gone), uvmunmapBad(pt[t], gone))
           /\ pt' = [pt EXCEPT ![t] = Unmapped(@, gone)]
           /\ sz' = [sz EXCEPT ![p] = @ + n]
           /\ UNCHANGED <<mpc, call>>
     /\ UNCHANGED <<mstate, trapframe>>

\* exec loads the segments (loadseg needs their pages), then adds the stack.
Load(p) ==
  LET c == call[p] IN
  /\ mpc[p] = "load"
  /\ \/ /\ \E e \in SegEnds : uvmalloc(p, c, c.sz, e)
        /\ UNCHANGED <<used, mstate, sz, trapframe, pt, panicked>>
     \/ ExecBad(p, pt[c.t], {})
     \/ /\ uvmalloc(p, [c EXCEPT !.stack = TRUE, !.sz = RoundUp(c.sz) * PGSIZE],
                    RoundUp(c.sz) * PGSIZE, (RoundUp(c.sz) + 2) * PGSIZE)
        /\ UNCHANGED <<used, mstate, sz, trapframe, pt, panicked>>

\* The arguments fit on the stack, and the new image replaces the old; or not.
Commit(p) ==
  LET own == <<p, "proc">>
      new == call[p].t
  IN /\ mpc[p] = "commit"
     /\ \/ /\ kfree(uvmfree(TopUnmapped(pt[own]), sz[p]) \cup call[p].args,
                    freepagetableBad(pt[own], sz[p]))
           /\ pt' = [pt EXCEPT ![own] = pt[new], ![new] = NoTable]
           /\ sz' = [sz EXCEPT ![p] = call[p].sz]
           /\ Return(p)
           /\ UNCHANGED <<mstate, trapframe>>
        \/ ExecBad(p, pt[new], {})

\* exit leaves all memory to the parent's wait, which frees it. (Who is whose
\* parent is Proc's; the first process never exits.)
ExitMem(p) ==
  /\ Live(p) /\ p # 1
  /\ mstate' = [mstate EXCEPT ![p] = "zombie"]
  /\ UNCHANGED <<used, sz, trapframe, pt, mpc, call, panicked>>
WaitMem(p, z) ==
  /\ Live(p) /\ mstate[z] = "zombie"
  /\ freeproc(p, z, pt[<<z, "proc">>], {})

-------------------------------------------------------------------------------
\* Access to user memory through page table x, page by page: walkaddr, the loop
\* of copyout and copyin, and of copyinstr. The result is the physical bytes
\* reached, in order, and whether the call succeeds. Addresses are in units.
walkaddr(x, va) == IF va \div PGSIZE \in x.user THEN x.leaf[va \div PGSIZE] ELSE NoPage
Bytes(g, va, n) == [i \in 1..n |-> <<g, (va % PGSIZE) + i - 1>>]
InPage_Whole(va, len) == Min({PGSIZE, len})
InPage(va, len) == Min({PGSIZE - (va % PGSIZE), len})

copyout(x, dstva, len) ==
  LET copy[l \in 0..len] ==
        LET va == dstva + len - l
            n == InPage(va, l)
            g == walkaddr(x, va)
        IN  IF l = 0 THEN [ok |-> TRUE, bytes |-> <<>>]
            ELSE IF g = NoPage THEN [ok |-> FALSE, bytes |-> <<>>]
            ELSE [copy[l - n] EXCEPT !.bytes = Bytes(g, va, n) \o @]
  IN  copy[len]
copyin(x, srcva, len) == copyout(x, srcva, len)

\* nul is the address of the first '\0' from srcva on.
copyinstr(x, srcva, max, nul) ==
  LET copy[m \in 0..max] ==
        LET va == srcva + max - m
            n == InPage(va, m)
            g == walkaddr(x, va)
        IN  IF m = 0 \/ g = NoPage THEN [ok |-> FALSE, bytes |-> <<>>]
            ELSE IF nul - va < n THEN [ok |-> TRUE, bytes |-> Bytes(g, va, nul - va + 1)]
            ELSE [copy[m - n] EXCEPT !.bytes = Bytes(g, va, n) \o @]
  IN  copy[max]

\* fetchaddr reads a word of w units, inside p->sz.
fetchaddr(p, addr, w) ==
  IF addr >= sz[p] \/ addr + w > sz[p] THEN FALSE
  ELSE copyin(pt[<<p, "proc">>], addr, w).ok

MemNext == \E p \in Slots :
          \/ ForkMem(p) \/ Exec(p) \/ ExitMem(p)
          \/ \E n \in Deltas : growproc(p, n)
          \/ \E z \in Slots : WaitMem(p, z)
          \/ allocproc(p) \/ sys_exec(p) \/ uvmcreate(p) \/ proc_pagetable(p)
          \/ kallocMem(p) \/ mapMem(p) \/ fillFails(p) \/ fillDone(p)
          \/ Load(p) \/ Commit(p)

MemSpec == MemInit /\ [][MemNext]_memvars
-------------------------------------------------------------------------------
(* Properties *)

\* The places that own a page: p->trapframe, a page-table node, a user page of
\* a page table, and the page or the arguments a call has in hand.
UserVAs == VAs \ {TRAMPOLINE, TRAPFRAME}
Owners ==
  {o \in {<<<<"trapframe", s>>, trapframe[s]>> : s \in Slots}
         \cup {<<<<"mem", s>>, call[s].mem>> : s \in Slots}
         \cup UNION {{<<<<"arg", s>>, g>> : g \in call[s].args} : s \in Slots}
         \cup {<<<<"node", t, n>>, pt[t].page[n]>> : t \in Tables, n \in Nodes}
         \cup {<<<<"leaf", t, va>>, pt[t].leaf[va]>> : t \in Tables, va \in UserVAs} :
     o[2] # NoPage}

\* Every page is on the free list or has exactly one owner: none is leaked by a
\* failure path, freed twice, or shared by two address spaces. And no panic of
\* vm.c is reached (remap, not mapped, freewalk: leaf, pte should exist).
PagesExact ==
  /\ {o[2] : o \in Owners} = used
  /\ Cardinality(Owners) = Cardinality(used)
  /\ ~panicked

\* Between its calls a process has exactly the pages of its size, and its own
\* trapframe under the trampoline: also after a call that failed half-way.
ImageExact ==
  \A s \in Slots : mstate[s] \in {"live", "zombie"} /\ call[s].op # "sbrk" =>
    LET x == pt[<<s, "proc">>] IN
    /\ {va \in UserVAs : x.leaf[va] # NoPage} = 0..RoundUp(sz[s]) - 1
    /\ x.leaf[TRAMPOLINE] = Tramp /\ x.leaf[TRAPFRAME] = trapframe[s]
    /\ trapframe[s] # NoPage
    /\ x.user \subseteq 0..RoundUp(sz[s]) - 1

\* The kernel's access to user memory, in every address space that is reached,
\* for every address and length (also across pages, into the guard page of the
\* stack and past the end): it succeeds exactly when every byte is in a user
\* page of the process, and reaches the bytes before the first one that is not
\* (to the end of its page), in order and no others. (Only a process's own calls
\* change its address space, so the states without a call in progress show all.)
Quiet == \A s \in Slots : mpc[s] = "user"
CopyExact ==
  Quiet => \A s \in {q \in Slots : Live(q)} : \A va \in 0..sz[s] + 1, len \in 0..2 * PGSIZE + 1 :
    LET x == pt[<<s, "proc">>]
        page(i) == (va + i - 1) \div PGSIZE
        good == {k \in 0..len : \A i \in 1..k : page(i) \in x.user}
        upto(k) == [i \in 1..k |-> <<x.leaf[page(i)], (va + i - 1) % PGSIZE>>]
        str == copyinstr(x, va, 2 * PGSIZE, va + len)
    IN /\ copyout(x, va, len) = [ok |-> len \in good, bytes |-> upto(Max(good))]
       /\ str.ok <=> len < 2 * PGSIZE /\ \A i \in 1..len + 1 : page(i) \in x.user
       /\ str.ok => str.bytes = upto(len + 1)
       /\ fetchaddr(s, va, len) <=>
            va < sz[s] /\ va + len <= sz[s] /\ len \in good

\* An address space is what the process's size says, and the kernel's copies to
\* and from it reach that and nothing else (vm.c, exec, growproc, fetchaddr).
SpacesExact == ImageExact /\ CopyExact
=============================================================================
