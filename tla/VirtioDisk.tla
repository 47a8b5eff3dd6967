------------------------------ MODULE VirtioDisk ------------------------------
(***************************************************************************)
(* The virtio disk driver (kernel/virtio_disk.c) and the device behind it. *)
(*                                                                         *)
(* A process that calls virtio_disk_rw holds the lock of the buffer it     *)
(* passes, the only buffer for its block (CacheConsistent of Bio), so      *)
(* buffers and blocks are named by the process that uses them: data[p] and *)
(* bdisk[p] are fields of p's struct buf, disk[p] is its block.            *)
(* pc[p] says where p is: "idle"; "rw" about to take vdisk_lock; "nodesc"  *)
(* asleep on &disk.free[0]; "iowait" asleep on the buffer; "iodone" woken  *)
(* from that sleep.                                                        *)
(* The process parts hold vdisk_lock from end to end, so each is one step; *)
(* the interrupt handler holds it for several steps (handling), because    *)
(* the device, which takes no lock, adds to the used ring meanwhile.       *)
(*                                                                         *)
(* Ring entries that have been consumed are forgotten (NoDesc).            *)
(***************************************************************************)
EXTENDS Integers, FiniteSets, Functions

CONSTANTS Procs,      \* processes that call the driver
          Values,     \* contents of a block
          NUM,        \* descriptors, and entries of each ring
          UINT16,     \* 2^16: the rings' idx fields count modulo this
          NoProc, NoDesc, NoReq

ASSUME RingAssumption == /\ NUM \in Nat \ {0}
                         /\ UINT16 \in Nat
                         /\ UINT16 % NUM = 0
                         /\ UINT16 > NUM

Descs == 0..(NUM - 1)

VARIABLES pc, wr,                    \* the caller: place, write?
          data, bdisk,               \* fields of its struct buf
          free, next,                \* disk.free, desc[].next with its flag
          head,                      \* idx[0] of the caller
          ops, info, status,         \* per head of chain
          availRing, availIdx,       \* disk.avail
          usedRing, usedIdx,         \* disk.used
          used_idx, handling,        \* the driver's position; handler runs
          devIdx, inflight, irq,     \* the device: position, requests, line
          disk,                      \* contents of the medium
          panicked

queueVars  == <<free, next, head, ops, info, availIdx>>
ringVars   == <<availRing, usedRing, usedIdx, used_idx>>
deviceVars == <<devIdx, inflight, irq, disk>>
vars == <<pc, wr, data, bdisk, queueVars, ringVars, deviceVars, status,
          handling, panicked>>

NoRequest == [write |-> FALSE, sector |-> NoProc, addr |-> NoProc]

\* virtio_disk_init: zeroed rings, every descriptor free.
Init ==
  /\ pc = [p \in Procs |-> "idle"]
  /\ wr = [p \in Procs |-> FALSE]
  /\ disk \in [Procs -> Values]
  /\ data = disk
  /\ bdisk = [p \in Procs |-> FALSE]
  /\ panicked = FALSE
  /\ free = Descs
  /\ next = [i \in Descs |-> NoDesc]
  /\ head = [p \in Procs |-> NoDesc]
  /\ ops = [i \in Descs |-> NoRequest]
  /\ info = [i \in Descs |-> NoProc]
  /\ status = [i \in Descs |-> 0]
  /\ availRing = [i \in Descs |-> NoDesc]
  /\ usedRing = [i \in Descs |-> NoDesc]
  /\ availIdx = 0 /\ usedIdx = 0 /\ used_idx = 0 /\ devIdx = 0
  /\ inflight = {}
  /\ irq = FALSE
  /\ handling = FALSE

\* alloc_desc takes the lowest free descriptor, so three calls in a row take
\* the three lowest.
Lowest(S) == CHOOSE i \in S : \A j \in S : i <= j
alloc3_desc == LET a == Lowest(free)
                   b == Lowest(free \ {a})
               IN  <<a, b, Lowest(free \ {a, b})>>

\* wakeup(&disk.free[0]), as a function of the callers' places.
WakeNoDesc_Not(pcs) == pcs
WakeNoDesc(pcs) == [q \in Procs |-> IF pcs[q] = "nodesc" THEN "rw" ELSE pcs[q]]

\* bread or bwrite calls the driver with v in the buffer: what bwrite is to
\* write, or what the buffer last held.
Call(p, w, v) ==
  /\ pc[p] = "idle"
  /\ pc' = [pc EXCEPT ![p] = "rw"]
  /\ wr' = [wr EXCEPT ![p] = w]
  /\ data' = [data EXCEPT ![p] = v]
  /\ UNCHANGED <<bdisk, queueVars, ringVars, deviceVars, status, handling, panicked>>

\* What the driver leaves in the status byte: the device writes 0 on success.
Pending_Zero == 0
Pending == 255

\* virtio_disk_rw down to its first sleep, with three descriptors available:
\* format the chain, record the buffer, publish the head, sleep on b.
Submit(p) ==
  LET idx == alloc3_desc
  IN /\ pc[p] = "rw" /\ ~handling
     /\ Cardinality(free) >= 3
     /\ free' = free \ Range(idx)
     /\ next' = [next EXCEPT ![idx[1]] = idx[2], ![idx[2]] = idx[3],
                             ![idx[3]] = NoDesc]
     /\ ops' = [ops EXCEPT ![idx[1]] = [write |-> wr[p], sector |-> p, addr |-> p]]
     /\ status' = [status EXCEPT ![idx[1]] = Pending]
     /\ bdisk' = [bdisk EXCEPT ![p] = TRUE]
     /\ info' = [info EXCEPT ![idx[1]] = p]
     /\ availRing' = [availRing EXCEPT ![availIdx % NUM] = idx[1]]
     /\ availIdx' = (availIdx + 1) % UINT16
     /\ head' = [head EXCEPT ![p] = idx[1]]
     /\ pc' = [pc EXCEPT ![p] = "iowait"]
     /\ UNCHANGED <<wr, data, usedRing, usedIdx, used_idx, deviceVars,
                    handling, panicked>>

\* alloc3_desc fails: the descriptors it had got are freed again, and each
\* free_desc wakes the sleepers, before the caller itself goes to sleep.
NoDescriptors(p) ==
  /\ pc[p] = "rw" /\ ~handling
  /\ Cardinality(free) < 3
  /\ pc' = [(IF free = {} THEN pc ELSE WakeNoDesc(pc)) EXCEPT ![p] = "nodesc"]
  /\ UNCHANGED <<wr, data, bdisk, queueVars, ringVars, deviceVars,
                 status, handling, panicked>>

\* free_chain follows next while the NEXT flag is set.
Chain(i) == LET c[j \in Descs] == IF next[j] = NoDesc THEN {j}
                                  ELSE {j} \cup c[next[j]]
            IN  c[i]

\* The rest of virtio_disk_rw, once b->disk is 0. A descriptor that is free
\* already is free_desc's panic. The request itself is reachable only through
\* the descriptors that free_desc clears, and the argument ends with the call.
Finish(p) ==
  /\ pc[p] = "iodone" /\ ~handling
  /\ ~bdisk[p]
  /\ LET ds == Chain(head[p]) IN
       /\ info' = [info EXCEPT ![head[p]] = NoProc]
       /\ panicked' = (panicked \/ ds \cap free # {})
       /\ free' = free \cup ds
       /\ next' = [i \in Descs |-> IF i \in ds THEN NoDesc ELSE next[i]]
       /\ ops' = [ops EXCEPT ![head[p]] = NoRequest]
  /\ head' = [head EXCEPT ![p] = NoDesc]
  /\ wr' = [wr EXCEPT ![p] = FALSE]
  /\ pc' = [WakeNoDesc(pc) EXCEPT ![p] = "idle"]
  /\ UNCHANGED <<data, bdisk, availIdx, ringVars, deviceVars, status, handling>>

\* virtio_disk_intr takes vdisk_lock and acknowledges the interrupt.
IntrAck ==
  /\ irq /\ ~handling
  /\ irq' = FALSE
  /\ handling' = TRUE
  /\ UNCHANGED <<pc, wr, data, bdisk, queueVars, ringVars, devIdx,
                 inflight, disk, status, panicked>>

\* One turn of its loop: check the status, clear b->disk, wake the caller.
IntrOne ==
  LET id == usedRing[used_idx % NUM]
      b  == info[id]
  IN /\ handling /\ used_idx # usedIdx
     /\ IF id = NoDesc \/ status[id] # 0 \/ b = NoProc
        THEN panicked' = TRUE /\ UNCHANGED <<pc, bdisk>>
        ELSE /\ bdisk' = [bdisk EXCEPT ![b] = FALSE]
             /\ pc' = [pc EXCEPT ![b] = IF @ = "iowait" THEN "iodone" ELSE @]
             /\ UNCHANGED panicked
     /\ usedRing' = [usedRing EXCEPT ![used_idx % NUM] = NoDesc]
     /\ used_idx' = (used_idx + 1) % UINT16
     /\ UNCHANGED <<wr, data, queueVars, availRing, usedIdx, deviceVars,
                    status, handling>>

IntrEnd ==
  /\ handling /\ used_idx = usedIdx
  /\ handling' = FALSE
  /\ UNCHANGED <<pc, wr, data, bdisk, queueVars, ringVars, deviceVars,
                 status, panicked>>

\* The device. It reads the avail ring up to avail->idx whenever it looks, and
\* completes what it has read in any order: transfer, status, used ring,
\* interrupt.
Fetched == inflight \cup {availRing[(devIdx + i) % NUM] :
                            i \in 0..(((availIdx - devIdx) % UINT16) - 1)}
DevComplete ==
  /\ devIdx' = availIdx
  /\ availRing' = [i \in Descs |-> NoDesc]
  /\ \E h \in Fetched :
       /\ inflight' = Fetched \ {h}
       /\ IF ops[h].write
          THEN /\ disk' = [disk EXCEPT ![ops[h].sector] = data[ops[h].addr]]
               /\ UNCHANGED data
          ELSE /\ data' = [data EXCEPT ![ops[h].addr] = disk[ops[h].sector]]
               /\ UNCHANGED disk
       /\ status' = [status EXCEPT ![h] = 0]
       /\ usedRing' = [usedRing EXCEPT ![usedIdx % NUM] = h]
       /\ usedIdx' = (usedIdx + 1) % UINT16
       /\ irq' = TRUE
  /\ UNCHANGED <<pc, wr, bdisk, queueVars, used_idx, handling, panicked>>

Client(p) == \E w \in BOOLEAN, v \in Values : Call(p, w, v)
InDriver(p) == Submit(p) \/ NoDescriptors(p) \/ Finish(p)
Interrupt == IntrAck \/ IntrOne \/ IntrEnd
Next == Interrupt \/ DevComplete \/ \E p \in Procs : Client(p) \/ InDriver(p)

Spec == Init /\ [][Next]_vars
-------------------------------------------------------------------------------
(* Properties *)

Submitted(p) == pc[p] \in {"iowait", "iodone"}
Active == {p \in Procs : Submitted(p)}
Filled(ring) == {i \in Descs : ring[i] # NoDesc}

\* Every descriptor is free or in the chain of exactly one caller, chains have
\* three, the number of entries in each ring is what its two indices say modulo
\* 2^16, a caller's request is in exactly one place (avail ring, device, used
\* ring) until the handler has seen it, and free_desc and virtio_disk_intr do
\* not panic.
DescriptorsExact ==
  LET places(h) == Cardinality({i \in Descs : availRing[i] = h})
                   + Cardinality({i \in Descs : usedRing[i] = h})
                   + (IF h \in inflight THEN 1 ELSE 0)
  IN /\ Descs \ free = UNION {Chain(head[p]) : p \in Active}
     /\ Cardinality(free) + 3 * Cardinality(Active) = NUM
     /\ \A p \in Active : /\ info[head[p]] = p
                          /\ places(head[p]) = IF pc[p] = "iowait" THEN 1 ELSE 0
     /\ Cardinality(Filled(availRing)) = (availIdx - devIdx) % UINT16
     /\ Cardinality(Filled(usedRing)) = (usedIdx - used_idx) % UINT16
     /\ ~panicked

\* The driver implements DiskService: a call's transfer happens once, for its
\* own buffer and block, before the call returns, however the device reorders.
Service == INSTANCE DiskService WITH
  Bufs <- Procs, Blocks <- Procs,
  req <- [p \in Procs |->
            IF pc[p] = "idle" THEN NoReq
            ELSE [buf |-> p, blk |-> p, write |-> wr[p],
                  done |-> Submitted(p) /\ status[head[p]] = 0]]
IsDiskService == Service!Spec

\* Nobody sleeps for nothing: the request of a caller asleep on its buffer has
\* not been seen by the handler, and once the device has answered any request
\* the interrupt is pending or being handled; a caller asleep for descriptors
\* lacks them, and some other call will free three when it ends.
SleepersServed ==
  /\ \A p \in Procs : pc[p] = "iowait" => bdisk[p]
  /\ used_idx # usedIdx => irq \/ handling
  /\ \A p \in Procs : pc[p] = "nodesc" => Cardinality(free) < 3 /\ Active # {}

\* The descriptors, the rings and the sleeping callers agree (virtio_disk_rw,
\* virtio_disk_intr).
QueueExact == DescriptorsExact /\ SleepersServed
=============================================================================
