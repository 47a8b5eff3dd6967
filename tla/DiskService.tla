------------------------------ MODULE DiskService ------------------------------
(***************************************************************************)
(* What virtio_disk_rw(b, write) promises bread and bwrite: between the    *)
(* call and the return, and only then, the block is copied once between    *)
(* the buffer and the medium.                                              *)
(***************************************************************************)
CONSTANTS Procs, Bufs, Blocks, NoReq

VARIABLES req,      \* req[p]: the call that p is in, or NoReq
          data,     \* contents of each buffer
          disk      \* contents of each block

\* The caller has just put what it likes in its buffer.
Call(p, b, k, w) ==
  /\ req[p] = NoReq
  /\ req' = [req EXCEPT ![p] = [buf |-> b, blk |-> k, write |-> w, done |-> FALSE]]
  /\ \A c \in Bufs \ {b} : data'[c] = data[c]
  /\ UNCHANGED disk

Serve(p) ==
  /\ req[p] # NoReq /\ ~req[p].done
  /\ req' = [req EXCEPT ![p].done = TRUE]
  /\ IF req[p].write
     THEN disk' = [disk EXCEPT ![req[p].blk] = data[req[p].buf]] /\ UNCHANGED data
     ELSE data' = [data EXCEPT ![req[p].buf] = disk[req[p].blk]] /\ UNCHANGED disk

Return(p) ==
  /\ req[p] # NoReq /\ req[p].done
  /\ req' = [req EXCEPT ![p] = NoReq]
  /\ UNCHANGED <<data, disk>>

Next == \E p \in Procs :
          \/ Serve(p)
          \/ Return(p)
          \/ /\ req[p] = NoReq
             /\ \E b \in Bufs, k \in Blocks, w \in BOOLEAN : Call(p, b, k, w)

Init == req = [p \in Procs |-> NoReq]

Spec == Init /\ [][Next]_<<req, data, disk>>
=============================================================================
