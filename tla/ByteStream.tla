----------------------------- MODULE ByteStream -----------------------------
(***************************************************************************)
(* What a pipe promises: a bounded first-in first-out queue of bytes with  *)
(* two ends that are closed once each.                                     *)
(***************************************************************************)
EXTENDS Naturals, Sequences

CONSTANTS Bytes, Capacity

VARIABLES queue,              \* bytes written and not yet read
          last,               \* the byte read last
          canRead, canWrite   \* is the end open?

vars == <<queue, last, canRead, canWrite>>

Init == queue = <<>> /\ last \in Bytes /\ canRead = TRUE /\ canWrite = TRUE

Put(b) == /\ canRead /\ canWrite /\ Len(queue) < Capacity
          /\ queue' = Append(queue, b)
          /\ UNCHANGED <<last, canRead, canWrite>>

Get == /\ canRead /\ queue # <<>>
       /\ queue' = Tail(queue) /\ last' = Head(queue)
       /\ UNCHANGED <<canRead, canWrite>>

CloseRead == canRead /\ canRead' = FALSE /\ UNCHANGED <<queue, last, canWrite>>

CloseWrite == canWrite /\ canWrite' = FALSE /\ UNCHANGED <<queue, last, canRead>>

Next == (\E b \in Bytes : Put(b)) \/ Get \/ CloseRead \/ CloseWrite

Spec == Init /\ [][Next]_vars
=============================================================================
