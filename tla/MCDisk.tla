-------------------------------- MODULE MCDisk --------------------------------
(***************************************************************************)
(* The disk driver and the buffer cache, two models that meet in           *)
(* DiskService; in a behaviour one of them moves. Driver: three callers,   *)
(* descriptors for two requests and one left over. Cache: two buffers for  *)
(* three blocks, one of which may be pinned. The symmetries of the driver  *)
(* (its callers, its contents) serve for the cache's blocks and users.     *)
(***************************************************************************)
EXTENDS VirtioDisk, Bio, TLC

VARIABLE part
MCInit ==
  /\ part \in {"driver", "cache"} /\ Init /\ BioInit
  /\ part = "driver" => \A k \in Blocks, b \in Bufs : medium[k] = 0 /\ bdata[b] = 0
  /\ part = "cache" => \A p, q \in Procs : disk[p] = disk[q]
MCNext == \/ part = "driver" /\ Next /\ UNCHANGED <<part, biovars>>
          \/ part = "cache" /\ BioNext /\ UNCHANGED <<part, vars>>
MCSpec == MCInit /\ [][MCNext]_<<part, vars, biovars>>

Symmetry == Permutations(Procs) \cup Permutations(Values)
=============================================================================
