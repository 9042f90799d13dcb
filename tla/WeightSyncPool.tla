--------------------------- MODULE WeightSyncPool ---------------------------
(***************************************************************************)
(* What the engine pool promises a trainer about weight transfer, without  *)
(* locks, HTTP fan-outs or failures.  Engines come and go; a transfer      *)
(* group is formed over all the engines of the pool at once and is void as *)
(* soon as one joins or leaves; the weight version only moves while the    *)
(* group is exactly the pool.                                              *)
(***************************************************************************)
EXTENDS Naturals

CONSTANTS Slots,     \* the engines that can ever be registered
          Targets,   \* the weight versions a trainer may publish
          NoGroup    \* there is no valid transfer group

VARIABLES pool,      \* the engines registered now
          ring,      \* the engines of the transfer group, or NoGroup
          published  \* the version of the last completed synchronisation

pvars == <<pool, ring, published>>

PInit == pool = {} /\ ring = NoGroup /\ published = 0

(* Registering or deregistering engines voids the group.                   *)
Reshape == /\ pool' \in SUBSET Slots
           /\ ring' = NoGroup
           /\ UNCHANGED published

(* Forming a group takes in the whole pool.                                *)
Form == /\ ring' = pool
        /\ UNCHANGED <<pool, published>>

(* A synchronisation is one step, and only over a group that is the pool.  *)
Sync == /\ ring = pool
        /\ published' \in Targets
        /\ UNCHANGED <<pool, ring>>

PNext == Reshape \/ Form \/ Sync

PSpec == PInit /\ [][PNext]_pvars
=============================================================================
