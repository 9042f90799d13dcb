-------------------------- MODULE MCAdmissionLedger --------------------------
(* Small ledgers for TLC.                                                  *)
EXTENDS AdmissionLedger, TLC

CONSTANTS a, b, c, g1

Plain == [stagger |-> FALSE, p2p |-> FALSE, lpt |-> FALSE,
          migrate |-> FALSE, costRatio |-> 1, slack |-> -1]

(* Gated admission: migrating when full, with and without cheap moves, and *)
(* rebalancing.                                                            *)
GateOptions ==
  {[Plain EXCEPT !.migrate = TRUE],
   [Plain EXCEPT !.migrate = TRUE, !.p2p = TRUE, !.costRatio = 0],
   [Plain EXCEPT !.migrate = TRUE, !.slack = 1]}

(* The gate alone, and the placements that go around it.                   *)
WaveOptions ==
  {Plain,
   [Plain EXCEPT !.lpt = TRUE],
   [Plain EXCEPT !.stagger = TRUE, !.p2p = TRUE],
   [Plain EXCEPT !.stagger = TRUE, !.p2p = TRUE, !.lpt = TRUE]}

SignedCharges == {-1, 1}

OneGroup == [rid \in Rids |-> g1]

Trajectories == Permutations(Rids)
=============================================================================
