--------------------------- MODULE MCTrainerSync ---------------------------
(* Two engines and the ways to hand over weights, for TLC.                 *)
EXTENDS TrainerSync

CONSTANTS e1, e2

BothLoads == {Live, Copied}
=============================================================================
