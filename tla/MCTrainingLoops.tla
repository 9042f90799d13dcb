-------------------------- MODULE MCTrainingLoops --------------------------
(* Two engines and the programs of the repository, for TLC.                *)
EXTENDS TrainingLoops

CONSTANTS e1, e2

AllPrograms == {Ppo(1), Grpo(2), Deployed, Managed}
=============================================================================
