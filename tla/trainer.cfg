\* Two engines, a model of two parameters, three training steps; syncs of
\* the live parameters and of copies.  The run ends after the last step.
SPECIFICATION FairSpec
CONSTANTS
  e1 = e1
  e2 = e2
  Engines = {e1, e2}
  Layers = 2
  MaxSteps = 3
  Live = Live
  Copied = Copied
  Lost = Lost
  Loads <- BothLoads
CHECK_DEADLOCK FALSE
INVARIANTS
  TypeOK
  
  OnPolicyRollouts
PROPERTIES
  SyncEnds
