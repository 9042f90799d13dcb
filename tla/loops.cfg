\* Two runs of any of the four programs: two engines, batches of three prompts
\* on two threads, two steps, and one engine replaced or controller restarted.
SPECIFICATION FairSpec
CONSTANTS
  e1 = e1
  e2 = e2
  Engines = {e1, e2}
  Programs <- AllPrograms
  BatchSize = 3
  Workers = 2
  MaxSteps = 2
  MaxLives = 2
  MaxFaults = 1
  Scores = {0, 10}
  Gamma = 2
  Lam = 3
  Lost = Lost
CHECK_DEADLOCK FALSE
INVARIANTS
  TypeOK
  LearnsFromItsRollouts
  AdvantagesAreGae
PROPERTIES
  VersionsAdvance
  ProgramEnds
