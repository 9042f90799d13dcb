\* Two engines, three overlapping requests of any kind.
SPECIFICATION Spec
CONSTANTS
  Engines = {e1, e2}
  Requests = {r1, r2, r3}
  Gens = {}
  MaxVersion = 1
  MaxJoins = 2
  MaxFaults = 1
  NoOne = NoOne
SYMMETRY Symmetry
INVARIANTS
  TypeOK
  TransferGroupCoversPool
  PausedWhileUpdating
  SyncingHasOwner
PROPERTIES
  CommitLeavesPoolServing
  RollbackRestoresService
  KeepsPromise
