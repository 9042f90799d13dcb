\* Three trajectories of two turns compete for two replicas.  The first is
\* admitted by the wave, the others by the gate; a context may shrink.
SPECIFICATION Spec
CONSTANTS
  a = a
  b = b
  c = c
  g1 = g1
  NoOne = NoOne
  Replicas = {0, 1}
  Rids = {a, b, c}
  Groups = {g1}
  GroupOf <- OneGroup
  Turns = 2
  Sizes = {1, 2}
  Works = {1}
  Charges <- SignedCharges
  Budget = 3
  Wave1 = 1
  Options <- GateOptions
  MaxFailures = 1
SYMMETRY Trajectories
CHECK_DEADLOCK FALSE
INVARIANTS
  TypeOK
  NeverUndercounts
  GrowingContextsBalance
  CheckedResidentsFit
