\* No generate call fails, yet a trajectory that ends leaves tokens booked.
SPECIFICATION Spec
CONSTANTS
  a = a
  b = b
  c = c
  g1 = g1
  NoOne = NoOne
  Replicas = {0, 1}
  Rids = {a}
  Groups = {g1}
  GroupOf <- OneGroup
  Turns = 2
  Sizes = {1, 2}
  Works = {1}
  Charges <- SignedCharges
  Budget = 3
  Wave1 = 1
  Options <- GateOptions
  MaxFailures = 0
CHECK_DEADLOCK FALSE
INVARIANTS
  LedgerDrains
