\* Three siblings of a group placed by stagger, by the window or
\* by both, under fair scheduling of the waits.
SPECIFICATION FairSpec
CONSTANTS
  a = a
  b = b
  c = c
  g1 = g1
  NoOne = NoOne
  Replicas = {0, 1}
  Rids = {a, b, c}
  Groups = {g1}
  GroupOf <- OneGroup
  Turns = 1
  Sizes = {1}
  Works = {1, 2}
  Charges = {0}
  Budget = 1
  Wave1 = 0
  Options <- WaveOptions
  MaxFailures = 1
CHECK_DEADLOCK FALSE
INVARIANTS
  FollowersWaitForLeader
  NobodyMissesTheWindow
PROPERTIES
  AcquireReturns
