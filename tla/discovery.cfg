\* Two pods, two addresses that may change hands, and outages of the engines.
SPECIFICATION FairSpec
CONSTANTS
  Pods = {p1, p2}
  Addrs = {a1, a2}
  NoAddr = NoAddr
  MaxJoins = 3
  MaxChanges = 3
  MaxOutages = 2
INVARIANTS
  TypeOK
  ReadyWasProbed
  WatcherAndPoolAgree
PROPERTIES
  PoolFollowsCluster
  HealthDecidesRotation
