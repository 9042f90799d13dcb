--------------------------- MODULE EngineDiscovery ---------------------------
(***************************************************************************)
(* How engines enter and leave the rotation of the rollout controller: the *)
(* pod watcher (pkg/discovery/pod_watcher.go) registers and deregisters    *)
(* them, the health loop of the pool (pkg/pool/engine_pool.go) decides     *)
(* which of them PickEngine may return.                                    *)
(*                                                                         *)
(* The watcher is one goroutine fed by an informer; it holds its own mutex *)
(* while it calls the pool, and each call waits for the pool's lock.  The  *)
(* health loop takes a snapshot of pointers to engineState objects, probes *)
(* them without the lock, and writes each result back under it: by then    *)
(* the object may belong to an engine that left, or came back as another   *)
(* object.  A weight synchronisation may hold the pool's lock at any time. *)
(***************************************************************************)
EXTENDS Naturals, FiniteSets

CONSTANTS
  Pods,        \* pod UIDs, the ids of the engines
  Addrs,       \* pod addresses; an address may be reused
  NoAddr,      \* not Ready, or deleted, or not registered
  MaxJoins,    \* bound: registrations of one id
  MaxChanges,  \* bound: changes of pod state
  MaxOutages   \* bound: changes of whether an address answers /health

ASSUME DiscoveryAssumption ==
  /\ NoAddr \notin Addrs \cup Pods
  /\ MaxJoins \in Nat /\ MaxChanges \in Nat /\ MaxOutages \in Nat

VARIABLES
  pods,        \* the cluster: the address at which a pod is Ready
  changes,     \* changes of pods so far
  up,          \* the addresses that answer GET /health
  outages,     \* changes of up so far
  seen,        \* the pod state the informer delivered last
  registered,  \* PodWatcher.registered
  call,        \* the watcher's position inside sync or markGone
  syncing,     \* a weight synchronisation holds EnginePool.mu
  member,      \* EnginePool.engines: the number of the id's object, or 0
  joins,       \* objects created for an id so far
  object,      \* the engineState objects, those that left included
  round,       \* the checks of the current health round that are not written back
  probed       \* history: objects whose address answered a probe

cluster == <<pods, changes, up, outages>>
watcher == <<seen, registered, call>>
pool == <<member, joins, object>>
health == <<round, probed>>
vars == <<cluster, watcher, syncing, pool, health>>

Objects == Pods \X (1..MaxJoins)
EngineObject == [addr : Addrs \cup {NoAddr}, ready : BOOLEAN, fails : 0..3]
Check == [object : Objects, result : {"asked", "ok", "failed"}]
Idle == [step |-> "idle", pod |-> NoAddr, addr |-> NoAddr]

Init ==
  /\ pods = [u \in Pods |-> NoAddr] /\ changes = 0
  /\ up = Addrs /\ outages = 0
  /\ seen = [u \in Pods |-> NoAddr]
  /\ registered = [u \in Pods |-> NoAddr]
  /\ call = Idle
  /\ syncing = FALSE
  /\ member = [u \in Pods |-> 0] /\ joins = [u \in Pods |-> 0]
  /\ object = [o \in Objects |-> [addr |-> NoAddr, ready |-> FALSE, fails |-> 0]]
  /\ round = {} /\ probed = {}

Members == {<<u, member[u]>> : u \in {x \in Pods : member[x] > 0}}

-----------------------------------------------------------------------------
(* The cluster, and the weight synchronisations that hold the lock.        *)

PodChanges(u, a) ==
  /\ changes < MaxChanges /\ changes' = changes + 1
  /\ pods[u] # a
  /\ a # NoAddr => \A v \in Pods \ {u} : pods[v] # a
  /\ pods' = [pods EXCEPT ![u] = a]
  /\ UNCHANGED <<up, outages, watcher, syncing, pool, health>>

Outage(a) ==
  /\ outages < MaxOutages /\ outages' = outages + 1
  /\ up' = IF a \in up THEN up \ {a} ELSE up \cup {a}
  /\ UNCHANGED <<pods, changes, watcher, syncing, pool, health>>

SyncLocks == ~syncing /\ syncing' = TRUE /\ UNCHANGED <<cluster, watcher, pool, health>>
SyncUnlocks == syncing /\ syncing' = FALSE /\ UNCHANGED <<cluster, watcher, pool, health>>

-----------------------------------------------------------------------------
(* The watcher.                                                            *)

(* sync and markGone up to their first callback.  The informer may have    *)
(* skipped states of the pod, but the last one is delivered in the end.    *)
(* Faulty variant: a pod that is gone stays in the map.                    *)
DeliverKeepsEntry(u) ==
  /\ call = Idle /\ seen[u] # pods[u]
  /\ seen' = [seen EXCEPT ![u] = pods[u]]
  /\ IF registered[u] = pods[u]
     THEN UNCHANGED <<registered, call>>
     ELSE /\ registered' = [registered EXCEPT ![u] = IF pods[u] = NoAddr THEN @ ELSE pods[u]]
          /\ call' = [step |-> IF registered[u] = NoAddr THEN "ready" ELSE "gone",
                      pod |-> u, addr |-> pods[u]]
  /\ UNCHANGED <<cluster, syncing, pool, health>>

Deliver(u) ==
  /\ call = Idle /\ seen[u] # pods[u]
  /\ seen' = [seen EXCEPT ![u] = pods[u]]
  /\ IF registered[u] = pods[u]
     THEN UNCHANGED <<registered, call>>
     ELSE /\ registered' = [registered EXCEPT ![u] = pods[u]]
          /\ call' = [step |-> IF registered[u] = NoAddr THEN "ready" ELSE "gone",
                      pod |-> u, addr |-> pods[u]]
  /\ UNCHANGED <<cluster, syncing, pool, health>>

(* OnGone: RemoveEngine.  After a change of address OnReady follows.       *)
OnGone ==
  /\ call.step = "gone" /\ ~syncing
  /\ member' = [member EXCEPT ![call.pod] = 0]
  /\ call' = IF call.addr = NoAddr THEN Idle ELSE [call EXCEPT !.step = "ready"]
  /\ UNCHANGED <<cluster, seen, registered, syncing, joins, object, health>>

(* Faulty variant: the handler never lets go of the watcher.               *)
OnReadyNeverReturns ==
  LET u == call.pod
      n == joins[u] + 1
  IN /\ call.step = "ready" /\ ~syncing
     /\ n <= MaxJoins
     /\ joins' = [joins EXCEPT ![u] = n]
     /\ member' = [member EXCEPT ![u] = n]
     /\ object' = [object EXCEPT ![<<u, n>>] = [addr |-> call.addr, ready |-> FALSE, fails |-> 0]]
     /\ call' = [call EXCEPT !.step = "idle"]
     /\ UNCHANGED <<cluster, seen, registered, syncing, health>>

(* OnReady: AddEngine creates a new engineState.                           *)
OnReady ==
  LET u == call.pod
      n == joins[u] + 1
  IN /\ call.step = "ready" /\ ~syncing
     /\ n <= MaxJoins
     /\ joins' = [joins EXCEPT ![u] = n]
     /\ member' = [member EXCEPT ![u] = n]
     /\ object' = [object EXCEPT ![<<u, n>>] = [addr |-> call.addr, ready |-> FALSE, fails |-> 0]]
     /\ call' = Idle
     /\ UNCHANGED <<cluster, seen, registered, syncing, health>>

-----------------------------------------------------------------------------
(* The health loop.                                                        *)

(* The snapshot of runHealthChecks; the round before has been waited for.  *)
StartRound ==
  /\ round = {} /\ ~syncing
  /\ Members # {}
  /\ round' = {[object |-> o, result |-> "asked"] : o \in Members}
  /\ UNCHANGED <<cluster, watcher, syncing, pool, probed>>

(* GET /health at the address the object was created with.                 *)
Probe(c) ==
  LET ok == object[c.object].addr \in up
  IN /\ c.result = "asked"
     /\ round' = (round \ {c}) \cup {[c EXCEPT !.result = IF ok THEN "ok" ELSE "failed"]}
     /\ probed' = IF ok THEN probed \cup {c.object} ELSE probed
     /\ UNCHANGED <<cluster, watcher, syncing, pool>>

Worse(fails) == IF fails < 3 THEN fails + 1 ELSE 3

(* Faulty variant: a failed check is only counted.                         *)
JudgedWithoutDemotion(s, result) ==
  IF result = "ok"
  THEN [addr |-> s.addr, ready |-> TRUE, fails |-> 0]
  ELSE [s EXCEPT !.fails = Worse(@)]

(* What a result makes of the object; failures beyond the third count no   *)
(* further.                                                                *)
Judged(s, result) ==
  IF result = "ok"
  THEN [addr |-> s.addr, ready |-> TRUE, fails |-> 0]
  ELSE [s EXCEPT !.fails = Worse(@), !.ready = @ /\ Worse(s.fails) < 3]

(* Faulty variant: the result is written to the object the id has now.     *)
WriteBackById(c) ==
  LET u == c.object[1]
      now == IF member[u] > 0 THEN <<u, member[u]>> ELSE c.object
  IN /\ c.result # "asked" /\ ~syncing
     /\ object' = [object EXCEPT ![now] = Judged(@, c.result)]
     /\ round' = round \ {c}
     /\ UNCHANGED <<cluster, watcher, syncing, member, joins, probed>>

WriteBack(c) ==
  /\ c.result # "asked" /\ ~syncing
  /\ object' = [object EXCEPT ![c.object] = Judged(@, c.result)]
  /\ round' = round \ {c}
  /\ UNCHANGED <<cluster, watcher, syncing, member, joins, probed>>

-----------------------------------------------------------------------------
Next ==
  \/ \E u \in Pods :
       \/ \E a \in Addrs \cup {NoAddr} : PodChanges(u, a)
       \/ Deliver(u)
  \/ \E a \in Addrs : Outage(a)
  \/ SyncLocks \/ SyncUnlocks
  \/ OnGone \/ OnReady
  \/ StartRound
  \/ \E c \in round : Probe(c) \/ WriteBack(c)

Spec == Init /\ [][Next]_vars

(* The informer delivers, probes time out after healthCheckTimeout, the    *)
(* ticker ticks, fan-outs end.  The pool's lock is granted in turn, hence  *)
(* strong fairness for what waits for it.  A round has finitely many       *)
(* checks and the next one waits for all of them.                          *)
Fairness ==
  /\ WF_vars(SyncUnlocks)
  /\ \A u \in Pods : WF_vars(Deliver(u))
  /\ SF_vars(OnGone \/ OnReady)
  /\ SF_vars(StartRound)
  /\ WF_vars(\E c \in round : Probe(c))
  /\ SF_vars(\E c \in round : WriteBack(c))

FairSpec == Spec /\ Fairness

-----------------------------------------------------------------------------
(* Properties.                                                             *)

(* Every variable has its type.                                            *)
TypeOK ==
  /\ pods \in [Pods -> Addrs \cup {NoAddr}] /\ changes \in 0..MaxChanges
  /\ up \subseteq Addrs /\ outages \in 0..MaxOutages
  /\ seen \in [Pods -> Addrs \cup {NoAddr}]
  /\ registered \in [Pods -> Addrs \cup {NoAddr}]
  /\ call \in {Idle} \cup [step : {"gone", "ready"}, pod : Pods, addr : Addrs \cup {NoAddr}]
  /\ syncing \in BOOLEAN
  /\ member \in [Pods -> 0..MaxJoins] /\ joins \in [Pods -> 0..MaxJoins]
  /\ object \in [Objects -> EngineObject]
  /\ round \subseteq Check /\ probed \subseteq Objects

AddrOf(u) == IF member[u] = 0 THEN NoAddr ELSE object[<<u, member[u]>>].addr
Ready(u) == member[u] > 0 /\ object[<<u, member[u]>>].ready

(* An engine that PickEngine may return answered a probe as the engine it  *)
(* is now, at its present address: a result obtained for an engine of the  *)
(* same id that has left is never credited to its successor.               *)
ReadyWasProbed == \A u \in Pods : Ready(u) => <<u, member[u]>> \in probed

(* Whenever the watcher is not inside a callback, the pool holds exactly   *)
(* the engines the watcher believes it registered, at their addresses.     *)
WatcherAndPoolAgree == call = Idle => \A u \in Pods : AddrOf(u) = registered[u]

(* "Pods matching the selector are automatically registered when they      *)
(* become Ready and removed when deleted or NotReady" (README.md:213): the *)
(* pool converges to the cluster once the cluster is stable.               *)
PoolFollowsCluster == <>[](\A u \in Pods : AddrOf(u) = pods[u])

(* An engine whose process has stopped answering leaves the rotation, one  *)
(* that answers enters it, unless it leaves the pool.                      *)
HealthDecidesRotation ==
  \A u \in Pods :
    /\ <>[](member[u] > 0 /\ AddrOf(u) \notin up) => <>[]~Ready(u)
    /\ <>[](member[u] > 0 /\ AddrOf(u) \in up) => <>[]Ready(u)
=============================================================================
