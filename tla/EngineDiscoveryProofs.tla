------------------------ MODULE EngineDiscoveryProofs ------------------------
(***************************************************************************)
(* What holds of the watcher and the health loop for any number of pods,   *)
(* addresses and registrations.                                            *)
(***************************************************************************)
EXTENDS EngineDiscovery, TLAPS

(* Every object that is ready was probed, those that left the pool         *)
(* included, and so was every object that a good result is on its way to.  *)
ProbeInv ==
  /\ \A o \in Objects : object[o].ready => o \in probed
  /\ \A c \in round : c.result = "ok" => c.object \in probed

(* The one pod whose registration is under way is where the map and the    *)
(* pool may differ; the map is ahead.                                      *)
CallInv ==
  /\ \A u \in Pods : call = Idle \/ call.pod # u => AddrOf(u) = registered[u]
  /\ call # Idle => registered[call.pod] = call.addr
  /\ call.step = "ready" => call.addr # NoAddr

IInv == TypeOK /\ ProbeInv /\ CallInv

-----------------------------------------------------------------------------
(* An element of Idle's type is not a call in progress.                    *)
LEMMA CallCases ==
  ASSUME TypeOK
  PROVE  /\ call = Idle <=> call.step = "idle"
         /\ call # Idle => /\ call.pod \in Pods
                          /\ call.step \in {"gone", "ready"}
                          /\ call.addr \in Addrs \cup {NoAddr}
  BY DEF TypeOK, Idle

(* A check of the round names an object and its result.                    *)
LEMMA CheckTyped ==
  ASSUME TypeOK, NEW c \in round
  PROVE  /\ c \in Check
         /\ c.object \in Objects
         /\ object[c.object] \in EngineObject
         /\ object[c.object].addr \in Addrs \cup {NoAddr}
  BY DEF TypeOK, Check, EngineObject

(* The object an id has now is one of the objects.                         *)
LEMMA MembersAreObjects ==
  ASSUME TypeOK, NEW u \in Pods, member[u] > 0
  PROVE  <<u, member[u]>> \in Objects
  BY DiscoveryAssumption DEF TypeOK, Objects

(* Judging a result keeps the type and the address of the object, and      *)
(* makes it ready only on a good one.                                      *)
LEMMA JudgedTyped ==
  ASSUME NEW s \in EngineObject, NEW result \in {"asked", "ok", "failed"}
  PROVE  /\ Judged(s, result) \in EngineObject
         /\ Judged(s, result).addr = s.addr
         /\ Judged(s, result).ready => s.ready \/ result = "ok"
  <1>1. s.fails \in 0..3 /\ s.ready \in BOOLEAN /\ s.addr \in Addrs \cup {NoAddr}
    BY DEF EngineObject
  <1>2. Worse(s.fails) \in 0..3
    BY <1>1 DEF Worse
  <1>3. CASE result = "ok"
    BY <1>1, <1>3 DEF Judged, EngineObject
  <1>4. CASE result # "ok"
    <2> DEFINE t == [s EXCEPT !.fails = Worse(@), !.ready = @ /\ Worse(s.fails) < 3]
    <2>1. Judged(s, result) = t
      BY <1>4 DEF Judged
    <2>2. t \in EngineObject /\ t.addr = s.addr
      BY <1>1, <1>2 DEF EngineObject
    <2>3. t.ready => s.ready
      BY <1>1 DEF EngineObject
    <2> QED
      BY <2>1, <2>2, <2>3
  <1> QED
    BY <1>3, <1>4

-----------------------------------------------------------------------------
(* Types.                                                                  *)

LEMMA InitTyped == Init => TypeOK
  <1> SUFFICES ASSUME Init PROVE TypeOK
    OBVIOUS
  <1>1. [addr |-> NoAddr, ready |-> FALSE, fails |-> 0] \in EngineObject
    BY DEF EngineObject
  <1>2. object \in [Objects -> EngineObject]
    BY <1>1 DEF Init
  <1>3. member \in [Pods -> 0..MaxJoins] /\ joins \in [Pods -> 0..MaxJoins]
    BY DiscoveryAssumption DEF Init
  <1>4. changes \in 0..MaxChanges /\ outages \in 0..MaxOutages
    BY DiscoveryAssumption DEF Init
  <1> QED
    BY <1>2, <1>3, <1>4 DEF Init, TypeOK

LEMMA NextTyped == TypeOK /\ [Next]_vars => TypeOK'
  <1> SUFFICES ASSUME TypeOK, [Next]_vars PROVE TypeOK'
    OBVIOUS
  <1> USE DiscoveryAssumption
  <1>1. ASSUME NEW u \in Pods, NEW a \in Addrs \cup {NoAddr}, PodChanges(u, a)
        PROVE  TypeOK'
    BY <1>1 DEF PodChanges, TypeOK, watcher, pool, health
  <1>2. ASSUME NEW u \in Pods, Deliver(u)
        PROVE  TypeOK'
    BY <1>2 DEF Deliver, TypeOK, cluster, pool, health
  <1>3. ASSUME NEW a \in Addrs, Outage(a)
        PROVE  TypeOK'
    BY <1>3 DEF Outage, TypeOK, watcher, pool, health
  <1>4. CASE SyncLocks
    BY <1>4 DEF SyncLocks, TypeOK, cluster, watcher, pool, health
  <1>5. CASE SyncUnlocks
    BY <1>5 DEF SyncUnlocks, TypeOK, cluster, watcher, pool, health
  <1>6. CASE OnGone
    <2>1. call # Idle /\ call.pod \in Pods /\ call.addr \in Addrs \cup {NoAddr}
      BY <1>6, CallCases DEF OnGone, Idle
    <2>2. member' \in [Pods -> 0..MaxJoins]
      <3>1. 0 \in 0..MaxJoins
        OBVIOUS
      <3> QED
        BY <1>6, <3>1 DEF OnGone, TypeOK
    <2>3. call' \in {Idle} \cup [step : {"gone", "ready"}, pod : Pods, addr : Addrs \cup {NoAddr}]
      BY <1>6, <2>1 DEF OnGone, TypeOK
    <2> QED
      BY <1>6, <2>2, <2>3 DEF OnGone, TypeOK, cluster, health
  <1>7. CASE OnReady
    <2>1. call # Idle /\ call.pod \in Pods /\ call.addr \in Addrs \cup {NoAddr}
      BY <1>7, CallCases DEF OnReady, Idle
    <2>2. joins[call.pod] + 1 \in 1..MaxJoins
      BY <1>7, <2>1 DEF OnReady, TypeOK
    <2>3. member' \in [Pods -> 0..MaxJoins] /\ joins' \in [Pods -> 0..MaxJoins]
      BY <1>7, <2>1, <2>2 DEF OnReady, TypeOK
    <2>4. object' \in [Objects -> EngineObject]
      <3>1. [addr |-> call.addr, ready |-> FALSE, fails |-> 0] \in EngineObject
        BY <2>1 DEF EngineObject
      <3> QED
        BY <1>7, <3>1 DEF OnReady, TypeOK
    <2> QED
      BY <1>7, <2>3, <2>4 DEF OnReady, TypeOK, cluster, health
  <1>8. CASE StartRound
    <2>1. \A o \in Members : o \in Objects
      BY MembersAreObjects DEF Members
    <2>2. round' \subseteq Check
      BY <1>8, <2>1 DEF StartRound, Check
    <2> QED
      BY <1>8, <2>2 DEF StartRound, TypeOK, cluster, watcher, pool
  <1>9. ASSUME NEW c \in round, Probe(c)
        PROVE  TypeOK'
    <2>1. round' \subseteq Check
      BY <1>9 DEF Probe, TypeOK, Check
    <2>2. probed' \subseteq Objects
      BY <1>9, CheckTyped DEF Probe, TypeOK
    <2> QED
      BY <1>9, <2>1, <2>2 DEF Probe, TypeOK, cluster, watcher, pool
  <1>10. ASSUME NEW c \in round, WriteBack(c)
         PROVE  TypeOK'
    <2>1. Judged(object[c.object], c.result) \in EngineObject
      BY CheckTyped, JudgedTyped DEF Check
    <2>2. object' \in [Objects -> EngineObject]
      BY <1>10, <2>1 DEF WriteBack, TypeOK
    <2>3. round' \subseteq Check
      BY <1>10 DEF WriteBack, TypeOK
    <2> QED
      BY <1>10, <2>2, <2>3 DEF WriteBack, TypeOK, cluster, watcher
  <1>11. CASE UNCHANGED vars
    BY <1>11 DEF vars, TypeOK, cluster, watcher, pool, health
  <1> QED
    BY <1>1, <1>2, <1>3, <1>4, <1>5, <1>6, <1>7, <1>8, <1>9, <1>10, <1>11 DEF Next

-----------------------------------------------------------------------------
(* Probes.                                                                 *)

LEMMA NextProbed == TypeOK /\ ProbeInv /\ [Next]_vars => ProbeInv'
  <1> SUFFICES ASSUME TypeOK, ProbeInv, [Next]_vars PROVE ProbeInv'
    OBVIOUS
  <1>1. CASE UNCHANGED <<object, health>>
    BY <1>1 DEF ProbeInv, health
  <1>2. CASE OnReady
    <2>1. call.pod \in Pods /\ <<call.pod, joins[call.pod] + 1>> \in Objects
      BY <1>2, CallCases, DiscoveryAssumption DEF OnReady, TypeOK, Objects, Idle
    <2>2. \A o \in Objects : object'[o].ready => object[o].ready
      BY <1>2, <2>1 DEF OnReady, TypeOK, EngineObject
    <2> QED
      BY <1>2, <2>2 DEF OnReady, ProbeInv, health
  <1>3. CASE StartRound
    BY <1>3 DEF StartRound, ProbeInv, pool
  <1>4. ASSUME NEW c \in round, Probe(c)
        PROVE  ProbeInv'
    <2>1. c.object \in Objects
      BY CheckTyped
    <2>2. \A d \in round' : d.result = "ok" => d.object \in probed'
      BY <1>4, CheckTyped DEF Probe, ProbeInv, Check
    <2>3. \A o \in Objects : object'[o].ready => o \in probed'
      BY <1>4 DEF Probe, ProbeInv, pool
    <2> QED
      BY <2>2, <2>3 DEF ProbeInv
  <1>5. ASSUME NEW c \in round, WriteBack(c)
        PROVE  ProbeInv'
    <2>1. c.object \in Objects /\ object[c.object] \in EngineObject
          /\ c.result \in {"asked", "ok", "failed"}
      BY CheckTyped DEF Check
    <2>2. Judged(object[c.object], c.result).ready => object[c.object].ready \/ c.result = "ok"
      BY <2>1, JudgedTyped
    <2>3. \A o \in Objects : object'[o].ready =>
            object[o].ready \/ (o = c.object /\ c.result = "ok")
      BY <1>5, <2>1, <2>2 DEF WriteBack, TypeOK
    <2> QED
      BY <1>5, <2>3 DEF WriteBack, ProbeInv
  <1> QED
    <2>1. ASSUME NEW u \in Pods, NEW a \in Addrs \cup {NoAddr}, PodChanges(u, a)
          PROVE  UNCHANGED <<object, health>>
      BY <2>1 DEF PodChanges, pool
    <2>2. ASSUME NEW u \in Pods, Deliver(u)
          PROVE  UNCHANGED <<object, health>>
      BY <2>2 DEF Deliver, pool
    <2>3. ASSUME NEW a \in Addrs, Outage(a)
          PROVE  UNCHANGED <<object, health>>
      BY <2>3 DEF Outage, pool
    <2>4. SyncLocks \/ SyncUnlocks \/ OnGone \/ UNCHANGED vars => UNCHANGED <<object, health>>
      BY DEF SyncLocks, SyncUnlocks, OnGone, vars, pool
    <2> QED
      BY <1>1, <1>2, <1>3, <1>4, <1>5, <2>1, <2>2, <2>3, <2>4 DEF Next

-----------------------------------------------------------------------------
(* Watcher and pool.                                                       *)

LEMMA NextAgrees == TypeOK /\ CallInv /\ [Next]_vars => CallInv'
  <1> SUFFICES ASSUME TypeOK, CallInv, [Next]_vars PROVE CallInv'
    OBVIOUS
  <1> USE DiscoveryAssumption
  <1>1. CASE UNCHANGED <<registered, call, member, object>>
    BY <1>1 DEF CallInv, AddrOf
  <1>2. ASSUME NEW u \in Pods, Deliver(u)
        PROVE  CallInv'
    <2>1. CASE registered[u] = pods[u]
      BY <1>2, <2>1 DEF Deliver, CallInv, AddrOf, pool
    <2>2. CASE registered[u] # pods[u]
      <3>1. /\ registered' = [registered EXCEPT ![u] = pods[u]]
            /\ call' = [step |-> IF registered[u] = NoAddr THEN "ready" ELSE "gone",
                        pod |-> u, addr |-> pods[u]]
            /\ UNCHANGED <<member, object>> /\ call = Idle
        BY <1>2, <2>2 DEF Deliver, pool
      <3>2. call' # Idle /\ call'.pod = u /\ call'.addr = pods[u]
        BY <3>1 DEF Idle
      <3>3. \A v \in Pods : v # u => AddrOf(v)' = registered'[v]
        BY <3>1 DEF CallInv, AddrOf, TypeOK
      <3>4. registered'[u] = pods[u]
        BY <3>1 DEF TypeOK
      <3>5. call'.step = "ready" => pods[u] # NoAddr
        BY <3>1, <2>2
      <3> QED
        BY <3>2, <3>3, <3>4, <3>5 DEF CallInv
    <2> QED
      BY <2>1, <2>2
  <1>3. CASE OnGone
    <2>1. call # Idle /\ call.pod \in Pods /\ call.addr \in Addrs \cup {NoAddr}
      BY <1>3, CallCases DEF OnGone, Idle
    <2>2. PICK u \in Pods : u = call.pod
      BY <2>1
    <2>3. AddrOf(u)' = NoAddr
      BY <1>3, <2>2 DEF OnGone, TypeOK, AddrOf
    <2>4. \A v \in Pods : v # u => AddrOf(v)' = registered'[v]
      BY <1>3, <2>1, <2>2 DEF OnGone, TypeOK, AddrOf, CallInv
    <2>5. registered' = registered /\ registered[u] = call.addr
      BY <1>3, <2>1, <2>2 DEF OnGone, CallInv
    <2>6. CASE call.addr = NoAddr
      <3>1. call' = Idle /\ call'.step # "ready"
        BY <1>3, <2>6 DEF OnGone, Idle
      <3> QED
        BY <2>3, <2>4, <2>5, <2>6, <3>1 DEF CallInv
    <2>7. CASE call.addr # NoAddr
      <3>1. call' = [call EXCEPT !.step = "ready"]
        BY <1>3, <2>7 DEF OnGone
      <3>2. call'.step = "ready" /\ call'.pod = u /\ call'.addr = call.addr
        BY <3>1, <2>1, <2>2 DEF TypeOK, Idle
      <3>3. call' # Idle
        BY <3>2 DEF Idle
      <3> QED
        BY <2>4, <2>5, <2>7, <3>2, <3>3 DEF CallInv
    <2> QED
      BY <2>6, <2>7
  <1>4. CASE OnReady
    <2>1. call # Idle /\ call.pod \in Pods /\ call.addr \in Addrs \cup {NoAddr}
      BY <1>4, CallCases DEF OnReady, Idle
    <2>2. PICK u \in Pods : u = call.pod
      BY <2>1
    <2>3. PICK n \in 1..MaxJoins : n = joins[u] + 1
      BY <1>4, <2>2 DEF OnReady, TypeOK
    <2>4. /\ member' = [member EXCEPT ![u] = n]
          /\ object' = [object EXCEPT ![<<u, n>>] =
                          [addr |-> call.addr, ready |-> FALSE, fails |-> 0]]
          /\ call' = Idle /\ registered' = registered
      BY <1>4, <2>2, <2>3 DEF OnReady
    <2>5. <<u, n>> \in Objects
      BY DEF Objects
    <2>6. AddrOf(u)' = call.addr
      BY <2>3, <2>4, <2>5 DEF TypeOK, AddrOf
    <2>7. \A v \in Pods : v # u => AddrOf(v)' = AddrOf(v)
      BY <2>4 DEF TypeOK, AddrOf
    <2>8. registered[u] = call.addr /\ \A v \in Pods : v # u => AddrOf(v) = registered[v]
      BY <2>1, <2>2 DEF CallInv
    <2>9. call'.step # "ready"
      BY <2>4 DEF Idle
    <2> QED
      BY <2>4, <2>6, <2>7, <2>8, <2>9 DEF CallInv
  <1>5. ASSUME NEW c \in round, WriteBack(c)
        PROVE  CallInv'
    <2>1. c.object \in Objects /\ object[c.object] \in EngineObject
          /\ c.result \in {"asked", "ok", "failed"}
      BY CheckTyped DEF Check
    <2>2. \A o \in Objects : object'[o].addr = object[o].addr
      BY <1>5, <2>1, JudgedTyped DEF WriteBack, TypeOK
    <2>3. \A u \in Pods : AddrOf(u)' = AddrOf(u)
      <3> SUFFICES ASSUME NEW u \in Pods PROVE AddrOf(u)' = AddrOf(u)
        OBVIOUS
      <3>1. member' = member
        BY <1>5 DEF WriteBack
      <3>2. CASE member[u] = 0
        BY <3>1, <3>2 DEF AddrOf
      <3>3. CASE member[u] # 0
        <4>1. <<u, member[u]>> \in Objects
          BY <3>3, MembersAreObjects DEF TypeOK
        <4> QED
          BY <4>1, <3>1, <2>2 DEF AddrOf
      <3> QED
        BY <3>2, <3>3
    <2> QED
      BY <1>5, <2>3 DEF WriteBack, CallInv, watcher
  <1> QED
    <2>1. ASSUME NEW u \in Pods, NEW a \in Addrs \cup {NoAddr}, PodChanges(u, a)
          PROVE  UNCHANGED <<registered, call, member, object>>
      BY <2>1 DEF PodChanges, pool, watcher
    <2>2. ASSUME NEW a \in Addrs, Outage(a)
          PROVE  UNCHANGED <<registered, call, member, object>>
      BY <2>2 DEF Outage, pool, watcher
    <2>3. ASSUME NEW c \in round, Probe(c)
          PROVE  UNCHANGED <<registered, call, member, object>>
      BY <2>3 DEF Probe, pool, watcher
    <2>4. SyncLocks \/ SyncUnlocks \/ StartRound \/ UNCHANGED vars =>
            UNCHANGED <<registered, call, member, object>>
      BY DEF SyncLocks, SyncUnlocks, StartRound, vars, pool, watcher
    <2> QED
      BY <1>1, <1>2, <1>3, <1>4, <1>5, <2>1, <2>2, <2>3, <2>4 DEF Next

-----------------------------------------------------------------------------
LEMMA Inductive == Spec => []IInv
  <1>1. Init => IInv
    <2>1. Init => ProbeInv
      BY DEF Init, ProbeInv
    <2>2. Init => CallInv
      BY DEF Init, CallInv, AddrOf, Idle
    <2> QED
      BY <2>1, <2>2, InitTyped DEF IInv
  <1>2. IInv /\ [Next]_vars => IInv'
    BY NextTyped, NextProbed, NextAgrees DEF IInv
  <1> QED
    BY <1>1, <1>2, PTL DEF Spec

(* The watcher, the pool and the health loop keep their types.             *)
THEOREM DiscoveryTyped == Spec => []TypeOK
  BY Inductive, PTL DEF IInv

(* An engine in the rotation has itself answered a probe, whatever rounds  *)
(* were in flight when it was registered.                                  *)
THEOREM ReadyEnginesWereProbed == Spec => []ReadyWasProbed
  <1>1. IInv => ReadyWasProbed
    BY MembersAreObjects DEF IInv, ReadyWasProbed, ProbeInv, Ready
  <1> QED
    BY <1>1, Inductive, PTL

(* Between callbacks the watcher's map and the pool's engines are the same *)
(* (pod_watcher.go calls the pool with its own mutex held).                *)
THEOREM WatcherMatchesPool == Spec => []WatcherAndPoolAgree
  <1>1. IInv => WatcherAndPoolAgree
    BY DEF IInv, WatcherAndPoolAgree, CallInv
  <1> QED
    BY <1>1, Inductive, PTL
=============================================================================
