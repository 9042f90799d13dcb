-------------------------- MODULE EnginePoolProofs --------------------------
(***************************************************************************)
(* Theorems about EnginePool for any engines, requests and bounds.         *)
(***************************************************************************)
EXTENDS EnginePool, TLAPS

-----------------------------------------------------------------------------
(* Type correctness.                                                       *)

(* A step of a handler changes its record field by field.                  *)
LEMMA HandlerUpdate ==
  ASSUME NEW q \in Handler
  PROVE  /\ \A s \in Stages : [q EXCEPT !.stage = s] \in Handler
         /\ [q EXCEPT !.cancelled = TRUE] \in Handler
         /\ \A f \in BOOLEAN, T \in SUBSET Engines :
              [q EXCEPT !.todo = T, !.failed = f] \in Handler
         /\ \A s \in Stages, f, b \in BOOLEAN :
              [q EXCEPT !.stage = s, !.failed = f, !.sent = b] \in Handler
         /\ \A s \in Stages, T \in SUBSET Engines, f, b \in BOOLEAN :
              [q EXCEPT !.stage = s, !.todo = T, !.failed = f, !.sent = b] \in Handler
         /\ \A o \in Ops, s \in Stages : [q EXCEPT !.op = o, !.stage = s] \in Handler
         /\ \A o \in Ops, s \in Stages, v \in Versions, b \in BOOLEAN :
              [q EXCEPT !.op = o, !.stage = s, !.version = v, !.reset = b] \in Handler
  BY DEF Handler

LEMMA HandlerFields ==
  ASSUME NEW q \in Handler
  PROVE  /\ q.op \in Ops /\ q.stage \in Stages /\ q.todo \in SUBSET Engines
         /\ q.failed \in BOOLEAN /\ q.sent \in BOOLEAN /\ q.cancelled \in BOOLEAN
         /\ q.version \in Versions /\ q.reset \in BOOLEAN
  BY DEF Handler

LEMMA StageNames ==
  /\ FanOuts \subseteq Stages
  /\ {"idle", "announce", "lock", "publish", "restore", "done"} \subseteq Stages
  /\ {"init", "pause", "update", "rollback", "reset", "resume", "sleep", "wake"} = FanOuts
  BY DEF Stages, FanOuts

LEMMA GenerationUpdate ==
  ASSUME NEW q \in Generation
  PROVE  /\ \A e \in Engines : [q EXCEPT !.stage = "picked", !.engine = e] \in Generation
         /\ \A v \in Versions : [q EXCEPT !.stage = "answered", !.made = v] \in Generation
         /\ \A v \in Versions : [q EXCEPT !.stage = "tagged", !.tag = v] \in Generation
  BY DEF Generation

(* One call of a fan-out changes an engine only within its type.           *)
LEMMA AppliedType ==
  ASSUME NEW s \in EngineState, NEW c, NEW v \in Versions
  PROVE  Applied(s, c, v) \in EngineState
<1>1. /\ [s EXCEPT !.joined = TRUE] \in EngineState
      /\ [s EXCEPT !.paused = TRUE] \in EngineState
      /\ [s EXCEPT !.paused = FALSE] \in EngineState
      /\ [s EXCEPT !.weights = v] \in EngineState
      /\ [s EXCEPT !.asleep = TRUE] \in EngineState
      /\ [s EXCEPT !.asleep = FALSE] \in EngineState
  BY DEF EngineState
<1> QED BY <1>1 DEF Applied

LEMMA InitTypeOK == Init => TypeOK
<1> SUFFICES ASSUME Init PROVE TypeOK
  OBVIOUS
<1>1. 0 \in Versions /\ 0 \in 0..MaxFaults /\ 0 \in 0..MaxJoins
  BY EnginePoolAssumption DEF Versions
<1>2. FreshEngine \in EngineState
  BY <1>1 DEF FreshEngine, EngineState
<1>3. [op |-> "pause", stage |-> "idle", todo |-> {}, failed |-> FALSE,
       sent |-> FALSE, cancelled |-> FALSE, version |-> 0, reset |-> FALSE] \in Handler
  BY <1>1 DEF Handler, Ops, Stages
<1>4. [stage |-> "idle", engine |-> NoOne, made |-> 0, tag |-> 0] \in Generation
  BY <1>1 DEF Generation
<1> QED BY <1>1, <1>2, <1>3, <1>4 DEF Init, TypeOK

LEMMA NextTypeOK == TypeOK /\ [Next]_vars => TypeOK'
<1> SUFFICES ASSUME TypeOK, [Next]_vars PROVE TypeOK'
  OBVIOUS
<1> USE EnginePoolAssumption DEF TypeOK
<1>1. ASSUME NEW e \in Engines, AddEngine(e) PROVE TypeOK'
  <2>1. joins[e] + 1 \in 0..MaxJoins
    BY <1>1 DEF AddEngine
  <2> QED BY <1>1, <2>1 DEF AddEngine, engineVars, history
<1>2. ASSUME NEW e \in Engines, RemoveEngine(e) PROVE TypeOK'
  BY <1>2 DEF RemoveEngine, engineVars, history
<1>3. ASSUME NEW e \in Engines, EngineRestart(e) PROVE TypeOK'
  <2>1. FreshEngine \in EngineState
    BY DEF FreshEngine, EngineState, Versions
  <2> QED BY <1>3, <2>1 DEF EngineRestart, Fault, Disturb, poolVars
<1>4. ASSUME NEW c \in late, LateCall(c) PROVE TypeOK'
  <2>1. c.engine \in Engines /\ c.version \in Versions
    OBVIOUS
  <2>2. Applied(engine[c.engine], c.call, c.version) \in EngineState
    BY <2>1, AppliedType
  <2> QED BY <1>4, <2>1, <2>2 DEF LateCall, Disturb, poolVars
<1>5. ASSUME NEW r \in Requests, NEW v \in 1..MaxVersion, NEW reset \in BOOLEAN,
             ArriveUpdate(r, v, reset)
      PROVE TypeOK'
  <2>1. v \in Versions /\ "update" \in Ops
    BY DEF Versions, Ops
  <2> QED BY <1>5, <2>1, HandlerUpdate, StageNames
          DEF ArriveUpdate, poolVars, engineVars, history
<1>6. ASSUME NEW r \in Requests, NEW op \in Ops \ {"update"}, Arrive(r, op) PROVE TypeOK'
  <2> DEFINE s == IF op = "sleep" THEN "announce" ELSE "lock"
  <2>1. s \in Stages
    BY StageNames
  <2>2. [req[r] EXCEPT !.op = op, !.stage = s] \in Handler
    BY <2>1, HandlerUpdate
  <2> QED BY <1>6, <2>2 DEF Arrive, poolVars, engineVars, history
<1>7. ASSUME NEW r \in Requests, ClientGone(r) PROVE TypeOK'
  <2>1. [req[r] EXCEPT !.cancelled = TRUE] \in Handler
    BY HandlerUpdate
  <2>2. faults' \in 0..MaxFaults
    BY <1>7 DEF ClientGone, Fault
  <2> QED BY <1>7, <2>1, <2>2 DEF ClientGone, poolVars, history
<1>8. ASSUME NEW r \in Requests, NEW s \in Stages, Goto(r, s)
      PROVE req' \in [Requests -> Handler]
  BY <1>8, HandlerUpdate DEF Goto
<1>9. ASSUME NEW r \in Requests, NEW ok \in BOOLEAN, Return(r, ok)
      PROVE /\ mu' \in Requests \cup {NoOne} /\ disturbed' \subseteq Engines
            /\ req' \in [Requests -> Handler]
  <2>1. AfterCall(r, ok) \in Stages
    BY StageNames DEF AfterCall
  <2> QED BY <1>9, <2>1, HandlerUpdate DEF Return
<1>10. ASSUME NEW r \in Requests, NEW s \in Stages, Enter(r, s)
       PROVE req' \in [Requests -> Handler]
  <2> DEFINE b == ~req[r].cancelled
  <2>1. b \in BOOLEAN
    OBVIOUS
  <2> HIDE DEF b
  <2>2. [req[r] EXCEPT !.stage = s, !.todo = members, !.failed = FALSE, !.sent = b] \in Handler
    BY <2>1, HandlerUpdate
  <2> QED BY <1>10, <2>2 DEF Enter, b
<1>11. ASSUME NEW r \in Requests, Announce(r) PROVE TypeOK'
  BY <1>11, <1>8, StageNames DEF Announce, SetPhase, engineVars, history
<1>12. ASSUME NEW r \in Requests, Lock(r) PROVE TypeOK'
  <2>1. CASE req[r].op = "update" /\ ~transferInited
    BY <1>12, <1>9, <2>1 DEF Lock, engineVars
  <2>2. CASE ~(req[r].op = "update" /\ ~transferInited)
    <3> DEFINE s == IF req[r].op = "update" THEN "pause" ELSE req[r].op
    <3>1. s \in Stages
      BY HandlerFields DEF Ops, Stages, FanOuts
    <3> QED BY <1>12, <1>10, <2>2, <3>1 DEF Lock, engineVars
  <2> QED BY <2>1, <2>2
<1>13. ASSUME NEW r \in Requests, InitReturns(r) PROVE TypeOK'
  <2>1. Current \in SUBSET Incarnation
    BY DEF Current, Incarnation
  <2> QED BY <1>13, <1>9, <2>1 DEF InitReturns, engineVars
<1>14. ASSUME NEW r \in Requests, LifecycleReturns(r) PROVE TypeOK'
  BY <1>14, <1>9 DEF LifecycleReturns, engineVars
<1>15. ASSUME NEW r \in Requests, UpdateStep(r) PROVE TypeOK'
  <2>1. NextFanOut(req[r]) # "none" => NextFanOut(req[r]) \in Stages
    BY StageNames DEF NextFanOut
  <2>2. req' \in [Requests -> Handler] /\ mu' \in Requests \cup {NoOne}
        /\ disturbed' \subseteq Engines
    BY <1>15, <1>9, <1>10, <2>1 DEF UpdateStep
  <2> QED BY <1>15, <2>2 DEF UpdateStep, engineVars
<1>16. ASSUME NEW r \in Requests, Commit(r) PROVE TypeOK'
  BY <1>16, <1>9, HandlerFields DEF Commit, engineVars
<1>17. ASSUME NEW r \in Requests, Publish(r) PROVE TypeOK'
  BY <1>17, <1>8, HandlerFields, StageNames DEF Publish, poolVars, engineVars, history
<1>18. ASSUME NEW r \in Requests, Restore(r) PROVE TypeOK'
  BY <1>18, <1>8, StageNames DEF Restore, SetPhase, engineVars, history
<1>19. ASSUME NEW r \in Requests, NEW e \in Engines, Call(r, e) PROVE TypeOK'
  <2> DEFINE c == CallOf(req[r].stage)
  <2>1. Applied(engine[e], c, req[r].version) \in EngineState
    BY AppliedType, HandlerFields
  <2>2. c \in Calls
    BY <1>19 DEF Call, CallOf, Calls, FanOuts
  <2>3. ASSUME NEW b \in BOOLEAN, Answered(r, e, b)
        PROVE req' \in [Requests -> Handler]
    <3> DEFINE f == req[r].failed \/ b
               T == req[r].todo \ {e}
    <3>1. f \in BOOLEAN /\ T \in SUBSET Engines
      BY HandlerFields
    <3> HIDE DEF f, T
    <3>2. [req[r] EXCEPT !.todo = T, !.failed = f] \in Handler
      BY <3>1, HandlerUpdate
    <3>3. req' = [req EXCEPT ![r] = [req[r] EXCEPT !.todo = T, !.failed = f]]
      BY <2>3 DEF Answered, T, f
    <3> QED BY <3>2, <3>3
  <2>4. req' \in [Requests -> Handler]
    BY <1>19, <2>3 DEF Call
  <2>5. engine' \in [Engines -> EngineState]
    <3>1. engine' = engine \/ engine' = [engine EXCEPT ![e] = Applied(@, c, req[r].version)]
      BY <1>19 DEF Call
    <3> QED BY <2>1, <3>1
  <2>6. late' \subseteq [engine : Engines, call : Calls, version : Versions]
    <3>1. [engine |-> e, call |-> c, version |-> req[r].version]
            \in [engine : Engines, call : Calls, version : Versions]
      BY <2>2, HandlerFields
    <3>2. late' = late
          \/ late' = late \cup {[engine |-> e, call |-> c, version |-> req[r].version]}
      BY <1>19 DEF Call
    <3> QED BY <3>1, <3>2
  <2>7. faults' \in 0..MaxFaults
    <3>1. faults' = faults \/ Fault
      BY <1>19 DEF Call
    <3> QED BY <3>1 DEF Fault
  <2> QED BY <1>19, <2>4, <2>5, <2>6, <2>7 DEF Call, poolVars, history
<1>20. ASSUME NEW g \in Gens, NEW e \in Engines, PickEngine(g, e) PROVE TypeOK'
  <2>1. gen' = [gen EXCEPT ![g] = [gen[g] EXCEPT !.stage = "picked", !.engine = e]]
    BY <1>20 DEF PickEngine
  <2>2. [gen[g] EXCEPT !.stage = "picked", !.engine = e] \in Generation
    BY GenerationUpdate
  <2>3. gen'[g].engine = e /\ gen[g] \in Generation
    BY <2>1 DEF Generation
  <2> QED BY <1>20, <2>1, <2>2, <2>3 DEF PickEngine, poolVars, engineVars, history
<1>21. ASSUME NEW g \in Gens, Completion(g) PROVE TypeOK'
  <2> DEFINE s == engine[gen[g].engine]
  <2>1. gen' = [gen EXCEPT ![g] = [gen[g] EXCEPT !.stage = "answered", !.made = s.weights]]
    BY <1>21 DEF Completion
  <2>2. s.weights \in Versions
    BY <1>21 DEF Completion, EngineState
  <2>3. [gen[g] EXCEPT !.stage = "answered", !.made = s.weights] \in Generation
    BY <2>2, GenerationUpdate
  <2>4. gen'[g].stage = "answered"
    BY <2>1 DEF Generation
  <2> QED BY <1>21, <2>1, <2>3, <2>4 DEF Completion, poolVars, engineVars, history
<1>22. ASSUME NEW g \in Gens, TagResponse(g) PROVE TypeOK'
  <2>1. gen' = [gen EXCEPT ![g] = [gen[g] EXCEPT !.stage = "tagged", !.tag = serverVersion]]
    BY <1>22 DEF TagResponse
  <2>2. [gen[g] EXCEPT !.stage = "tagged", !.tag = serverVersion] \in Generation
    BY GenerationUpdate
  <2>3. gen'[g].stage = "tagged"
    BY <2>1 DEF Generation
  <2> QED BY <1>22, <2>1, <2>2, <2>3 DEF TagResponse, poolVars, engineVars, history
<1>23. CASE UNCHANGED vars
  BY <1>23 DEF vars, poolVars, engineVars, history
<1> QED
  BY <1>1, <1>2, <1>3, <1>4, <1>5, <1>6, <1>7, <1>11, <1>12, <1>13, <1>14, <1>15,
     <1>16, <1>17, <1>18, <1>19, <1>20, <1>21, <1>22, <1>23 DEF Next, HandlerStep

(* Every reachable state of the pool, its handlers and the engines is      *)
(* well typed.                                                             *)
THEOREM TypeCorrect == Spec => []TypeOK
  BY InitTypeOK, NextTypeOK, PTL DEF Spec

-----------------------------------------------------------------------------
(* What the building blocks of the handlers do to req.                     *)

(* Other handlers are left alone, and a request keeps what it asked for.   *)
SameRequest(r) ==
  /\ \A x \in Requests : x # r => req'[x] = req[x]
  /\ req'[r].op = req[r].op /\ req'[r].version = req[r].version
  /\ req'[r].reset = req[r].reset

LEMMA GotoEffect ==
  ASSUME TypeOK, NEW r \in Requests, NEW s, Goto(r, s)
  PROVE  SameRequest(r) /\ req'[r].stage = s
  BY HandlerFields DEF TypeOK, Goto, SameRequest, Handler

LEMMA EnterEffect ==
  ASSUME TypeOK, NEW r \in Requests, NEW s, Enter(r, s)
  PROVE  /\ SameRequest(r) /\ req'[r].stage = s
         /\ req'[r].todo = members /\ req'[r].failed = FALSE
  BY DEF TypeOK, Enter, SameRequest, Handler

LEMMA ReturnEffect ==
  ASSUME TypeOK, NEW r \in Requests, NEW ok \in BOOLEAN, Return(r, ok)
  PROVE  /\ SameRequest(r) /\ req'[r].stage = AfterCall(r, ok)
         /\ mu' = NoOne /\ disturbed' = {}
  BY DEF TypeOK, Return, SameRequest, Handler

LEMMA AfterCallStage ==
  ASSUME NEW r \in Requests, NEW ok \in BOOLEAN
  PROVE  /\ AfterCall(r, ok) \notin FanOuts
         /\ AfterCall(r, ok) = "publish" => req[r].op = "update" /\ ok
  BY DEF AfterCall, FanOuts

LEMMA AnsweredEffect ==
  ASSUME TypeOK, NEW r \in Requests, NEW e \in Engines, NEW b \in BOOLEAN, Answered(r, e, b)
  PROVE  /\ SameRequest(r) /\ req'[r].stage = req[r].stage
         /\ req'[r].todo = req[r].todo \ {e}
         /\ (req'[r].failed = TRUE) <=> (req[r].failed = TRUE \/ b = TRUE)
  BY DEF TypeOK, Answered, SameRequest, Handler

-----------------------------------------------------------------------------
(* The handler invariant: who holds the lock, and in which fan-out.        *)

LEMMA InitHandlerInv == Init => HandlerInv
<1> SUFFICES ASSUME Init, NEW r \in Requests
             PROVE  /\ req[r].stage = "idle" /\ req[r].op = "pause" /\ mu # r
  BY DEF HandlerInv, FanOuts, Init
<1> QED BY EnginePoolAssumption DEF Init

(* One request stays outside its fan-outs.                                 *)
LEMMA OutsideFanOuts ==
  ASSUME TypeOK, HandlerInv, NEW r \in Requests, SameRequest(r),
         mu' = mu, req[r].stage \notin FanOuts, req'[r].stage \notin FanOuts,
         req'[r].stage = "publish" => req[r].op = "update",
         transferInited' = transferInited \/ mu = NoOne
  PROVE  HandlerInv'
  BY EnginePoolAssumption DEF HandlerInv, SameRequest, TypeOK

(* One request goes on to its next fan-out.                                *)
LEMMA InsideFanOuts ==
  ASSUME TypeOK, HandlerInv, NEW r \in Requests, SameRequest(r),
         mu' = r, mu \in {NoOne, r}, req'[r].stage \in FanOuts,
         req[r].op = "update" =>
           transferInited /\ req'[r].stage \in {"pause", "update", "rollback", "reset", "resume"},
         req[r].op # "update" => req'[r].stage = req[r].op,
         transferInited' = transferInited
  PROVE  HandlerInv'
  BY EnginePoolAssumption DEF HandlerInv, SameRequest, TypeOK, FanOuts

(* One request returns from its pool call.                                 *)
LEMMA ReturnHandlerInv ==
  ASSUME TypeOK, HandlerInv, NEW r \in Requests, NEW ok \in BOOLEAN, Return(r, ok),
         mu \in {NoOne, r}
  PROVE  HandlerInv'
<1>1. SameRequest(r) /\ req'[r].stage = AfterCall(r, ok) /\ mu' = NoOne
  BY ReturnEffect
<1>2. \A x \in Requests : x # r => req[x].stage \notin FanOuts
  BY EnginePoolAssumption DEF HandlerInv
<1> QED
  BY <1>1, <1>2, AfterCallStage, EnginePoolAssumption DEF HandlerInv, SameRequest

LEMMA NextHandlerInv == TypeOK /\ HandlerInv /\ [Next]_vars => HandlerInv'
<1> SUFFICES ASSUME TypeOK, HandlerInv, [Next]_vars PROVE HandlerInv'
  OBVIOUS
<1> USE EnginePoolAssumption
<1>1. ASSUME mu = NoOne, mu' = mu, req' = req PROVE HandlerInv'
  BY <1>1 DEF HandlerInv, TypeOK
<1>2. ASSUME mu' = mu, req' = req, transferInited' = transferInited PROVE HandlerInv'
  BY <1>2 DEF HandlerInv
<1>3. ASSUME NEW e \in Engines, AddEngine(e) \/ RemoveEngine(e) PROVE HandlerInv'
  BY <1>3, <1>1 DEF AddEngine, RemoveEngine
<1>4. ASSUME NEW e \in Engines, EngineRestart(e) PROVE HandlerInv'
  BY <1>4, <1>2 DEF EngineRestart, poolVars
<1>5. ASSUME NEW c \in late, LateCall(c) PROVE HandlerInv'
  BY <1>5, <1>2 DEF LateCall, poolVars
<1>6. ASSUME NEW r \in Requests, NEW v \in 1..MaxVersion, NEW reset \in BOOLEAN,
             ArriveUpdate(r, v, reset)
      PROVE HandlerInv'
  <2>1. /\ req'[r].stage = "announce" /\ req'[r].op = "update" /\ req'[r].version = v
        /\ \A x \in Requests : x # r => req'[x] = req[x]
    BY <1>6 DEF ArriveUpdate, TypeOK, Handler
  <2> QED BY <1>6, <2>1 DEF ArriveUpdate, HandlerInv, poolVars, FanOuts
<1>7. ASSUME NEW r \in Requests, NEW op \in Ops \ {"update"}, Arrive(r, op) PROVE HandlerInv'
  <2>1. /\ req'[r].stage \in {"announce", "lock"} /\ req'[r].op = op
        /\ \A x \in Requests : x # r => req'[x] = req[x]
    BY <1>7 DEF Arrive, TypeOK, Handler
  <2> QED BY <1>7, <2>1 DEF Arrive, HandlerInv, poolVars, FanOuts
<1>8. ASSUME NEW r \in Requests, ClientGone(r) PROVE HandlerInv'
  <2>1. /\ SameRequest(r) /\ req'[r].stage = req[r].stage
    BY <1>8 DEF ClientGone, TypeOK, Handler, SameRequest
  <2> QED BY <1>8, <2>1 DEF ClientGone, HandlerInv, poolVars, SameRequest
<1>9. ASSUME NEW r \in Requests, Announce(r) PROVE HandlerInv'
  <2>1. SameRequest(r) /\ req'[r].stage = "lock"
    BY <1>9, GotoEffect DEF Announce
  <2> QED BY <1>9, <2>1, OutsideFanOuts DEF Announce, FanOuts
<1>10. ASSUME NEW r \in Requests, Lock(r) PROVE HandlerInv'
  <2>1. CASE req[r].op = "update" /\ ~transferInited
    BY <1>10, <2>1, ReturnHandlerInv DEF Lock
  <2>2. CASE ~(req[r].op = "update" /\ ~transferInited)
    <3> DEFINE s == IF req[r].op = "update" THEN "pause" ELSE req[r].op
    <3>1. SameRequest(r) /\ req'[r].stage = s
      BY <1>10, <2>2, EnterEffect DEF Lock
    <3>2. s \in FanOuts
      BY HandlerFields DEF TypeOK, Ops, FanOuts
    <3> QED BY <1>10, <2>2, <3>1, <3>2, InsideFanOuts DEF Lock
  <2> QED BY <2>1, <2>2
<1>11. ASSUME NEW r \in Requests, InitReturns(r) PROVE HandlerInv'
  <2>1. mu = r
    BY <1>11 DEF InitReturns, Joined, HandlerInv, FanOuts
  <2> QED BY <1>11, <2>1, ReturnHandlerInv DEF InitReturns
<1>12. ASSUME NEW r \in Requests, LifecycleReturns(r) PROVE HandlerInv'
  <2>1. mu = r
    BY <1>12 DEF LifecycleReturns, Joined, HandlerInv, FanOuts
  <2> QED BY <1>12, <2>1, ReturnHandlerInv DEF LifecycleReturns
<1>13. ASSUME NEW r \in Requests, UpdateStep(r) PROVE HandlerInv'
  <2> DEFINE s == NextFanOut(req[r])
  <2>1. mu = r /\ transferInited /\ req[r].op = "update"
    BY <1>13 DEF UpdateStep, HandlerInv
  <2>2. CASE s = "none"
    BY <1>13, <2>1, <2>2, ReturnHandlerInv DEF UpdateStep
  <2>3. CASE s # "none"
    <3>1. s \in {"update", "rollback", "reset", "resume"}
      BY <2>3 DEF NextFanOut
    <3>2. SameRequest(r) /\ req'[r].stage = s
      BY <1>13, <2>3, EnterEffect DEF UpdateStep
    <3> QED BY <1>13, <2>1, <2>3, <3>1, <3>2, InsideFanOuts DEF UpdateStep, FanOuts
  <2> QED BY <2>2, <2>3
<1>14. ASSUME NEW r \in Requests, Commit(r) PROVE HandlerInv'
  <2>1. mu = r
    BY <1>14 DEF Commit, Joined, HandlerInv, FanOuts
  <2> QED BY <1>14, <2>1, ReturnHandlerInv DEF Commit
<1>15. ASSUME NEW r \in Requests, Publish(r) PROVE HandlerInv'
  <2>1. SameRequest(r) /\ req'[r].stage = "restore"
    BY <1>15, GotoEffect DEF Publish
  <2> QED BY <1>15, <2>1, OutsideFanOuts DEF Publish, FanOuts, poolVars
<1>16. ASSUME NEW r \in Requests, Restore(r) PROVE HandlerInv'
  <2>1. SameRequest(r) /\ req'[r].stage = "done"
    BY <1>16, GotoEffect DEF Restore
  <2> QED BY <1>16, <2>1, OutsideFanOuts DEF Restore, FanOuts
<1>17. ASSUME NEW r \in Requests, NEW e \in Engines, Call(r, e) PROVE HandlerInv'
  <2>1. SameRequest(r) /\ req'[r].stage = req[r].stage
    BY <1>17, AnsweredEffect DEF Call
  <2> QED BY <1>17, <2>1 DEF Call, poolVars, HandlerInv, SameRequest
<1>18. ASSUME NEW g \in Gens, NEW e \in Engines, PickEngine(g, e) PROVE HandlerInv'
  BY <1>18, <1>2 DEF PickEngine, poolVars
<1>19. ASSUME NEW g \in Gens, Completion(g) \/ TagResponse(g) PROVE HandlerInv'
  BY <1>19, <1>2 DEF Completion, TagResponse, poolVars
<1>20. CASE UNCHANGED vars
  BY <1>20, <1>2 DEF vars, poolVars
<1> QED
  BY <1>3, <1>4, <1>5, <1>6, <1>7, <1>8, <1>9, <1>10, <1>11, <1>12, <1>13, <1>14, <1>15,
     <1>16, <1>17, <1>18, <1>19, <1>20 DEF Next, HandlerStep

-----------------------------------------------------------------------------
(* The transfer group.                                                     *)

(* Whatever a step does, it voids the group, forms it over the pool, or    *)
(* leaves both the group and the pool alone.                               *)
LEMMA GroupStep ==
  ASSUME TypeOK, [Next]_vars
  PROVE  \/ ~transferInited'
         \/ transferInited' /\ group' = Current'
         \/ UNCHANGED <<transferInited, group, members, joins>>
<1> DEFINE Step == \/ ~transferInited'
                   \/ transferInited' /\ group' = Current'
                   \/ UNCHANGED <<transferInited, group, members, joins>>
<1>1. ASSUME NEW e \in Engines, AddEngine(e) \/ RemoveEngine(e) PROVE Step
  BY <1>1 DEF AddEngine, RemoveEngine
<1>2. ASSUME NEW r \in Requests, InitReturns(r)
      PROVE Step
  BY <1>2 DEF InitReturns, Current
<1>3. ASSUME NEW e \in Engines, EngineRestart(e) PROVE Step
  BY <1>3 DEF EngineRestart, poolVars
<1>4. ASSUME NEW c \in late, LateCall(c) PROVE Step
  BY <1>4 DEF LateCall, poolVars
<1>5. ASSUME NEW r \in Requests, NEW v \in 1..MaxVersion, NEW reset \in BOOLEAN,
             ArriveUpdate(r, v, reset)
      PROVE Step
  BY <1>5 DEF ArriveUpdate, poolVars, history
<1>6. ASSUME NEW r \in Requests, NEW op \in Ops \ {"update"}, Arrive(r, op) PROVE Step
  BY <1>6 DEF Arrive, poolVars, history
<1>7. ASSUME NEW r \in Requests, ClientGone(r) PROVE Step
  BY <1>7 DEF ClientGone, poolVars, history
<1>8. ASSUME NEW r \in Requests, Announce(r) \/ Restore(r) PROVE Step
  BY <1>8 DEF Announce, Restore, history
<1>9. ASSUME NEW r \in Requests, Lock(r) \/ LifecycleReturns(r) \/ UpdateStep(r) \/ Commit(r)
      PROVE Step
  BY <1>9 DEF Lock, LifecycleReturns, UpdateStep, Commit
<1>10. ASSUME NEW r \in Requests, Publish(r) PROVE Step
  BY <1>10 DEF Publish, poolVars, history
<1>11. ASSUME NEW r \in Requests, NEW e \in Engines, Call(r, e) PROVE Step
  BY <1>11 DEF Call, poolVars, history
<1>12. ASSUME NEW g \in Gens, NEW e \in Engines, PickEngine(g, e) PROVE Step
  BY <1>12 DEF PickEngine, poolVars, history
<1>13. ASSUME NEW g \in Gens, Completion(g) \/ TagResponse(g) PROVE Step
  BY <1>13 DEF Completion, TagResponse, poolVars, history
<1>14. ASSUME UNCHANGED vars PROVE Step
  BY <1>14 DEF vars, poolVars, history
<1> HIDE DEF Step
<1>15. Step
  BY <1>1, <1>2, <1>3, <1>4, <1>5, <1>6, <1>7, <1>8, <1>9, <1>10, <1>11, <1>12, <1>13, <1>14
     DEF Next, HandlerStep
<1> QED BY <1>15 DEF Step

LEMMA InitGroup == Init => TransferGroupCoversPool
  BY DEF Init, TransferGroupCoversPool

LEMMA NextGroup ==
  TypeOK /\ TransferGroupCoversPool /\ [Next]_vars => TransferGroupCoversPool'
  BY GroupStep DEF TransferGroupCoversPool, Current

-----------------------------------------------------------------------------
(* The weight-update cycle.                                                *)

LEMMA InitCycle == Init => CycleInv
  BY DEF Init, CycleInv

(* Steps that touch no engine, no fan-out and not the pool.                *)
LEMMA QuietCycle ==
  ASSUME TypeOK, CycleInv, NEW r \in Requests, SameRequest(r),
         UNCHANGED <<members, engine, disturbed>>,
         \/ req'[r].stage = req[r].stage /\ req'[r].todo = req[r].todo
              /\ req'[r].failed = req[r].failed
         \/ req'[r].stage \notin {"pause", "update", "rollback", "reset", "resume"}
  PROVE  CycleInv'
  BY DEF CycleInv, SameRequest

(* Steps taken while nobody is in a fan-out.                               *)
LEMMA UnlockedCycle ==
  ASSUME TypeOK, HandlerInv, mu = NoOne, req' = req
  PROVE  CycleInv'
  BY EnginePoolAssumption DEF HandlerInv, CycleInv, FanOuts

(* Only the holder of the lock is in a fan-out, so when it leaves nobody is.*)
LEMMA ReturnCycle ==
  ASSUME TypeOK, HandlerInv, NEW r \in Requests, NEW ok \in BOOLEAN, Return(r, ok),
         mu \in {NoOne, r}
  PROVE  CycleInv'
<1>1. SameRequest(r) /\ req'[r].stage \notin FanOuts
  BY ReturnEffect, AfterCallStage
<1>2. \A x \in Requests : x # r => req[x].stage \notin FanOuts
  BY EnginePoolAssumption DEF HandlerInv
<1> QED BY <1>1, <1>2 DEF CycleInv, SameRequest, FanOuts

(* The holder of the lock starts the fan-out after the one it finished.    *)
LEMMA EnterCycle ==
  ASSUME TypeOK, HandlerInv, CycleInv, NEW r \in Requests, UpdateStep(r),
         NextFanOut(req[r]) # "none"
  PROVE  CycleInv'
<1> DEFINE q == req[r]
           s == NextFanOut(q)
<1>1. /\ SameRequest(r) /\ req'[r].stage = s /\ req'[r].todo = members
      /\ UNCHANGED <<members, engine, disturbed>>
  BY EnterEffect DEF UpdateStep, engineVars
<1>2. \A x \in Requests : x # r => req[x].stage \notin FanOuts
  BY EnginePoolAssumption DEF HandlerInv, UpdateStep
<1>3. /\ q.todo = {} /\ q.op = "update" /\ s \in {"update", "rollback", "reset", "resume"}
      /\ s = "update" => q.stage = "pause" /\ ~q.failed
      /\ s \in {"reset", "resume"} =>
           \/ q.stage = "update" /\ ~q.failed
           \/ q.stage = "reset" /\ ~q.failed
  BY DEF UpdateStep, Joined, NextFanOut
<1>4. ASSUME NEW e \in members \ disturbed
      PROVE  /\ s = "update" => engine[e].paused
             /\ s \in {"reset", "resume"} => engine[e].weights = q.version
  BY <1>3, <1>4 DEF CycleInv
<1> QED BY <1>1, <1>2, <1>3, <1>4 DEF CycleInv, SameRequest, FanOuts

(* One engine answers, or fails to answer, the holder of the lock.         *)
LEMMA CallCycle ==
  ASSUME TypeOK, HandlerInv, CycleInv, NEW r \in Requests, NEW e \in Engines, Call(r, e)
  PROVE  CycleInv'
<1> DEFINE q == req[r]
           c == CallOf(q.stage)
<1> SUFFICES ASSUME q.op = "update"
             PROVE  CycleInv'
  <2>1. ASSUME q.op # "update" PROVE CycleInv'
    <3>1. SameRequest(r)
      BY AnsweredEffect DEF Call
    <3>2. \A x \in Requests : x # r => req[x].stage \notin FanOuts
      BY EnginePoolAssumption DEF HandlerInv, Call
    <3> QED BY <2>1, <3>1, <3>2 DEF CycleInv, SameRequest, FanOuts
  <2> QED BY <2>1
<1>1. \A x \in Requests : x # r => req[x].stage \notin FanOuts
  BY EnginePoolAssumption DEF HandlerInv, Call
<1>2. /\ SameRequest(r) /\ req'[r].stage = q.stage /\ req'[r].todo = q.todo \ {e}
      /\ q.failed => req'[r].failed
  BY AnsweredEffect DEF Call
<1>3. UNCHANGED <<members, disturbed>>
  BY DEF Call, poolVars, history
<1>4. /\ e \in q.todo
      /\ \A d \in Engines : d # e => engine'[d] = engine[d]
      /\ engine'[e] = engine[e] \/ engine'[e] = Applied(engine[e], c, q.version)
      /\ ~req'[r].failed =>
           /\ ~q.failed /\ Accepts(engine[e], c)
           /\ engine'[e] = Applied(engine[e], c, q.version)
  BY AnsweredEffect DEF Call, TypeOK
<1>5. q.stage \in {"pause", "update", "rollback", "reset", "resume"}
  BY DEF HandlerInv, Call
<1>6. /\ q.stage = "pause" => Applied(engine[e], c, q.version).paused
      /\ q.stage = "update" =>
           /\ Applied(engine[e], c, q.version).paused = engine[e].paused
           /\ Accepts(engine[e], c) => Applied(engine[e], c, q.version).weights = q.version
      /\ q.stage \in {"reset", "resume"} =>
           Applied(engine[e], c, q.version).weights = engine[e].weights
      /\ q.stage \in {"rollback", "resume"} => ~Applied(engine[e], c, q.version).paused
  BY DEF Applied, Accepts, CallOf, TypeOK, EngineState
<1>7. ASSUME NEW d \in members \ disturbed
      PROVE  /\ q.stage = "pause" /\ ~req'[r].failed /\ d \notin req'[r].todo => engine'[d].paused
             /\ q.stage = "update" => engine'[d].paused
             /\ q.stage = "update" /\ ~req'[r].failed /\ d \notin req'[r].todo =>
                  engine'[d].weights = q.version
             /\ q.stage \in {"reset", "resume"} => engine'[d].weights = q.version
             /\ q.stage \in {"rollback", "resume"} /\ ~req'[r].failed /\ d \notin req'[r].todo =>
                  ~engine'[d].paused
  <2>1. d \in Engines
    BY DEF TypeOK
  <2>2. CASE d # e
    BY <1>2, <1>4, <2>1, <2>2 DEF CycleInv
  <2>3. CASE d = e
    BY <1>2, <1>4, <1>6, <2>3 DEF CycleInv
  <2> QED BY <2>2, <2>3
<1> QED BY <1>1, <1>2, <1>3, <1>7 DEF CycleInv, SameRequest, FanOuts

LEMMA NextCycle == TypeOK /\ HandlerInv /\ CycleInv /\ [Next]_vars => CycleInv'
<1> SUFFICES ASSUME TypeOK, HandlerInv, CycleInv, [Next]_vars PROVE CycleInv'
  OBVIOUS
<1> USE EnginePoolAssumption
<1>1. ASSUME req' = req, UNCHANGED <<members, engine, disturbed>> PROVE CycleInv'
  BY <1>1 DEF CycleInv
<1>2. ASSUME NEW e \in Engines, AddEngine(e) \/ RemoveEngine(e) PROVE CycleInv'
  BY <1>2, UnlockedCycle DEF AddEngine, RemoveEngine
<1>3. ASSUME NEW e \in Engines, Disturb(e), req' = req, members' = members,
             \A d \in Engines : d # e => engine'[d] = engine[d]
      PROVE CycleInv'
  <2>1. CASE mu = NoOne
    BY <1>3, <2>1, UnlockedCycle
  <2>2. CASE mu # NoOne
    BY <1>3, <2>2 DEF Disturb, CycleInv, TypeOK
  <2> QED BY <2>1, <2>2
<1>4. ASSUME NEW e \in Engines, EngineRestart(e) PROVE CycleInv'
  BY <1>4, <1>3 DEF EngineRestart, poolVars, TypeOK
<1>5. ASSUME NEW c \in late, LateCall(c) PROVE CycleInv'
  <2>1. c.engine \in Engines
    BY DEF TypeOK
  <2> QED BY <1>5, <1>3, <2>1 DEF LateCall, poolVars, TypeOK
<1>6. ASSUME NEW r \in Requests, NEW v \in 1..MaxVersion, NEW reset \in BOOLEAN,
             ArriveUpdate(r, v, reset)
      PROVE CycleInv'
  <2>1. req'[r].stage = "announce" /\ \A x \in Requests : x # r => req'[x] = req[x]
    BY <1>6 DEF ArriveUpdate, TypeOK, Handler
  <2> QED BY <1>6, <2>1 DEF ArriveUpdate, CycleInv, poolVars, engineVars, history
<1>7. ASSUME NEW r \in Requests, NEW op \in Ops \ {"update"}, Arrive(r, op) PROVE CycleInv'
  <2>1. req'[r].op # "update" /\ \A x \in Requests : x # r => req'[x] = req[x]
    BY <1>7 DEF Arrive, TypeOK, Handler
  <2> QED BY <1>7, <2>1 DEF Arrive, CycleInv, poolVars, engineVars, history
<1>8. ASSUME NEW r \in Requests, ClientGone(r) PROVE CycleInv'
  <2>1. /\ SameRequest(r) /\ req'[r].stage = req[r].stage /\ req'[r].todo = req[r].todo
        /\ req'[r].failed = req[r].failed
    BY <1>8 DEF ClientGone, TypeOK, Handler, SameRequest
  <2> QED BY <1>8, <2>1, QuietCycle DEF ClientGone, poolVars, history
<1>9. ASSUME NEW r \in Requests, Announce(r) PROVE CycleInv'
  BY <1>9, GotoEffect, QuietCycle DEF Announce, engineVars, history
<1>10. ASSUME NEW r \in Requests, Lock(r) PROVE CycleInv'
  <2>1. CASE req[r].op = "update" /\ ~transferInited
    BY <1>10, <2>1, ReturnCycle DEF Lock
  <2>2. CASE ~(req[r].op = "update" /\ ~transferInited)
    <3> DEFINE s == IF req[r].op = "update" THEN "pause" ELSE req[r].op
    <3>1. SameRequest(r) /\ req'[r].stage = s /\ req'[r].todo = members /\ members' = members
      BY <1>10, <2>2, EnterEffect DEF Lock
    <3>2. \A x \in Requests : req[x].stage \notin FanOuts
      BY <1>10 DEF Lock, HandlerInv
    <3> QED BY <3>1, <3>2 DEF CycleInv, SameRequest, FanOuts
  <2> QED BY <2>1, <2>2
<1>11. ASSUME NEW r \in Requests, InitReturns(r) PROVE CycleInv'
  <2>1. mu = r
    BY <1>11 DEF InitReturns, Joined, HandlerInv, FanOuts
  <2> QED BY <1>11, <2>1, ReturnCycle DEF InitReturns
<1>12. ASSUME NEW r \in Requests, LifecycleReturns(r) PROVE CycleInv'
  <2>1. mu = r
    BY <1>12 DEF LifecycleReturns, Joined, HandlerInv, FanOuts
  <2> QED BY <1>12, <2>1, ReturnCycle DEF LifecycleReturns
<1>13. ASSUME NEW r \in Requests, UpdateStep(r) PROVE CycleInv'
  <2>1. mu = r
    BY <1>13 DEF UpdateStep, HandlerInv
  <2>2. CASE NextFanOut(req[r]) = "none"
    BY <1>13, <2>1, <2>2, ReturnCycle DEF UpdateStep
  <2> QED BY <1>13, <2>2, EnterCycle
<1>14. ASSUME NEW r \in Requests, Commit(r) PROVE CycleInv'
  <2>1. mu = r
    BY <1>14 DEF Commit, Joined, HandlerInv, FanOuts
  <2> QED BY <1>14, <2>1, ReturnCycle DEF Commit
<1>15. ASSUME NEW r \in Requests, Publish(r) PROVE CycleInv'
  BY <1>15, GotoEffect, QuietCycle DEF Publish, poolVars, engineVars, history
<1>16. ASSUME NEW r \in Requests, Restore(r) PROVE CycleInv'
  BY <1>16, GotoEffect, QuietCycle DEF Restore, engineVars, history
<1>17. ASSUME NEW r \in Requests, NEW e \in Engines, Call(r, e) PROVE CycleInv'
  BY <1>17, CallCycle
<1>18. ASSUME NEW g \in Gens, NEW e \in Engines, PickEngine(g, e) PROVE CycleInv'
  BY <1>18, <1>1 DEF PickEngine, poolVars, engineVars, history
<1>19. ASSUME NEW g \in Gens, Completion(g) \/ TagResponse(g) PROVE CycleInv'
  BY <1>19, <1>1 DEF Completion, TagResponse, poolVars, engineVars, history
<1>20. CASE UNCHANGED vars
  BY <1>20, <1>1 DEF vars, poolVars, engineVars, history
<1> QED
  BY <1>2, <1>4, <1>5, <1>6, <1>7, <1>8, <1>9, <1>10, <1>11, <1>12, <1>13, <1>14, <1>15,
     <1>16, <1>17, <1>18, <1>19, <1>20 DEF Next, HandlerStep

-----------------------------------------------------------------------------
(* The theorems.                                                           *)

IInv == TypeOK /\ HandlerInv /\ TransferGroupCoversPool /\ CycleInv

LEMMA Inductive == Spec => []IInv
<1>1. Init => IInv
  BY InitTypeOK, InitHandlerInv, InitGroup, InitCycle DEF IInv
<1>2. IInv /\ [Next]_vars => IInv'
  BY NextTypeOK, NextHandlerInv, NextGroup, NextCycle DEF IInv
<1> QED BY <1>1, <1>2, PTL DEF Spec

(* transferInited is TRUE only while the last successful init ran on       *)
(* exactly the engineStates registered now.                                *)
THEOREM GroupCoversPool == Spec => []TransferGroupCoversPool
<1>1. IInv => TransferGroupCoversPool
  BY DEF IInv
<1> QED BY <1>1, Inductive, PTL

(* The invariant says so of the update stage.                              *)
LEMMA PausedByCycle == IInv => PausedWhileUpdating
<1> SUFFICES ASSUME IInv, NEW r \in Requests, req[r].stage = "update",
                    NEW e \in members \ disturbed
             PROVE  engine[e].paused
  BY DEF PausedWhileUpdating
<1>1. req[r].op = "update"
  BY HandlerFields DEF IInv, TypeOK, HandlerInv, FanOuts
<1> QED BY <1>1 DEF IInv, CycleInv

(* No undisturbed engine of the pool runs while weights are streamed.      *)
THEOREM PausedDuringUpdate == Spec => []PausedWhileUpdating
  BY PausedByCycle, Inductive, PTL

(* A reported success means that every undisturbed engine of the pool has  *)
(* the target weights and is generating again.                             *)
THEOREM CommitServes == Spec => CommitLeavesPoolServing
<1> DEFINE Served(r) == req[r].stage # "publish" /\ req'[r].stage = "publish" =>
                          \A e \in members \ disturbed :
                            engine[e].weights = req[r].version /\ ~engine[e].paused
           A == \A r \in Requests : Served(r)
<1>1. IInv /\ [Next]_vars => [A]_vars
  <2> SUFFICES ASSUME IInv, Next, NEW r \in Requests,
                      req[r].stage # "publish", req'[r].stage = "publish",
                      NEW e \in members \ disturbed
               PROVE  engine[e].weights = req[r].version /\ ~engine[e].paused
    OBVIOUS
  <2> USE DEF IInv
  <2>1. ASSUME NEW x \in Requests, SameRequest(x), req'[x].stage # "publish" PROVE FALSE
    BY <2>1 DEF SameRequest
  <2>2. ASSUME NEW x \in Requests, NEW ok \in BOOLEAN, Return(x, ok),
               ~ok \/ req[x].op # "update"
        PROVE FALSE
    BY <2>1, <2>2, ReturnEffect, AfterCallStage
  <2>3. req' # req
    OBVIOUS
  <2>4. ASSUME NEW x \in Requests, NEW v \in 1..MaxVersion, NEW reset \in BOOLEAN,
               ArriveUpdate(x, v, reset)
        PROVE FALSE
    BY <2>4 DEF ArriveUpdate, TypeOK, Handler
  <2>5. ASSUME NEW x \in Requests, NEW op \in Ops \ {"update"}, Arrive(x, op) PROVE FALSE
    BY <2>5 DEF Arrive, TypeOK, Handler
  <2>6. ASSUME NEW x \in Requests, ClientGone(x) PROVE FALSE
    BY <2>6 DEF ClientGone, TypeOK, Handler
  <2>7. ASSUME NEW x \in Requests, Announce(x) \/ Publish(x) \/ Restore(x) PROVE FALSE
    BY <2>7, <2>1, GotoEffect DEF Announce, Publish, Restore
  <2>8. ASSUME NEW x \in Requests, Lock(x) PROVE FALSE
    <3>1. CASE req[x].op = "update" /\ ~transferInited
      BY <2>8, <3>1, <2>2 DEF Lock
    <3>2. CASE ~(req[x].op = "update" /\ ~transferInited)
      <4> DEFINE s == IF req[x].op = "update" THEN "pause" ELSE req[x].op
      <4>1. s # "publish"
        BY HandlerFields DEF TypeOK, Ops
      <4>2. SameRequest(x) /\ req'[x].stage = s
        BY <2>8, <3>2, EnterEffect DEF Lock
      <4> QED BY <2>1, <4>1, <4>2
    <3> QED BY <3>1, <3>2
  <2>9. ASSUME NEW x \in Requests, InitReturns(x) PROVE FALSE
    BY <2>9, <2>2 DEF InitReturns, Joined, HandlerInv, FanOuts
  <2>10. ASSUME NEW x \in Requests, LifecycleReturns(x) PROVE FALSE
    BY <2>10, <2>2 DEF LifecycleReturns
  <2>11. ASSUME NEW x \in Requests, UpdateStep(x) PROVE FALSE
    <3>1. CASE NextFanOut(req[x]) = "none"
      BY <2>11, <3>1, <2>2 DEF UpdateStep
    <3>2. CASE NextFanOut(req[x]) # "none"
      <4>1. SameRequest(x) /\ req'[x].stage = NextFanOut(req[x])
        BY <2>11, <3>2, EnterEffect DEF UpdateStep
      <4>2. NextFanOut(req[x]) # "publish"
        BY DEF NextFanOut
      <4> QED BY <2>1, <4>1, <4>2
    <3> QED BY <3>1, <3>2
  <2>12. ASSUME NEW x \in Requests, NEW d \in Engines, Call(x, d) PROVE FALSE
    <3>1. SameRequest(x) /\ req'[x].stage = req[x].stage
      BY <2>12, AnsweredEffect DEF Call
    <3> QED BY <3>1 DEF SameRequest
  <2>13. PICK x \in Requests : Commit(x)
    BY <2>3, <2>4, <2>5, <2>6, <2>7, <2>8, <2>9, <2>10, <2>11, <2>12
       DEF Next, HandlerStep, AddEngine, RemoveEngine, EngineRestart, LateCall, PickEngine,
           Completion, TagResponse
  <2>14. x = r
    BY <2>13, ReturnEffect DEF Commit, SameRequest
  <2> QED BY <2>13, <2>14 DEF Commit, Joined, CycleInv
<1>2. [][A]_vars => CommitLeavesPoolServing
  BY PTL DEF CommitLeavesPoolServing
<1> QED BY <1>1, <1>2, Inductive, PTL DEF Spec

(* The pool implements WeightSyncPool: every step of the handlers, of the  *)
(* engines and of discovery is a step or a stutter of the abstract pool.   *)
THEOREM PoolKeepsPromise == Spec => KeepsPromise
<1>1. Init => Promise!PInit
  BY DEF Init, Promise!PInit, Current
<1>2. IInv /\ [Next]_vars => [Promise!PNext]_(Promise!pvars)
  <2> SUFFICES ASSUME IInv, [Next]_vars
               PROVE  Promise!PNext \/ UNCHANGED Promise!pvars
    OBVIOUS
  <2> USE DEF IInv
  <2>1. TypeOK'
    BY NextTypeOK
  <2>2. ASSUME UNCHANGED <<members, joins, transferInited, group, weightVersion>>
        PROVE  UNCHANGED Promise!pvars
    BY <2>2 DEF Promise!pvars, Current
  <2>3. ASSUME NEW e \in Engines, AddEngine(e) \/ RemoveEngine(e) PROVE Promise!PNext
    <3>1. Current' \in SUBSET Incarnation
      BY <2>1 DEF TypeOK, Current, Incarnation
    <3> QED BY <2>3, <3>1 DEF AddEngine, RemoveEngine, Promise!PNext, Promise!Reshape
  <2>4. ASSUME NEW r \in Requests, InitReturns(r)
        PROVE  Promise!PNext \/ UNCHANGED Promise!pvars
    <3>1. CASE req[r].failed
      BY <2>4, <3>1, <2>2 DEF InitReturns
    <3>2. CASE ~req[r].failed
      BY <2>4, <3>2 DEF InitReturns, Promise!PNext, Promise!Form, Current
    <3> QED BY <3>1, <3>2
  <2>5. ASSUME NEW r \in Requests, Commit(r) PROVE Promise!PNext
    <3>1. transferInited /\ group = Current /\ req[r].version \in 1..MaxVersion
      BY <2>5 DEF Commit, Joined, HandlerInv, FanOuts, TransferGroupCoversPool
    <3> QED BY <2>5, <3>1 DEF Commit, Promise!PNext, Promise!Sync, Current
  <2>6. ASSUME NEW r \in Requests,
               Announce(r) \/ Lock(r) \/ LifecycleReturns(r) \/ UpdateStep(r) \/ Restore(r)
        PROVE  UNCHANGED Promise!pvars
    BY <2>6, <2>2 DEF Announce, Lock, LifecycleReturns, UpdateStep, Restore, history
  <2>7. ASSUME NEW r \in Requests, ClientGone(r) \/ Publish(r) PROVE UNCHANGED Promise!pvars
    BY <2>7, <2>2 DEF ClientGone, Publish, poolVars, history
  <2>8. ASSUME NEW r \in Requests, NEW e \in Engines, Call(r, e) PROVE UNCHANGED Promise!pvars
    BY <2>8, <2>2 DEF Call, poolVars, history
  <2>9. ASSUME NEW r \in Requests, NEW v \in 1..MaxVersion, NEW reset \in BOOLEAN,
               ArriveUpdate(r, v, reset)
        PROVE  UNCHANGED Promise!pvars
    BY <2>9, <2>2 DEF ArriveUpdate, poolVars, history
  <2>10. ASSUME NEW r \in Requests, NEW op \in Ops \ {"update"}, Arrive(r, op)
         PROVE  UNCHANGED Promise!pvars
    BY <2>10, <2>2 DEF Arrive, poolVars, history
  <2>11. ASSUME NEW e \in Engines, EngineRestart(e) PROVE UNCHANGED Promise!pvars
    BY <2>11, <2>2 DEF EngineRestart, poolVars
  <2>12. ASSUME NEW c \in late, LateCall(c) PROVE UNCHANGED Promise!pvars
    BY <2>12, <2>2 DEF LateCall, poolVars
  <2>13. ASSUME NEW g \in Gens, NEW e \in Engines, PickEngine(g, e)
         PROVE  UNCHANGED Promise!pvars
    BY <2>13, <2>2 DEF PickEngine, poolVars, history
  <2>14. ASSUME NEW g \in Gens, Completion(g) \/ TagResponse(g)
         PROVE  UNCHANGED Promise!pvars
    BY <2>14, <2>2 DEF Completion, TagResponse, poolVars, history
  <2>15. CASE UNCHANGED vars
    BY <2>15, <2>2 DEF vars, poolVars, history
  <2> QED
    BY <2>3, <2>4, <2>5, <2>6, <2>7, <2>8, <2>9, <2>10, <2>11, <2>12, <2>13, <2>14, <2>15
       DEF Next, HandlerStep
<1> QED BY <1>1, <1>2, Inductive, PTL DEF Spec, KeepsPromise, Promise!PSpec

(* The phase is never stranded at Syncing.                                 *)
THEOREM SyncingOwned == Spec => []SyncingHasOwner
<1> DEFINE Owner(r) == req[r].op = "update" /\ req[r].stage \notin {"idle", "announce", "done"}
<1>1. Init => SyncingHasOwner
  BY DEF Init, SyncingHasOwner
<1>2. IInv /\ SyncingHasOwner /\ [Next]_vars => SyncingHasOwner'
  <2> SUFFICES ASSUME IInv, SyncingHasOwner, [Next]_vars, phase' = "Syncing"
               PROVE  \E r \in Requests : Owner(r)'
    BY DEF SyncingHasOwner
  <2> USE DEF IInv
  <2> DEFINE Owned == \E r \in Requests : Owner(r)'
  <2>1. ASSUME phase' = phase, req' = req PROVE Owned
    BY <2>1 DEF SyncingHasOwner
  <2>2. ASSUME NEW x \in Requests, SameRequest(x), phase' = phase,
               req[x].op = "update" /\ req[x].stage \notin {"idle", "announce", "done"} =>
                 req'[x].stage \notin {"idle", "announce", "done"}
        PROVE  Owned
    <3>1. PICK w \in Requests : Owner(w)
      BY <2>2 DEF SyncingHasOwner
    <3>2. CASE w = x
      BY <2>2, <3>1, <3>2 DEF SameRequest
    <3>3. CASE w # x
      BY <2>2, <3>1, <3>3 DEF SameRequest
    <3> QED BY <3>2, <3>3
  <2>3. ASSUME NEW x \in Requests, NEW ok \in BOOLEAN, Return(x, ok), phase' = phase
        PROVE  Owned
    <3>1. req[x].op = "update" => AfterCall(x, ok) \in {"publish", "restore"}
      BY DEF AfterCall
    <3> QED BY <2>2, <2>3, <3>1, ReturnEffect
  <2>4. ASSUME NEW x \in Requests, NEW s \in FanOuts, Enter(x, s), phase' = phase PROVE Owned
    BY <2>2, <2>4, EnterEffect DEF FanOuts
  <2>5. ASSUME NEW x \in Requests, NEW v \in 1..MaxVersion, NEW reset \in BOOLEAN,
               ArriveUpdate(x, v, reset)
        PROVE  Owned
    <3>1. /\ phase' = phase /\ req[x].stage = "idle"
          /\ \A y \in Requests : y # x => req'[y] = req[y]
      BY <2>5 DEF ArriveUpdate, poolVars, TypeOK
    <3> QED BY <3>1 DEF SyncingHasOwner
  <2>6. ASSUME NEW x \in Requests, NEW op \in Ops \ {"update"}, Arrive(x, op) PROVE Owned
    <3>1. /\ phase' = phase /\ req[x].stage = "idle"
          /\ \A y \in Requests : y # x => req'[y] = req[y]
      BY <2>6 DEF Arrive, poolVars, TypeOK
    <3> QED BY <3>1 DEF SyncingHasOwner
  <2>7. ASSUME NEW x \in Requests, ClientGone(x) PROVE Owned
    <3>1. SameRequest(x) /\ req'[x].stage = req[x].stage
      BY <2>7 DEF ClientGone, TypeOK, Handler, SameRequest
    <3> QED BY <2>2, <2>7, <3>1 DEF ClientGone, poolVars
  <2>8. ASSUME NEW x \in Requests, Announce(x) PROVE Owned
    <3>1. SameRequest(x) /\ req'[x].stage = "lock"
      BY <2>8, GotoEffect DEF Announce
    <3>2. req[x].op = "update"
      BY <2>8 DEF Announce, SetPhase
    <3> QED BY <3>1, <3>2 DEF SameRequest
  <2>9. ASSUME NEW x \in Requests, Lock(x) PROVE Owned
    <3>1. CASE req[x].op = "update" /\ ~transferInited
      BY <2>9, <3>1, <2>3 DEF Lock
    <3>2. CASE ~(req[x].op = "update" /\ ~transferInited)
      <4> DEFINE s == IF req[x].op = "update" THEN "pause" ELSE req[x].op
      <4>1. s \in FanOuts
        BY HandlerFields DEF TypeOK, Ops, FanOuts
      <4> QED BY <2>9, <3>2, <4>1, <2>4 DEF Lock
    <3> QED BY <3>1, <3>2
  <2>10. ASSUME NEW x \in Requests, InitReturns(x) \/ LifecycleReturns(x) \/ Commit(x)
         PROVE  Owned
    <3>1. phase' = phase
      BY <2>10 DEF InitReturns, LifecycleReturns, Commit
    <3> QED BY <2>10, <3>1, <2>3 DEF InitReturns, LifecycleReturns, Commit
  <2>11. ASSUME NEW x \in Requests, UpdateStep(x) PROVE Owned
    <3>1. NextFanOut(req[x]) # "none" => NextFanOut(req[x]) \in FanOuts
      BY DEF NextFanOut, FanOuts
    <3> QED BY <2>11, <3>1, <2>3, <2>4 DEF UpdateStep
  <2>12. ASSUME NEW x \in Requests, Publish(x) PROVE Owned
    BY <2>12, <2>2, GotoEffect DEF Publish, poolVars
  <2>13. ASSUME NEW x \in Requests, Restore(x) PROVE FALSE
    BY <2>13 DEF Restore, SetPhase
  <2>14. ASSUME NEW x \in Requests, NEW e \in Engines, Call(x, e) PROVE Owned
    <3>1. SameRequest(x) /\ req'[x].stage = req[x].stage
      BY <2>14, AnsweredEffect DEF Call
    <3> QED BY <2>2, <2>14, <3>1 DEF Call, poolVars
  <2>15. ASSUME NEW e \in Engines, AddEngine(e) \/ RemoveEngine(e) \/ EngineRestart(e)
         PROVE  Owned
    BY <2>15, <2>1 DEF AddEngine, RemoveEngine, EngineRestart, poolVars
  <2>16. ASSUME NEW c \in late, LateCall(c) PROVE Owned
    BY <2>16, <2>1 DEF LateCall, poolVars
  <2>17. ASSUME NEW g \in Gens, NEW e \in Engines, PickEngine(g, e) PROVE Owned
    BY <2>17, <2>1 DEF PickEngine, poolVars
  <2>18. ASSUME NEW g \in Gens, Completion(g) \/ TagResponse(g) PROVE Owned
    BY <2>18, <2>1 DEF Completion, TagResponse, poolVars
  <2>19. ASSUME UNCHANGED vars PROVE Owned
    BY <2>19, <2>1 DEF vars, poolVars
  <2> HIDE DEF Owned
  <2>20. Owned
    BY <2>5, <2>6, <2>7, <2>8, <2>9, <2>10, <2>11, <2>12, <2>13, <2>14, <2>15, <2>16,
       <2>17, <2>18, <2>19 DEF Next, HandlerStep
  <2> QED BY <2>20 DEF Owned
<1> QED BY <1>1, <1>2, Inductive, PTL DEF Spec

(* The rollback of a failed update leaves every undisturbed engine of the  *)
(* pool running, unless the rollback fails as well.                        *)
THEOREM RollbackRestores == Spec => RollbackRestoresService
<1> DEFINE Restored(r) ==
             LET q == req[r]
             IN q.stage \in {"update", "rollback"} /\ req'[r].stage = "restore"
                /\ ~ (q.stage = "rollback" /\ q.failed) =>
                  \A e \in members \ disturbed : ~engine[e].paused
           A == \A r \in Requests : Restored(r)
<1>1. IInv /\ [Next]_vars => [A]_vars
  <2> SUFFICES ASSUME IInv, Next, NEW r \in Requests,
                      req[r].stage \in {"update", "rollback"}, req'[r].stage = "restore",
                      ~ (req[r].stage = "rollback" /\ req[r].failed),
                      NEW e \in members \ disturbed
               PROVE  ~engine[e].paused
    OBVIOUS
  <2> USE DEF IInv
  <2>1. req[r].op = "update" /\ req' # req
    <3>1. req[r].op \in Ops
      BY HandlerFields DEF TypeOK
    <3> QED BY <3>1 DEF HandlerInv, FanOuts, Ops
  <2>2. ASSUME NEW x \in Requests, SameRequest(x), x # r \/ req'[x].stage # "restore"
        PROVE FALSE
    BY <2>2 DEF SameRequest
  <2>3. ASSUME NEW x \in Requests, NEW ok \in BOOLEAN, Return(x, ok), x # r PROVE FALSE
    BY <2>2, <2>3, ReturnEffect
  <2>4. ASSUME NEW x \in Requests, NEW v \in 1..MaxVersion, NEW reset \in BOOLEAN,
               ArriveUpdate(x, v, reset)
        PROVE FALSE
    BY <2>4 DEF ArriveUpdate, TypeOK, Handler
  <2>5. ASSUME NEW x \in Requests, NEW op \in Ops \ {"update"}, Arrive(x, op) PROVE FALSE
    BY <2>5 DEF Arrive, TypeOK, Handler
  <2>6. ASSUME NEW x \in Requests, ClientGone(x) PROVE FALSE
    BY <2>6 DEF ClientGone, TypeOK, Handler
  <2>7. ASSUME NEW x \in Requests, Announce(x) \/ Publish(x) \/ Restore(x) PROVE FALSE
    BY <2>7, <2>2, GotoEffect DEF Announce, Publish, Restore
  <2>8. ASSUME NEW x \in Requests, Lock(x) PROVE FALSE
    <3>1. x # r
      BY <2>8 DEF Lock
    <3>2. CASE req[x].op = "update" /\ ~transferInited
      BY <2>8, <3>1, <3>2, <2>3 DEF Lock
    <3>3. CASE ~(req[x].op = "update" /\ ~transferInited)
      BY <2>8, <3>1, <3>3, <2>2, EnterEffect DEF Lock
    <3> QED BY <3>2, <3>3
  <2>9. ASSUME NEW x \in Requests, InitReturns(x) \/ LifecycleReturns(x) \/ Commit(x) PROVE FALSE
    <3>1. x # r
      BY <2>1, <2>9 DEF InitReturns, LifecycleReturns, Commit, Joined
    <3> QED BY <2>9, <3>1, <2>3 DEF InitReturns, LifecycleReturns, Commit, TypeOK, Handler
  <2>10. ASSUME NEW x \in Requests, NEW d \in Engines, Call(x, d) PROVE FALSE
    <3>1. SameRequest(x) /\ req'[x].stage = req[x].stage
      BY <2>10, AnsweredEffect DEF Call
    <3> QED BY <2>2, <3>1
  <2>11. PICK x \in Requests : UpdateStep(x)
    BY <2>1, <2>4, <2>5, <2>6, <2>7, <2>8, <2>9, <2>10
       DEF Next, HandlerStep, AddEngine, RemoveEngine, EngineRestart, LateCall, PickEngine,
           Completion, TagResponse
  <2>12. CASE NextFanOut(req[x]) # "none"
    <3>1. SameRequest(x) /\ req'[x].stage = NextFanOut(req[x])
      BY <2>11, <2>12, EnterEffect DEF UpdateStep
    <3>2. NextFanOut(req[x]) # "restore"
      BY DEF NextFanOut
    <3> QED BY <2>2, <3>1, <3>2
  <2>13. CASE NextFanOut(req[x]) = "none"
    <3>1. x = r
      BY <2>3, <2>11, <2>13 DEF UpdateStep
    <3>2. req[r].stage = "rollback" /\ ~req[r].failed /\ req[r].todo = {}
      BY <2>11, <2>13, <3>1 DEF UpdateStep, NextFanOut, Joined
    <3> QED BY <2>1, <3>2 DEF CycleInv
  <2> QED BY <2>12, <2>13
<1>2. [][A]_vars => RollbackRestoresService
  BY PTL DEF RollbackRestoresService
<1> QED BY <1>1, <1>2, Inductive, PTL DEF Spec
=============================================================================
