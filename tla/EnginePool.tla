----------------------------- MODULE EnginePool -----------------------------
(***************************************************************************)
(* The rollout controller's engine pool (pkg/pool/engine_pool.go) and the  *)
(* HTTP handlers that drive it (pkg/rollout/server.go).                    *)
(*                                                                         *)
(* Every handler is a goroutine.  A pool operation holds the write lock mu *)
(* while it fans a call out to every engine and waits for all the answers; *)
(* the calls of one fan-out are concurrent, so each is a step of its own,  *)
(* in any order.  A call may be refused, may be applied with its answer    *)
(* lost, or may be given up by the client and applied later.  An engine    *)
(* may restart at any time and the controller does not notice.             *)
(***************************************************************************)
EXTENDS Naturals, FiniteSets

CONSTANTS
  Engines,      \* ids under which engines are registered
  Requests,     \* weight-management and lifecycle HTTP requests
  Gens,         \* generation HTTP requests
  MaxVersion,   \* target versions are 1..MaxVersion; 0 is "never synced"
  MaxJoins,     \* bound: registrations of one id
  MaxFaults,    \* bound: engine, network and client faults of one behaviour
  NoOne         \* the lock is free; there is no engine; there is no group

ASSUME EnginePoolAssumption ==
  /\ MaxVersion \in Nat /\ MaxJoins \in Nat /\ MaxFaults \in Nat
  /\ NoOne \notin Engines \cup Requests

VARIABLES
  mu,             \* EnginePool.mu: the request that holds it for writing
  members,        \* the keys of EnginePool.engines
  joins,          \* how often each id was registered: its engineState object
  phase,          \* EnginePool.phase
  transferInited, \* EnginePool.transferInited
  weightVersion,  \* EnginePool.weightVersion
  serverVersion,  \* Server.weightVersion
  req,            \* the handler goroutines
  gen,            \* the handleGenerate goroutines
  engine,         \* the engine processes behind the ids
  late,           \* calls the client gave up on that an engine has yet to run
  faults,         \* faults so far
  group,          \* history: the engineStates of the last successful init
  disturbed       \* history: engines changed behind the lock holder's back

poolVars   == <<mu, members, joins, phase, transferInited, weightVersion>>
engineVars == <<engine, late, faults>>
history    == <<group, disturbed>>
vars == <<poolVars, serverVersion, req, gen, engineVars, history>>

Versions == 0..MaxVersion
Ops == {"init", "update", "pause", "resume", "sleep", "wake"}

(* The fan-outs; "rollback" is the resume after a failed update.           *)
FanOuts == {"init", "pause", "update", "rollback", "reset", "resume", "sleep", "wake"}

(* A handler outside its fan-outs: announce is the SetPhase before the     *)
(* pool call, publish the write of Server.weightVersion, restore the       *)
(* SetPhase(Serving) after the call.                                       *)
Stages == FanOuts \cup {"idle", "announce", "lock", "publish", "restore", "done"}

Calls == FanOuts \ {"rollback"}
Handler == [op : Ops, stage : Stages, todo : SUBSET Engines, failed : BOOLEAN,
            sent : BOOLEAN, cancelled : BOOLEAN, version : Versions, reset : BOOLEAN]
Generation == [stage : {"idle", "picked", "answered", "tagged"},
               engine : Engines \cup {NoOne}, made : Versions, tag : Versions]
EngineState == [weights : Versions, paused : BOOLEAN, asleep : BOOLEAN, joined : BOOLEAN]
Incarnation == Engines \X (0..MaxJoins)
Current == {<<e, joins[e]>> : e \in members}

FreshEngine == [weights |-> 0, paused |-> FALSE, asleep |-> FALSE, joined |-> FALSE]

Init ==
  /\ mu = NoOne /\ members = {} /\ joins = [e \in Engines |-> 0]
  /\ phase = "Serving" /\ transferInited = FALSE
  /\ weightVersion = 0 /\ serverVersion = 0
  /\ req = [r \in Requests |->
              [op |-> "pause", stage |-> "idle", todo |-> {}, failed |-> FALSE,
               sent |-> FALSE, cancelled |-> FALSE, version |-> 0, reset |-> FALSE]]
  /\ gen = [g \in Gens |-> [stage |-> "idle", engine |-> NoOne, made |-> 0, tag |-> 0]]
  /\ engine = [e \in Engines |-> FreshEngine]
  /\ late = {} /\ faults = 0
  /\ group = NoOne /\ disturbed = {}

Fault == faults < MaxFaults /\ faults' = faults + 1

-----------------------------------------------------------------------------
(* Membership: called by the static list and by the pod watcher.           *)

(* Faulty variants: the transfer group survives a change of the pool.      *)
AddEngineKeepsGroup(e) ==
  /\ mu = NoOne
  /\ joins[e] < MaxJoins
  /\ members' = members \cup {e}
  /\ joins' = [joins EXCEPT ![e] = @ + 1]
  /\ UNCHANGED <<mu, phase, transferInited, weightVersion, serverVersion, req, gen,
                 engineVars, history>>

RemoveEngineKeepsGroup(e) ==
  /\ mu = NoOne
  /\ members' = members \ {e}
  /\ UNCHANGED <<mu, joins, phase, transferInited, weightVersion, serverVersion, req, gen,
                 engineVars, history>>

AddEngine(e) ==
  /\ mu = NoOne
  /\ joins[e] < MaxJoins
  /\ members' = members \cup {e}
  /\ joins' = [joins EXCEPT ![e] = @ + 1]
  /\ transferInited' = FALSE
  /\ UNCHANGED <<mu, phase, weightVersion, serverVersion, req, gen, engineVars, history>>

RemoveEngine(e) ==
  /\ mu = NoOne
  /\ members' = members \ {e}
  /\ transferInited' = FALSE
  /\ UNCHANGED <<mu, joins, phase, weightVersion, serverVersion, req, gen, engineVars,
                 history>>

-----------------------------------------------------------------------------
(* The engines, as the controller's calls use them.                        *)

(* What engine state s becomes when the call runs.  Weights arrive only    *)
(* over a transfer group the process has joined.                           *)
Applied(s, call, v) ==
  CASE call = "init" -> [s EXCEPT !.joined = TRUE]
    [] call = "pause" -> [s EXCEPT !.paused = TRUE]
    [] call = "resume" -> [s EXCEPT !.paused = FALSE]
    [] call = "update" /\ s.joined -> [s EXCEPT !.weights = v]
    [] call = "sleep" -> [s EXCEPT !.asleep = TRUE]
    [] call = "wake" -> [s EXCEPT !.asleep = FALSE]
    [] OTHER -> s

Accepts(s, call) == call = "update" => s.joined

(* A change that the holder of the lock did not ask for.                   *)
Disturb(e) == disturbed' = IF mu = NoOne THEN disturbed ELSE disturbed \cup {e}

EngineRestart(e) ==
  /\ Fault
  /\ engine' = [engine EXCEPT ![e] = FreshEngine]
  /\ late' = {c \in late : c.engine # e}
  /\ Disturb(e)
  /\ UNCHANGED <<poolVars, serverVersion, req, gen, group>>

LateCall(c) ==
  /\ engine' = [engine EXCEPT ![c.engine] = Applied(@, c.call, c.version)]
  /\ late' = late \ {c}
  /\ Disturb(c.engine)
  /\ UNCHANGED <<poolVars, serverVersion, req, gen, faults, group>>

-----------------------------------------------------------------------------
(* fanOut: every engine of the pool gets the call, errors are collected.   *)

CallOf(stage) == IF stage = "rollback" THEN "resume" ELSE stage

(* All fan-outs of a request share its context: once it is cancelled no    *)
(* call of a later fan-out is sent.                                        *)
Enter(r, stage) ==
  req' = [req EXCEPT ![r] = [@ EXCEPT !.stage = stage, !.todo = members, !.failed = FALSE,
                                      !.sent = ~req[r].cancelled]]

Answered(r, e, failed) ==
  req' = [req EXCEPT ![r].todo = @ \ {e}, ![r].failed = @ \/ failed]

Call(r, e) ==
  LET q == req[r]
      c == CallOf(q.stage)
      applied == [engine EXCEPT ![e] = Applied(@, c, q.version)]
  IN /\ q.stage \in FanOuts
     /\ e \in q.todo
     /\ \/ /\ q.sent /\ ~q.cancelled /\ Accepts(engine[e], c)
           /\ engine' = applied /\ Answered(r, e, FALSE)
           /\ UNCHANGED <<late, faults>>
        \/ /\ IF q.cancelled \/ ~Accepts(engine[e], c) THEN UNCHANGED faults ELSE Fault
           /\ Answered(r, e, TRUE)
           /\ UNCHANGED <<engine, late>>
        \/ /\ q.sent /\ Accepts(engine[e], c)
           /\ IF q.cancelled THEN UNCHANGED faults ELSE Fault
           /\ engine' = applied /\ Answered(r, e, TRUE)
           /\ UNCHANGED late
        \/ /\ q.sent /\ Fault
           /\ late' = late \cup {[engine |-> e, call |-> c, version |-> q.version]}
           /\ Answered(r, e, TRUE)
           /\ UNCHANGED engine
     /\ UNCHANGED <<poolVars, serverVersion, gen, history>>

(* wg.Wait has returned in stage s of request r.                           *)
Joined(r, s) == req[r].stage = s /\ req[r].todo = {}

-----------------------------------------------------------------------------
(* The handlers.                                                           *)

Goto(r, stage) == req' = [req EXCEPT ![r].stage = stage]

ArriveUpdate(r, v, reset) ==
  /\ req[r].stage = "idle"
  /\ req' = [req EXCEPT ![r] = [@ EXCEPT !.op = "update", !.stage = "announce",
                                        !.version = v, !.reset = reset]]
  /\ UNCHANGED <<poolVars, serverVersion, gen, engineVars, history>>

Arrive(r, op) ==
  /\ req[r].stage = "idle"
  /\ req' = [req EXCEPT ![r] = [@ EXCEPT !.op = op,
                                        !.stage = IF op = "sleep" THEN "announce" ELSE "lock"]]
  /\ UNCHANGED <<poolVars, serverVersion, gen, engineVars, history>>

(* r.Context() is cancelled when the client hangs up or times out.         *)
ClientGone(r) ==
  /\ req[r].stage \notin {"idle", "done"} /\ ~req[r].cancelled
  /\ Fault
  /\ req' = [req EXCEPT ![r].cancelled = TRUE]
  /\ UNCHANGED <<poolVars, serverVersion, gen, engine, late, history>>

SetPhase(p) == mu = NoOne /\ phase' = p

Announce(r) ==
  /\ req[r].stage = "announce"
  /\ SetPhase(IF req[r].op = "update" THEN "Syncing" ELSE "Sleeping")
  /\ Goto(r, "lock")
  /\ UNCHANGED <<mu, members, joins, transferInited, weightVersion, serverVersion, gen,
                 engineVars, history>>

(* Faulty variant: the phase is not restored after a failed update.        *)
AfterCallWithoutRestore(r, ok) ==
  IF req[r].op = "update" /\ ok THEN "publish" ELSE "done"

(* Where a handler goes once its pool call has returned.                   *)
AfterCall(r, ok) ==
  CASE req[r].op = "update" -> IF ok THEN "publish" ELSE "restore"
    [] req[r].op = "wake" /\ ok -> "restore"
    [] OTHER -> "done"

(* Faulty variant: an error path that does not unlock.                     *)
ReturnLocked(r, ok) ==
  /\ mu' = IF ok THEN NoOne ELSE mu
  /\ disturbed' = {}
  /\ req' = [req EXCEPT ![r] =
       [@ EXCEPT !.stage = AfterCall(r, ok), !.failed = FALSE, !.sent = FALSE]]

(* The pool call returns and its deferred unlock runs.                     *)
Return(r, ok) == /\ mu' = NoOne
                 /\ disturbed' = {}
                 /\ req' = [req EXCEPT ![r] =
                      [@ EXCEPT !.stage = AfterCall(r, ok), !.failed = FALSE, !.sent = FALSE]]

(* The pool call takes mu and starts its first fan-out; an update without  *)
(* a transfer group returns at once.                                       *)
Lock(r) ==
  /\ req[r].stage = "lock"
  /\ mu = NoOne
  /\ IF req[r].op = "update" /\ ~transferInited
     THEN Return(r, FALSE)
     ELSE /\ mu' = r
          /\ Enter(r, IF req[r].op = "update" THEN "pause" ELSE req[r].op)
          /\ UNCHANGED disturbed
  /\ UNCHANGED <<members, joins, phase, transferInited, weightVersion, serverVersion, gen,
                 engineVars, group>>

InitReturns(r) ==
  /\ Joined(r, "init")
  /\ IF req[r].failed
     THEN UNCHANGED <<transferInited, group>>
     ELSE transferInited' = TRUE /\ group' = Current
  /\ Return(r, ~req[r].failed)
  /\ UNCHANGED <<members, joins, phase, weightVersion, serverVersion, gen, engineVars>>

(* PauseAll, ResumeAll, SleepAll and WakeUpAll are one fan-out each.       *)
LifecycleReturns(r) ==
  /\ req[r].op \in {"pause", "resume", "sleep", "wake"}
  /\ Joined(r, req[r].op)
  /\ Return(r, ~req[r].failed)
  /\ UNCHANGED <<members, joins, phase, transferInited, weightVersion, serverVersion, gen,
                 engineVars, group>>

(* Faulty variants of NextFanOut: a failed pause, or a failed update, is   *)
(* taken for a success; a failed update returns at once.                   *)
NextFanOutAfterFailedPause(q) ==
  CASE q.stage = "pause" -> "update"
    [] q.stage = "update" -> IF q.failed THEN "rollback" ELSE "resume"
    [] q.stage = "reset" -> IF q.failed THEN "none" ELSE "resume"
    [] OTHER -> "none"

NextFanOutAfterFailedUpdate(q) ==
  CASE q.stage = "pause" -> IF q.failed THEN "none" ELSE "update"
    [] q.stage = "update" -> IF q.reset THEN "reset" ELSE "resume"
    [] q.stage = "reset" -> IF q.failed THEN "none" ELSE "resume"
    [] OTHER -> "none"

NextFanOutWithoutRollback(q) ==
  CASE q.stage = "pause" -> IF q.failed THEN "none" ELSE "update"
    [] q.stage = "update" -> IF q.failed THEN "none" ELSE IF q.reset THEN "reset" ELSE "resume"
    [] q.stage = "reset" -> IF q.failed THEN "none" ELSE "resume"
    [] OTHER -> "none"

(* UpdateWeights between two of its fan-outs: an error ends the cycle,     *)
(* except that a failed update first resumes the engines.                  *)
NextFanOut(q) ==
  CASE q.stage = "pause" -> IF q.failed THEN "none" ELSE "update"
    [] q.stage = "update" -> IF q.failed THEN "rollback" ELSE IF q.reset THEN "reset" ELSE "resume"
    [] q.stage = "reset" -> IF q.failed THEN "none" ELSE "resume"
    [] OTHER -> "none"

UpdateStep(r) ==
  LET q == req[r]
  IN /\ q.op = "update"
     /\ q.stage \in FanOuts /\ Joined(r, q.stage)
     /\ q.stage = "resume" => q.failed
     /\ \/ NextFanOut(q) = "none" /\ Return(r, FALSE)
        \/ /\ NextFanOut(q) # "none" /\ Enter(r, NextFanOut(q))
           /\ UNCHANGED <<mu, disturbed>>
     /\ UNCHANGED <<members, joins, phase, transferInited, weightVersion, serverVersion, gen,
                    engineVars, group>>

(* The last fan-out succeeded: UpdateWeights records the version.          *)
Commit(r) ==
  /\ req[r].op = "update"
  /\ Joined(r, "resume") /\ ~req[r].failed
  /\ weightVersion' = req[r].version
  /\ Return(r, TRUE)
  /\ UNCHANGED <<members, joins, phase, transferInited, serverVersion, gen, engineVars, group>>

(* Faulty variant: counts the synchronisations instead of recording the     *)
(* version of the request.                                                 *)
PublishCount(r) ==
  /\ req[r].stage = "publish"
  /\ serverVersion' = serverVersion + 1
  /\ Goto(r, "restore")
  /\ UNCHANGED <<poolVars, gen, engineVars, history>>

Publish(r) ==
  /\ req[r].stage = "publish"
  /\ serverVersion' = req[r].version
  /\ Goto(r, "restore")
  /\ UNCHANGED <<poolVars, gen, engineVars, history>>

Restore(r) ==
  /\ req[r].stage = "restore"
  /\ SetPhase("Serving")
  /\ Goto(r, "done")
  /\ UNCHANGED <<mu, members, joins, transferInited, weightVersion, serverVersion, gen,
                 engineVars, history>>

-----------------------------------------------------------------------------
(* handleGenerate in direct dispatch.  Which members are ready is decided  *)
(* by the health loop (EngineDiscovery); here it may be any of them.       *)

PickEngine(g, e) ==
  /\ gen[g].stage = "idle"
  /\ mu = NoOne
  /\ e \in members
  /\ gen' = [gen EXCEPT ![g].stage = "picked", ![g].engine = e]
  /\ UNCHANGED <<poolVars, serverVersion, req, engineVars, history>>

(* A paused or sleeping engine keeps the request waiting.                  *)
Completion(g) ==
  /\ gen[g].stage = "picked"
  /\ LET s == engine[gen[g].engine]
     IN /\ ~s.paused /\ ~s.asleep
        /\ gen' = [gen EXCEPT ![g].stage = "answered", ![g].made = s.weights]
  /\ UNCHANGED <<poolVars, serverVersion, req, engineVars, history>>

TagResponse(g) ==
  /\ gen[g].stage = "answered"
  /\ gen' = [gen EXCEPT ![g].stage = "tagged", ![g].tag = serverVersion]
  /\ UNCHANGED <<poolVars, serverVersion, req, engineVars, history>>

-----------------------------------------------------------------------------
HandlerStep(r) ==
  \/ Announce(r) \/ Lock(r) \/ InitReturns(r) \/ LifecycleReturns(r)
  \/ UpdateStep(r) \/ Commit(r) \/ Publish(r) \/ Restore(r)
  \/ \E e \in Engines : Call(r, e)

Next ==
  \/ \E e \in Engines : AddEngine(e) \/ RemoveEngine(e) \/ EngineRestart(e)
  \/ \E c \in late : LateCall(c)
  \/ \E r \in Requests :
       \/ \E v \in 1..MaxVersion, reset \in BOOLEAN : ArriveUpdate(r, v, reset)
       \/ \E op \in Ops \ {"update"} : Arrive(r, op)
       \/ ClientGone(r)
       \/ HandlerStep(r)
  \/ \E g \in Gens :
       \/ \E e \in Engines : PickEngine(g, e)
       \/ Completion(g)
       \/ TagResponse(g)

Spec == Init /\ [][Next]_vars

(* Fan-out calls end because every engine client has a timeout; the other  *)
(* steps are plain code.  Announce, Lock and Restore wait for mu, which    *)
(* sync.RWMutex hands to waiters in turn: hence strong fairness.           *)
Fairness ==
  \A r \in Requests :
    /\ WF_vars(InitReturns(r) \/ LifecycleReturns(r) \/ UpdateStep(r) \/ Commit(r) \/ Publish(r))
    /\ WF_vars(\E e \in Engines : Call(r, e))
    /\ SF_vars(Announce(r) \/ Lock(r) \/ Restore(r))

FairSpec == Spec /\ Fairness

-----------------------------------------------------------------------------
(* Properties.                                                             *)

(* Every variable has its type.                                            *)
TypeOK ==
  /\ mu \in Requests \cup {NoOne}
  /\ members \subseteq Engines
  /\ joins \in [Engines -> 0..MaxJoins]
  /\ phase \in {"Serving", "Syncing", "Sleeping"}
  /\ transferInited \in BOOLEAN
  /\ weightVersion \in Versions /\ serverVersion \in Versions
  /\ req \in [Requests -> Handler]
  /\ gen \in [Gens -> Generation]
  /\ \A g \in Gens : gen[g].stage = "picked" => gen[g].engine \in Engines
  /\ engine \in [Engines -> EngineState]
  /\ late \subseteq [engine : Engines, call : Calls, version : Versions]
  /\ faults \in 0..MaxFaults
  /\ group \in {NoOne} \cup SUBSET Incarnation
  /\ disturbed \subseteq Engines

(* transferInited means that the last successful InitWeightTransfer ran on *)
(* exactly the engineStates registered now: no engine that joined, or      *)
(* rejoined under its old id, after the group was formed is ever taken for *)
(* a member of it.                                                         *)
TransferGroupCoversPool == transferInited => group = Current

(* While UpdateWeights streams weights, an engine of the pool that nobody  *)
(* restarted or reached with a stale call is paused: no token is produced  *)
(* from half-written weights.                                              *)
PausedWhileUpdating ==
  \A r \in Requests : req[r].stage = "update" =>
    \A e \in members \ disturbed : engine[e].paused

(* The phase is never left at Syncing: while it is, the update handler     *)
(* that set it, or a later one, has still to restore it.                   *)
SyncingHasOwner ==
  phase = "Syncing" =>
    \E r \in Requests : req[r].op = "update" /\ req[r].stage \notin {"idle", "announce", "done"}

(* When UpdateWeights reports success, every engine of the pool that was   *)
(* not disturbed meanwhile has the target weights and generates again.     *)
CommitLeavesPoolServing ==
  [][\A r \in Requests :
       req[r].stage # "publish" /\ req'[r].stage = "publish" =>
         \A e \in members \ disturbed :
           engine[e].weights = req[r].version /\ ~engine[e].paused]_vars

(* An update that failed while it streamed the weights hands every engine  *)
(* that was not disturbed back running, unless a call of its rollback      *)
(* failed as well.                                                         *)
RollbackRestoresService ==
  [][\A r \in Requests :
       LET q == req[r]
       IN q.stage \in {"update", "rollback"} /\ req'[r].stage = "restore"
          /\ ~ (q.stage = "rollback" /\ q.failed) =>
            \A e \in members \ disturbed : ~engine[e].paused]_vars

(* The pool keeps the promise of module WeightSyncPool.                    *)
Promise == INSTANCE WeightSyncPool WITH
             Slots <- Incarnation, Targets <- 1..MaxVersion, NoGroup <- NoOne,
             pool <- Current, ring <- IF transferInited THEN group ELSE NoOne,
             published <- weightVersion

KeepsPromise == Promise!PSpec

(* "On update failure the pool must resume engines before returning"       *)
(* (engine_pool_test.go:181): when the rollback of a failed update ends,   *)
(* no undisturbed engine is paused.  The code sends the rollback under the *)
(* context of the request, so a client that hung up leaves engines paused. *)
FailedUpdateResumes ==
  [][\A r \in Requests :
       req[r].stage = "rollback" /\ req'[r].stage = "restore" =>
         \A e \in members \ disturbed : ~engine[e].paused]_vars

(* The parts of the inductive invariant behind the theorems.  A request is *)
(* in a fan-out exactly while it holds mu, and in a fan-out of its own     *)
(* operation; an update got past Lock only with a transfer group.          *)
HandlerInv ==
  \A r \in Requests :
    LET q == req[r]
    IN /\ q.stage \in FanOuts <=> mu = r
       /\ q.stage \in FanOuts /\ q.op = "update" =>
            transferInited /\ q.stage \in {"pause", "update", "rollback", "reset", "resume"}
       /\ q.stage \in FanOuts /\ q.op # "update" => q.stage = q.op
       /\ q.stage = "publish" => q.op = "update"
       /\ q.op = "update" => q.version \in 1..MaxVersion

(* What the fan-outs of a weight update have achieved so far on the        *)
(* engines that nobody else touched.                                       *)
CycleInv ==
  \A r \in Requests :
    LET q == req[r]
    IN q.op = "update" =>
       \A e \in members \ disturbed :
         /\ q.stage = "pause" /\ ~q.failed /\ e \notin q.todo => engine[e].paused
         /\ q.stage = "update" => engine[e].paused
         /\ q.stage = "update" /\ ~q.failed /\ e \notin q.todo =>
              engine[e].weights = q.version
         /\ q.stage \in {"reset", "resume"} => engine[e].weights = q.version
         /\ q.stage \in {"rollback", "resume"} /\ ~q.failed /\ e \notin q.todo =>
              ~engine[e].paused

(* Every handler returns, whatever fails: no path leaves mu held.          *)
HandlersReturn ==
  \A r \in Requests : req[r].stage # "idle" ~> req[r].stage = "done"
=============================================================================
