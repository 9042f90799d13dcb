--------------------------- MODULE EppRoutingProofs ---------------------------
(***************************************************************************)
(* What holds of the router stack and of the requests it routes for any    *)
(* number of launchers, requests and endpoints.                            *)
(***************************************************************************)
EXTENDS EppRouting, FiniteSetTheorems, TLAPS

(* The launchers in their order: those to come have no process, those that *)
(* ended by stop() have none left, and the current one has heard what it   *)
(* waited for.                                                             *)
LauncherInv ==
  /\ at = "down" => starts = 0
  /\ at # "down" => starts \in Launcher
  /\ \A n \in Launcher, p \in Part : n > starts => child[n][p] = "unborn"
  /\ at = "waitEpp" => child[starts]["envoy"] = "unborn"
  /\ at = "stopEpp" => ~Alive(starts, "envoy")
  /\ at = "stopped" \/ (at = "failed" /\ ~abandoned) => \A p \in Part : ~Alive(starts, p)

OwnInv ==
  ~abandoned =>
    /\ \A n \in Launcher, p \in Part : n < starts => ~Alive(n, p)
    /\ at \in {"waitEnvoy", "serving"} => child[starts]["epp"] # "booting"
    /\ at = "serving" => child[starts]["envoy"] # "booting"

StackInv == StackTypeOK /\ LauncherInv /\ OwnInv

-----------------------------------------------------------------------------
(* A process that is set to a state.                                       *)
LEMMA SetEffect ==
  ASSUME StackTypeOK, NEW n \in Launcher, NEW p \in Part, NEW s \in Process, Set(n, p, s)
  PROVE  /\ child' \in [Launcher -> [Part -> Process]]
         /\ child'[n][p] = s
         /\ \A m \in Launcher, q \in Part :
              <<m, q>> # <<n, p>> => child'[m][q] = child[m][q]
  <1>1. child \in [Launcher -> [Part -> Process]] /\ child' = [child EXCEPT ![n][p] = s]
    BY DEF StackTypeOK, Set
  <1>2. child[n] \in [Part -> Process]
    BY <1>1
  <1>3. /\ [child[n] EXCEPT ![p] = s] \in [Part -> Process]
        /\ [child[n] EXCEPT ![p] = s][p] = s
        /\ \A q \in Part : q # p => [child[n] EXCEPT ![p] = s][q] = child[n][q]
    BY <1>2
  <1>4. child' = [child EXCEPT ![n] = [child[n] EXCEPT ![p] = s]]
    BY <1>1
  <1> QED
    BY <1>1, <1>3, <1>4

LEMMA StartsTyped ==
  ASSUME StackTypeOK
  PROVE  /\ starts \in Nat /\ MaxStarts \in Nat
         /\ starts < MaxStarts => starts + 1 \in Launcher
         /\ \A n \in Launcher : n \in Nat
  BY StackAssumption DEF StackTypeOK, Launcher

LEMMA InitStack == StackInit => StackInv
  <1> SUFFICES ASSUME StackInit PROVE StackInv
    OBVIOUS
  <1>0. "unborn" \in Process /\ 0 \in 0..MaxStarts
    BY StackAssumption DEF Process
  <1>1. StackTypeOK
    BY <1>0, Zenon DEF StackInit, StackTypeOK
  <1>2. LauncherInv
    BY DEF StackInit, LauncherInv
  <1>3. OwnInv
    BY StartsTyped, <1>1 DEF StackInit, OwnInv, Alive
  <1> QED
    BY <1>1, <1>2, <1>3 DEF StackInv

-----------------------------------------------------------------------------
(* One lemma per kind of step: first the processes.                        *)
LEMMA BindStep ==
  ASSUME StackInv, NEW n \in Launcher, NEW p \in Part, Bind(n, p)
  PROVE  StackInv'
  <1>0. StackTypeOK /\ LauncherInv /\ OwnInv
    BY DEF StackInv
  <1>1. PICK s \in {"dead", "listening"} : Set(n, p, s)
    BY DEF Bind
  <1>2. s \in Process /\ s # "booting" /\ s # "unborn"
    BY DEF Process
  <1>3. /\ child' \in [Launcher -> [Part -> Process]] /\ child'[n][p] = s
        /\ \A m \in Launcher, q \in Part : <<m, q>> # <<n, p>> => child'[m][q] = child[m][q]
    BY <1>0, <1>1, <1>2, SetEffect
  <1>4. /\ child[n][p] = "booting" /\ UNCHANGED <<setup, starts, at, abandoned>>
    BY DEF Bind
  <1>5. StackTypeOK'
    BY <1>0, <1>3, <1>4 DEF StackTypeOK
  <1>6. \A m \in Launcher, q \in Part :
          /\ child[m][q] # "booting" => child'[m][q] = child[m][q]
          /\ child'[m][q] = "booting" => child[m][q] = "booting"
          /\ Alive(m, q)' => Alive(m, q)
    BY <1>2, <1>3, <1>4 DEF Alive
  <1>7. LauncherInv'
    BY <1>0, <1>4, <1>6 DEF LauncherInv, Alive, Part
  <1>8. OwnInv'
    BY <1>0, <1>4, <1>6 DEF OwnInv, LauncherInv, Part
  <1> QED
    BY <1>5, <1>7, <1>8 DEF StackInv

(* A process that runs becomes a dead one.                                 *)
LEMMA KillEffect ==
  ASSUME StackInv, NEW n \in Launcher, NEW p \in Part, Alive(n, p), Set(n, p, "dead")
  PROVE  /\ child' \in [Launcher -> [Part -> Process]]
         /\ child'[n][p] = "dead"
         /\ \A m \in Launcher, q \in Part :
              /\ child[m][q] = "unborn" => child'[m][q] = "unborn"
              /\ child'[m][q] = "booting" => child[m][q] = "booting"
              /\ child[m][q] \notin {"booting", "listening"} =>
                   child'[m][q] \notin {"booting", "listening"}
  <1>1. /\ child' \in [Launcher -> [Part -> Process]] /\ child'[n][p] = "dead"
        /\ \A m \in Launcher, q \in Part : <<m, q>> # <<n, p>> => child'[m][q] = child[m][q]
    BY SetEffect DEF StackInv, Process
  <1> QED
    BY <1>1 DEF Alive

LEMMA DieStep ==
  ASSUME StackInv, NEW n \in Launcher, NEW p \in Part, Die(n, p)
  PROVE  StackInv'
  <1>0. StackTypeOK /\ LauncherInv /\ OwnInv
    BY DEF StackInv
  <1>1. UNCHANGED <<setup, starts, at, abandoned>>
    BY DEF Die
  <1>2. /\ child' \in [Launcher -> [Part -> Process]]
        /\ \A m \in Launcher, q \in Part :
              /\ child[m][q] = "unborn" => child'[m][q] = "unborn"
              /\ child'[m][q] = "booting" => child[m][q] = "booting"
              /\ child[m][q] \notin {"booting", "listening"} =>
                   child'[m][q] \notin {"booting", "listening"}
    BY KillEffect DEF Die
  <1>3. StackTypeOK'
    BY <1>0, <1>1, <1>2 DEF StackTypeOK
  <1>4. LauncherInv'
    BY <1>0, <1>1, <1>2 DEF LauncherInv, Alive, Part
  <1>5. OwnInv'
    BY <1>0, <1>1, <1>2 DEF OwnInv, LauncherInv, Alive, Part
  <1> QED
    BY <1>3, <1>4, <1>5 DEF StackInv

(* While no launcher was abandoned, whoever listens belongs to the         *)
(* current one.                                                            *)
LEMMA OwnAnswer ==
  ASSUME StackInv, ~abandoned, NEW p \in Part, Listening(p)
  PROVE  starts \in Launcher /\ child[starts][p] = "listening"
  <1>0. StackTypeOK /\ LauncherInv /\ OwnInv
    BY DEF StackInv
  <1>1. PICK n \in Launcher : child[n][p] = "listening"
    BY DEF Listening
  <1>2. ~(n > starts)
    BY <1>0, <1>1 DEF LauncherInv
  <1>3. ~(n < starts)
    BY <1>0, <1>1 DEF OwnInv, Alive
  <1> QED
    BY <1>0, <1>1, <1>2, <1>3, StartsTyped

-----------------------------------------------------------------------------
(* The launcher.                                                           *)
LEMMA StartEppStep ==
  ASSUME StackInv, StartEpp
  PROVE  StackInv'
  <1>0. StackTypeOK /\ LauncherInv /\ OwnInv
    BY DEF StackInv
  <1>1. /\ at = "down" \/ Ended
        /\ starts \in Nat /\ starts + 1 \in Launcher /\ starts' = starts + 1 /\ setup' = setup
        /\ starts' \in 0..MaxStarts
        /\ \A n \in Launcher : n \in Nat
    BY <1>0, StartsTyped DEF StartEpp, Launcher
  <1>2. ASSUME ~abandoned, NEW n \in Launcher, NEW p \in Part, n < starts + 1
        PROVE  ~Alive(n, p)
    <2>1. n \in Nat /\ n > 0
      BY <1>0 DEF Launcher, StackTypeOK
    <2>2. CASE n < starts
      BY <1>0, <1>2, <2>2 DEF OwnInv
    <2>3. CASE n = starts
      <3>1. Ended
        BY <1>0, <1>1, <1>2, <2>1, <2>3 DEF LauncherInv, Ended
      <3> QED
        BY <1>0, <1>2, <2>3, <3>1 DEF LauncherInv, Ended
    <2> QED
      BY <1>1, <1>2, <2>1, <2>2, <2>3
  <1>3. CASE Set(starts + 1, "epp", "booting") /\ at' = "waitEpp" /\ UNCHANGED abandoned
    <2>1. /\ child' \in [Launcher -> [Part -> Process]]
          /\ \A m \in Launcher, q \in Part :
               <<m, q>> # <<starts + 1, "epp">> => child'[m][q] = child[m][q]
      BY <1>0, <1>1, <1>3, SetEffect DEF Part, Process
    <2>2. child'[starts + 1]["envoy"] = "unborn"
      BY <1>0, <1>1, <2>1 DEF LauncherInv, Part
    <2>3. StackTypeOK'
      BY <1>0, <1>1, <1>3, <2>1 DEF StackTypeOK
    <2>4. LauncherInv'
      BY <1>0, <1>1, <1>3, <2>1, <2>2 DEF LauncherInv, Part
    <2>5. OwnInv'
      BY <1>1, <1>2, <1>3, <2>1 DEF OwnInv, Alive
    <2> QED
      BY <2>3, <2>4, <2>5 DEF StackInv
  <1>4. CASE at' = "failed" /\ UNCHANGED <<child, abandoned>>
    <2>1. StackTypeOK'
      BY <1>0, <1>1, <1>4 DEF StackTypeOK
    <2>2. LauncherInv'
      BY <1>0, <1>1, <1>4 DEF LauncherInv, Alive
    <2>3. OwnInv'
      BY <1>1, <1>2, <1>4 DEF OwnInv, Alive
    <2> QED
      BY <2>1, <2>2, <2>3 DEF StackInv
  <1> QED
    BY <1>3, <1>4 DEF StartEpp

(* Every other end without stop().                                         *)
LEMMA FailStep ==
  ASSUME StackInv, Fail, at # "down", UNCHANGED <<setup, starts, child>>
  PROVE  StackInv'
  <1>0. StackTypeOK /\ LauncherInv /\ OwnInv
    BY DEF StackInv
  <1>1. StackTypeOK'
    BY <1>0 DEF StackTypeOK, Fail
  <1>2. LauncherInv'
    BY <1>0 DEF LauncherInv, Fail
  <1>3. OwnInv'
    BY DEF OwnInv, Fail
  <1> QED
    BY <1>1, <1>2, <1>3 DEF StackInv

LEMMA EppAnswersStep ==
  ASSUME StackInv, EppAnswers
  PROVE  StackInv'
  <1>0. StackTypeOK /\ LauncherInv /\ OwnInv
    BY DEF StackInv
  <1>1. at = "waitEpp" /\ Listening("epp") /\ setup' = setup /\ starts' = starts
    BY DEF EppAnswers
  <1>2. starts \in Launcher /\ child[starts]["envoy"] = "unborn"
    BY <1>0, <1>1 DEF LauncherInv
  <1>3. ~abandoned => child[starts]["epp"] = "listening"
    BY <1>1, OwnAnswer DEF Part
  <1>4. CASE at' = "serving" /\ UNCHANGED <<child, abandoned>>
    <2>1. StackTypeOK'
      BY <1>0, <1>1, <1>4 DEF StackTypeOK
    <2>2. LauncherInv'
      BY <1>0, <1>1, <1>4 DEF LauncherInv
    <2>3. OwnInv'
      BY <1>0, <1>1, <1>2, <1>3, <1>4 DEF OwnInv, Alive
    <2> QED
      BY <2>1, <2>2, <2>3 DEF StackInv
  <1>5. CASE Set(starts, "envoy", "booting") /\ at' = "waitEnvoy" /\ UNCHANGED abandoned
    <2>1. /\ child' \in [Launcher -> [Part -> Process]]
          /\ \A m \in Launcher, q \in Part :
               <<m, q>> # <<starts, "envoy">> => child'[m][q] = child[m][q]
      BY <1>0, <1>2, <1>5, SetEffect DEF Part, Process
    <2>2. StackTypeOK'
      BY <1>0, <1>1, <1>5, <2>1 DEF StackTypeOK
    <2>3. LauncherInv'
      BY <1>0, <1>1, <1>5, <2>1, StartsTyped DEF LauncherInv
    <2>4. OwnInv'
      BY <1>0, <1>1, <1>2, <1>3, <1>5, <2>1, StartsTyped DEF OwnInv, Alive, Part
    <2> QED
      BY <2>2, <2>3, <2>4 DEF StackInv
  <1>6. CASE Fail /\ UNCHANGED child
    BY <1>1, <1>6, FailStep
  <1> QED
    BY <1>4, <1>5, <1>6 DEF EppAnswers

(* Steps that only move the launcher on.                                   *)
LEMMA MoveStep ==
  ASSUME StackInv, UNCHANGED <<setup, starts, child, abandoned>>,
         \/ at = "waitEnvoy" /\ Listening("envoy") /\ at' = "serving"
         \/ at = "serving" /\ at' = "stopEnvoy"
  PROVE  StackInv'
  <1>0. StackTypeOK /\ LauncherInv /\ OwnInv
    BY DEF StackInv
  <1>1. at = "waitEnvoy" /\ ~abandoned => child[starts]["envoy"] = "listening"
    BY OwnAnswer DEF Part
  <1>2. StackTypeOK'
    BY <1>0 DEF StackTypeOK
  <1>3. LauncherInv'
    BY <1>0 DEF LauncherInv
  <1>4. OwnInv'
    BY <1>0, <1>1 DEF OwnInv, Alive
  <1> QED
    BY <1>2, <1>3, <1>4 DEF StackInv

(* stop() leaves the process dead, or as it was if it did not run.         *)
LEMMA ReapEffect ==
  ASSUME StackInv, starts \in Launcher, NEW p \in Part, Reap(p)
  PROVE  /\ child' \in [Launcher -> [Part -> Process]]
         /\ child'[starts][p] \notin {"booting", "listening"}
         /\ \A m \in Launcher, q \in Part :
              /\ child[m][q] = "unborn" => child'[m][q] = "unborn"
              /\ child[m][q] \notin {"booting", "listening"} =>
                   child'[m][q] \notin {"booting", "listening"}
  <1>1. CASE Alive(starts, p)
    BY <1>1, KillEffect DEF Reap
  <1>2. CASE ~Alive(starts, p)
    BY <1>2 DEF Reap, Alive, StackInv, StackTypeOK
  <1> QED
    BY <1>1, <1>2

LEMMA StopStep ==
  ASSUME StackInv, StopEnvoy \/ StopEpp
  PROVE  StackInv'
  <1>0. StackTypeOK /\ LauncherInv /\ OwnInv
    BY DEF StackInv
  <1>1. /\ starts \in Launcher /\ UNCHANGED <<setup, starts, abandoned>>
        /\ at' \in {"stopEpp", "stopped"}
    BY <1>0 DEF StopEnvoy, StopEpp, LauncherInv
  <1>2. PICK p \in Part :
          /\ Reap(p)
          /\ at' = "stopEpp" => p = "envoy"
          /\ at' = "stopped" => p = "epp" /\ at = "stopEpp"
    BY DEF StopEnvoy, StopEpp, Part
  <1>3. /\ child' \in [Launcher -> [Part -> Process]]
        /\ child'[starts][p] \notin {"booting", "listening"}
        /\ \A m \in Launcher, q \in Part :
              /\ child[m][q] = "unborn" => child'[m][q] = "unborn"
              /\ child[m][q] \notin {"booting", "listening"} =>
                   child'[m][q] \notin {"booting", "listening"}
    BY <1>1, <1>2, ReapEffect
  <1>4. StackTypeOK'
    BY <1>0, <1>1, <1>3 DEF StackTypeOK
  <1>5. LauncherInv'
    BY <1>0, <1>1, <1>2, <1>3 DEF LauncherInv, Alive, Part
  <1>6. OwnInv'
    BY <1>0, <1>1, <1>3 DEF OwnInv, Alive
  <1> QED
    BY <1>4, <1>5, <1>6 DEF StackInv

LEMMA QuietStack == ASSUME StackInv, UNCHANGED stackVars PROVE StackInv'
  BY DEF StackInv, StackTypeOK, LauncherInv, OwnInv, Alive, stackVars

LEMMA NextStack ==
  ASSUME StackInv, StackNext
  PROVE  StackInv'
  <1>1. CASE StartEpp
    BY <1>1, StartEppStep
  <1>2. CASE Proceed
    <2>1. CASE EppAnswers
      BY <2>1, EppAnswersStep
    <2>2. CASE EnvoyAnswers \/ Watch
      BY <2>2, MoveStep DEF EnvoyAnswers, Watch
    <2>3. CASE WaitTimesOut
      BY <2>3, FailStep DEF WaitTimesOut, Starting
    <2>4. CASE StopEnvoy \/ StopEpp
      BY <2>4, StopStep
    <2> QED
      BY <1>2, <2>1, <2>2, <2>3, <2>4 DEF Proceed
  <1>3. CASE EarlySignal
    BY <1>3, FailStep DEF EarlySignal, Starting
  <1>4. CASE Signal
    BY <1>4, MoveStep DEF Signal
  <1>5. CASE Processes
    BY <1>5, BindStep, DieStep DEF Processes
  <1> QED
    BY <1>1, <1>2, <1>3, <1>4, <1>5 DEF StackNext

LEMMA StackInvHolds == Spec => []StackInv
  <1>1. Init => StackInv
    BY InitStack DEF Init
  <1>2. StackInv /\ [Next]_vars => StackInv'
    <2> SUFFICES ASSUME StackInv, [Next]_vars PROVE StackInv'
      OBVIOUS
    <2>1. CASE Stack
      BY <2>1, NextStack DEF Stack
    <2>2. CASE UNCHANGED stackVars
      BY <2>2, QuietStack
    <2>3. Stack \/ UNCHANGED stackVars
      BY DEF Next, vars, Route, Generate, Cancel, Epp, Answer, Dispatch, NoDecision, Generated,
             Completed, Decide, Refuse, Release
    <2> QED
      BY <2>1, <2>2, <2>3
  <1> QED
    BY <1>1, <1>2, PTL DEF Spec

(* A launcher that is ready heard its own processes, and one that ended    *)
(* left none behind, unless one ended with children and without stop().    *)
THEOREM ReadyMeansOwn == Spec => []OwnProcesses
  <1>1. StackInv => OwnProcesses
    <2> SUFFICES ASSUME StackInv PROVE OwnProcesses
      OBVIOUS
    <2>0. StackTypeOK /\ LauncherInv /\ OwnInv
      BY DEF StackInv
    <2>1. ASSUME ~abandoned, Ended, NEW n \in Launcher, NEW p \in Part
          PROVE  ~Alive(n, p)
      <3>1. CASE n > starts
        BY <2>0, <3>1 DEF LauncherInv, Alive
      <3>2. CASE n = starts
        BY <2>0, <2>1, <3>2 DEF LauncherInv, Ended
      <3>3. CASE n < starts
        BY <2>0, <2>1, <3>3 DEF OwnInv
      <3> QED
        BY <2>0, <3>1, <3>2, <3>3, StartsTyped
    <2> QED
      BY <2>0, <2>1 DEF OwnProcesses, LauncherInv, OwnInv
  <1> QED
    BY <1>1, StackInvHolds, PTL

-----------------------------------------------------------------------------
(* The requests.                                                           *)

(* A request that is tracked and not cut keeps its stream open until its   *)
(* engine has answered, so that the EPP counts it from its decision on.    *)
StreamOk(r) ==
  /\ req[r].at = "idle" => stream[r].at = "none"
  /\ stream[r].at \in {"none", "queued"} => stream[r].endpoint = NoOne
  /\ tracked /\ r \notin cut /\ req[r].at \in {"routing", "generating"} =>
       /\ stream[r].closing = "open"
       /\ stream[r].endpoint # NoOne => stream[r].at = "counted"

CountInv == \A e \in Endpoints : Cardinality(InFlight(e)) <= Cap

(* Only a request whose engine will not answer any more ends with an       *)
(* exception.                                                              *)
AnswerOk(r) ==
  /\ req[r].at \in {"idle", "routing"} => engine[r] = "none"
  /\ req[r].at \in {"completing", "ended"} /\ req[r].fate = "raised" =>
       engine[r] \in {"none", "failed"}

RequestInv == \A r \in Requests : StreamOk(r) /\ AnswerOk(r)

RoutingTypeOK ==
  /\ tracked \in BOOLEAN
  /\ req \in [Requests -> Call] /\ stream \in [Requests -> Stream]
  /\ engine \in [Requests -> EngineCall]
  /\ cancels \in 0..MaxCancels /\ cut \subseteq Requests

RoutingInv == RoutingTypeOK /\ RequestInv /\ CountInv

(* A step of one request leaves the others alone.                          *)
Kept(r) ==
  \A q \in Requests : q # r =>
    req'[q] = req[q] /\ stream'[q] = stream[q] /\ engine'[q] = engine[q]

LEMMA InitRouting == RoutingInit => RoutingInv
  <1> SUFFICES ASSUME RoutingInit PROVE RoutingInv
    OBVIOUS
  <1>1. RoutingTypeOK
    <2>1. /\ [at |-> "idle", fate |-> "none"] \in Call
          /\ [at |-> "none", endpoint |-> NoOne, closing |-> "open"] \in Stream
          /\ "none" \in EngineCall
      BY DEF Call, Fate, Stream, EngineCall
    <2>2. cancels \in 0..MaxCancels /\ cut \subseteq Requests
      BY RoutingAssumption DEF RoutingInit
    <2> QED
      BY <2>1, <2>2, Zenon DEF RoutingInit, RoutingTypeOK
  <1>2. RequestInv
    BY DEF RoutingInit, RequestInv, StreamOk, AnswerOk
  <1>3. CountInv
    <2> SUFFICES ASSUME NEW e \in Endpoints PROVE Cardinality(InFlight(e)) <= Cap
      BY DEF CountInv
    <2>1. InFlight(e) = {}
      BY DEF RoutingInit, InFlight
    <2> QED
      BY <2>1, FS_EmptySet, RoutingAssumption
  <1> QED
    BY <1>1, <1>2, <1>3 DEF RoutingInv

(* Wherever no request enters the count, the count stays in its bound.     *)
LEMMA CountShrinks ==
  ASSUME CountInv,
         \A r \in Requests : stream'[r].at = "counted" =>
           stream[r].at = "counted" /\ stream[r].endpoint = stream'[r].endpoint
  PROVE  CountInv'
  <1> SUFFICES ASSUME NEW e \in Endpoints PROVE Cardinality(InFlight(e)') <= Cap
    BY DEF CountInv
  <1>1. InFlight(e)' \subseteq InFlight(e) /\ InFlight(e) \subseteq Requests
    BY DEF InFlight
  <1>2. IsFiniteSet(InFlight(e)) /\ IsFiniteSet(InFlight(e)')
    BY <1>1, FS_Subset, RoutingAssumption
  <1>3. Cardinality(InFlight(e)') <= Cardinality(InFlight(e))
    BY <1>1, <1>2, FS_Subset
  <1>4. Cardinality(InFlight(e)') \in Nat /\ Cardinality(InFlight(e)) \in Nat
    BY <1>2, FS_CardinalityType
  <1> QED
    BY <1>3, <1>4, RoutingAssumption DEF CountInv

(* A step of one request keeps the invariant if it does so for it.         *)
LEMMA OneRequest ==
  ASSUME RoutingInv, NEW r \in Requests, Kept(r), UNCHANGED <<tracked, cut>>,
         RoutingTypeOK', StreamOk(r)', AnswerOk(r)',
         stream'[r].at = "counted" =>
           stream[r].at = "counted" /\ stream[r].endpoint = stream'[r].endpoint
  PROVE  RoutingInv'
  <1>1. RequestInv'
    <2> SUFFICES ASSUME NEW q \in Requests PROVE StreamOk(q)' /\ AnswerOk(q)'
      BY DEF RequestInv
    <2>1. CASE q = r
      BY <2>1
    <2>2. CASE q # r
      BY <2>2 DEF Kept, RoutingInv, RequestInv, StreamOk, AnswerOk
    <2> QED
      BY <2>1, <2>2
  <1>2. CountInv'
    BY CountShrinks DEF RoutingInv, Kept
  <1> QED
    BY <1>1, <1>2 DEF RoutingInv

(* The two ways in which a client's step changes its request.              *)
LEMMA GotoEffect ==
  ASSUME RoutingTypeOK, NEW r \in Requests, NEW where, NEW fate \in Fate, Goto(r, where, fate),
         where \in {"idle", "routing", "generating", "completing", "ended"}
  PROVE  /\ req' \in [Requests -> Call]
         /\ req'[r].at = where /\ req'[r].fate = fate
         /\ \A q \in Requests : q # r => req'[q] = req[q]
  BY DEF RoutingTypeOK, Goto, Call

LEMMA CloseEffect ==
  ASSUME RoutingTypeOK, NEW r \in Requests, NEW how \in {"open", "closed", "cancelled"},
         Close(r, how)
  PROVE  /\ stream' \in [Requests -> Stream]
         /\ stream'[r].at = stream[r].at /\ stream'[r].endpoint = stream[r].endpoint
         /\ \A q \in Requests : q # r => stream'[q] = stream[q]
  BY DEF RoutingTypeOK, Close, Stream

LEMMA LeaveEffect ==
  ASSUME RoutingTypeOK, NEW r \in Requests, NEW fate \in Fate, Leave(r, fate)
  PROVE  /\ req' \in [Requests -> Call] /\ stream' \in [Requests -> Stream]
         /\ req'[r].at \in {"completing", "ended"} /\ req'[r].fate = fate
         /\ stream'[r].at = stream[r].at /\ stream'[r].endpoint = stream[r].endpoint
         /\ \A q \in Requests : q # r => req'[q] = req[q] /\ stream'[q] = stream[q]
  <1>1. CASE tracked
    BY <1>1, GotoEffect, CloseEffect DEF Leave
  <1>2. CASE ~tracked
    BY <1>2, GotoEffect DEF Leave, RoutingTypeOK
  <1> QED
    BY <1>1, <1>2

-----------------------------------------------------------------------------
(* One lemma per kind of step of a request.                                *)
LEMMA RouteStep ==
  ASSUME RoutingInv, NEW r \in Requests, Route(r)
  PROVE  RoutingInv'
  <1>0. RoutingTypeOK /\ StreamOk(r) /\ AnswerOk(r)
    BY DEF RoutingInv, RequestInv
  <1>1. req[r].at = "idle" /\ UNCHANGED <<tracked, engine, cancels, cut>>
    BY DEF Route
  <1>2. CASE Goto(r, "ended", "raised") /\ UNCHANGED stream
    <2>1. /\ req' \in [Requests -> Call] /\ req'[r].at = "ended"
          /\ \A q \in Requests : q # r => req'[q] = req[q]
      BY <1>0, <1>2, GotoEffect DEF Fate
    <2>2. RoutingTypeOK' /\ Kept(r)
      BY <1>0, <1>1, <1>2, <2>1 DEF RoutingTypeOK, Kept
    <2>3. StreamOk(r)' /\ AnswerOk(r)'
      BY <1>0, <1>1, <1>2, <2>1 DEF StreamOk, AnswerOk
    <2> QED
      BY <1>1, <1>2, <2>2, <2>3, OneRequest
  <1>3. CASE /\ Goto(r, "routing", "none")
             /\ stream' = [stream EXCEPT ![r] = [@ EXCEPT !.at = "queued",
                              !.closing = IF tracked THEN "open" ELSE "closed"]]
    <2>1. /\ req' \in [Requests -> Call] /\ req'[r].at = "routing"
          /\ \A q \in Requests : q # r => req'[q] = req[q]
      BY <1>0, <1>3, GotoEffect DEF Fate
    <2>2. /\ stream' \in [Requests -> Stream]
          /\ stream'[r].at = "queued" /\ stream'[r].endpoint = stream[r].endpoint
          /\ tracked => stream'[r].closing = "open"
          /\ \A q \in Requests : q # r => stream'[q] = stream[q]
      BY <1>0, <1>3 DEF RoutingTypeOK, Stream
    <2>3. RoutingTypeOK' /\ Kept(r)
      BY <1>0, <1>1, <2>1, <2>2 DEF RoutingTypeOK, Kept
    <2>4. StreamOk(r)' /\ AnswerOk(r)'
      BY <1>0, <1>1, <2>1, <2>2 DEF StreamOk, AnswerOk
    <2> QED
      BY <1>1, <2>2, <2>3, <2>4, OneRequest
  <1> QED
    BY <1>2, <1>3 DEF Route

LEMMA DispatchStep ==
  ASSUME RoutingInv, NEW r \in Requests, Dispatch(r)
  PROVE  RoutingInv'
  <1>0. RoutingTypeOK /\ StreamOk(r) /\ AnswerOk(r)
    BY DEF RoutingInv, RequestInv
  <1>1. req[r].at = "routing" /\ UNCHANGED <<tracked, cancels, cut>>
    BY DEF Dispatch
  <1>2. CASE /\ Goto(r, "generating", "none")
             /\ engine' = [engine EXCEPT ![r] = "running"] /\ UNCHANGED stream
    <2>1. /\ req' \in [Requests -> Call] /\ req'[r].at = "generating"
          /\ \A q \in Requests : q # r => req'[q] = req[q]
      BY <1>0, <1>2, GotoEffect DEF Fate
    <2>2. RoutingTypeOK' /\ Kept(r)
      BY <1>0, <1>1, <1>2, <2>1 DEF RoutingTypeOK, EngineCall, Kept
    <2>3. StreamOk(r)' /\ AnswerOk(r)'
      BY <1>0, <1>1, <1>2, <2>1 DEF StreamOk, AnswerOk
    <2> QED
      BY <1>1, <1>2, <2>2, <2>3, OneRequest
  <1>3. CASE Leave(r, "raised") /\ UNCHANGED engine
    <2>1. /\ req' \in [Requests -> Call] /\ stream' \in [Requests -> Stream]
          /\ req'[r].at \in {"completing", "ended"}
          /\ stream'[r].at = stream[r].at /\ stream'[r].endpoint = stream[r].endpoint
          /\ \A q \in Requests : q # r => req'[q] = req[q] /\ stream'[q] = stream[q]
      BY <1>0, <1>3, LeaveEffect DEF Fate
    <2>2. RoutingTypeOK' /\ Kept(r)
      BY <1>0, <1>1, <1>3, <2>1 DEF RoutingTypeOK, Kept
    <2>3. StreamOk(r)' /\ AnswerOk(r)'
      BY <1>0, <1>1, <1>3, <2>1 DEF StreamOk, AnswerOk
    <2> QED
      BY <1>1, <2>1, <2>2, <2>3, OneRequest
  <1> QED
    BY <1>2, <1>3 DEF Dispatch

(* The steps that leave the request without a further call.                *)
LEMMA EndStep ==
  ASSUME RoutingInv, NEW r \in Requests, NoDecision(r) \/ Completed(r)
  PROVE  RoutingInv'
  <1>0. RoutingTypeOK /\ StreamOk(r) /\ AnswerOk(r)
    BY DEF RoutingInv, RequestInv
  <1>1. UNCHANGED <<tracked, stream, engine, cancels, cut>>
    BY DEF NoDecision, Completed
  <1>2. PICK fate \in Fate :
          /\ Goto(r, "ended", fate)
          /\ \/ req[r].at = "routing"
             \/ req[r].at = "completing" /\ fate = req[r].fate
    <2>1. "raised" \in Fate /\ req[r].fate \in Fate
      BY <1>0 DEF RoutingTypeOK, Call, Fate
    <2>2. CASE NoDecision(r)
      BY <2>1, <2>2, Zenon DEF NoDecision
    <2>3. CASE Completed(r)
      BY <2>1, <2>3, Zenon DEF Completed
    <2> QED
      BY <2>2, <2>3
  <1>3. /\ req' \in [Requests -> Call] /\ req'[r].at = "ended" /\ req'[r].fate = fate
        /\ \A q \in Requests : q # r => req'[q] = req[q]
    BY <1>0, <1>2, GotoEffect
  <1>4. RoutingTypeOK' /\ Kept(r)
    BY <1>0, <1>1, <1>3 DEF RoutingTypeOK, Kept
  <1>5. StreamOk(r)' /\ AnswerOk(r)'
    BY <1>0, <1>1, <1>2, <1>3 DEF StreamOk, AnswerOk
  <1> QED
    BY <1>1, <1>4, <1>5, OneRequest

LEMMA GeneratedStep ==
  ASSUME RoutingInv, NEW r \in Requests, Generated(r)
  PROVE  RoutingInv'
  <1>0. RoutingTypeOK /\ StreamOk(r) /\ AnswerOk(r)
    BY DEF RoutingInv, RequestInv
  <1>1. UNCHANGED <<tracked, engine, cancels, cut>> /\ engine[r] \in {"answered", "failed"}
    BY DEF Generated
  <1>2. PICK fate \in Fate : Leave(r, fate) /\ (fate = "raised" => engine[r] = "failed")
    BY <1>1 DEF Generated, Fate
  <1>3. /\ req' \in [Requests -> Call] /\ stream' \in [Requests -> Stream]
        /\ req'[r].at \in {"completing", "ended"} /\ req'[r].fate = fate
        /\ stream'[r].at = stream[r].at /\ stream'[r].endpoint = stream[r].endpoint
        /\ \A q \in Requests : q # r => req'[q] = req[q] /\ stream'[q] = stream[q]
    BY <1>0, <1>2, LeaveEffect
  <1>4. RoutingTypeOK' /\ Kept(r)
    BY <1>0, <1>1, <1>3 DEF RoutingTypeOK, Kept
  <1>5. StreamOk(r)' /\ AnswerOk(r)'
    BY <1>0, <1>1, <1>2, <1>3 DEF StreamOk, AnswerOk
  <1> QED
    BY <1>1, <1>3, <1>4, <1>5, OneRequest

LEMMA CancelStep ==
  ASSUME RoutingInv, NEW r \in Requests, Cancel(r)
  PROVE  RoutingInv'
  <1>0. RoutingTypeOK /\ StreamOk(r) /\ AnswerOk(r)
    BY DEF RoutingInv, RequestInv
  <1>1. UNCHANGED <<tracked, engine, cut>> /\ req[r].at # "idle"
    BY DEF Cancel
  <1>2. cancels' \in 0..MaxCancels
    BY <1>0, RoutingAssumption DEF Cancel, RoutingTypeOK
  <1>3. /\ req' \in [Requests -> Call] /\ stream' \in [Requests -> Stream]
        /\ req'[r].at \in {"completing", "ended"} /\ req'[r].fate = "cancelled"
        /\ stream'[r].at = stream[r].at /\ stream'[r].endpoint = stream[r].endpoint
        /\ \A q \in Requests : q # r => req'[q] = req[q] /\ stream'[q] = stream[q]
    <2>1. "cancelled" \in Fate
      BY DEF Fate
    <2>2. CASE Leave(r, "cancelled")
      BY <1>0, <2>1, <2>2, LeaveEffect
    <2>3. CASE Close(r, "cancelled") /\ Goto(r, "ended", "cancelled")
      BY <1>0, <2>1, <2>3, GotoEffect, CloseEffect
    <2> QED
      BY <2>2, <2>3 DEF Cancel
  <1>4. RoutingTypeOK' /\ Kept(r)
    BY <1>0, <1>1, <1>2, <1>3 DEF RoutingTypeOK, Kept
  <1>5. StreamOk(r)' /\ AnswerOk(r)'
    BY <1>0, <1>1, <1>3 DEF StreamOk, AnswerOk
  <1> QED
    BY <1>1, <1>3, <1>4, <1>5, OneRequest

LEMMA AnswerStep ==
  ASSUME RoutingInv, NEW r \in Requests, Answer(r)
  PROVE  RoutingInv'
  <1>0. RoutingTypeOK /\ StreamOk(r) /\ AnswerOk(r)
    BY DEF RoutingInv, RequestInv
  <1>1. UNCHANGED <<tracked, req, stream, cancels, cut>> /\ engine[r] = "running"
    BY DEF Answer
  <1>2. RoutingTypeOK' /\ Kept(r)
    BY <1>0, <1>1 DEF RoutingTypeOK, EngineCall, Kept, Answer
  <1>3. StreamOk(r)' /\ AnswerOk(r)'
    BY <1>0, <1>1 DEF StreamOk, AnswerOk
  <1> QED
    BY <1>1, <1>2, <1>3, OneRequest

(* The EPP ends a stream.                                                  *)
LEMMA EndOfStream ==
  ASSUME RoutingInv, NEW r \in Requests, Refuse(r) \/ Release(r)
  PROVE  RoutingInv'
  <1>0. RoutingTypeOK /\ StreamOk(r) /\ AnswerOk(r)
    BY DEF RoutingInv, RequestInv
  <1>1. /\ UNCHANGED <<tracked, req, engine, cancels, cut>>
        /\ stream' = [stream EXCEPT ![r].at = "ended"]
        /\ \/ stream[r].at = "queued"
           \/ stream[r].at = "counted" /\ stream[r].closing # "open"
    BY DEF Refuse, Release
  <1>2. /\ stream' \in [Requests -> Stream]
        /\ stream'[r].at = "ended" /\ stream'[r].endpoint = stream[r].endpoint
        /\ stream'[r].closing = stream[r].closing
        /\ \A q \in Requests : q # r => stream'[q] = stream[q]
    BY <1>0, <1>1 DEF RoutingTypeOK, Stream
  <1>3. RoutingTypeOK' /\ Kept(r)
    BY <1>0, <1>1, <1>2 DEF RoutingTypeOK, Kept
  <1>4. StreamOk(r)' /\ AnswerOk(r)'
    BY <1>0, <1>1, <1>2 DEF StreamOk, AnswerOk
  <1> QED
    BY <1>1, <1>2, <1>3, <1>4, OneRequest

(* The EPP counts one more request, at an endpoint with room for it.       *)
LEMMA DecideStep ==
  ASSUME RoutingInv, NEW r \in Requests, Decide(r)
  PROVE  RoutingInv'
  <1>0. RoutingTypeOK /\ RequestInv /\ CountInv
    BY DEF RoutingInv
  <1>1. UNCHANGED <<tracked, req, engine, cancels, cut>> /\ stream[r].at = "queued"
    BY DEF Decide
  <1>2. PICK e \in Endpoints :
          /\ Cardinality(InFlight(e)) < Cap
          /\ stream' = [stream EXCEPT ![r] = [@ EXCEPT !.at = "counted", !.endpoint = e]]
    BY DEF Decide
  <1>3. /\ stream' \in [Requests -> Stream]
        /\ stream'[r].at = "counted" /\ stream'[r].endpoint = e
        /\ stream'[r].closing = stream[r].closing
        /\ \A q \in Requests : q # r => stream'[q] = stream[q]
    BY <1>0, <1>2 DEF RoutingTypeOK, Stream
  <1>4. RoutingTypeOK'
    BY <1>0, <1>1, <1>3 DEF RoutingTypeOK
  <1>5. RequestInv'
    BY <1>0, <1>1, <1>3 DEF RequestInv, StreamOk, AnswerOk
  <1>6. CountInv'
    <2> SUFFICES ASSUME NEW f \in Endpoints PROVE Cardinality(InFlight(f)') <= Cap
      BY DEF CountInv
    <2>1. IsFiniteSet(InFlight(f)) /\ Cardinality(InFlight(f)) \in Nat
      BY FS_Subset, FS_CardinalityType, RoutingAssumption DEF InFlight
    <2>2. CASE f = e
      <3>1. InFlight(e)' = InFlight(e) \cup {r}
        BY <1>3 DEF InFlight
      <3>2. r \notin InFlight(e)
        BY <1>1 DEF InFlight
      <3>3. Cardinality(InFlight(e) \cup {r}) = Cardinality(InFlight(e)) + 1
        BY <2>1, <2>2, <3>2, FS_AddElement
      <3> QED
        BY <1>2, <2>1, <2>2, <3>1, <3>3, RoutingAssumption
    <2>3. CASE f # e
      <3>1. InFlight(f)' = InFlight(f)
        BY <1>1, <1>3, <2>3 DEF InFlight
      <3> QED
        BY <1>0, <3>1 DEF CountInv
    <2> QED
      BY <2>2, <2>3
  <1> QED
    BY <1>4, <1>5, <1>6 DEF RoutingInv

(* The EPP's end ends the streams it has, and marks them.                  *)
LEMMA StackStep ==
  ASSUME RoutingInv, Stack
  PROVE  RoutingInv'
  <1>0. RoutingTypeOK /\ RequestInv /\ CountInv
    BY DEF RoutingInv
  <1>1. UNCHANGED <<tracked, req, engine, cancels>>
    BY DEF Stack
  <1>2. CASE UNCHANGED <<stream, cut>>
    BY <1>0, <1>1, <1>2 DEF RoutingInv, RoutingTypeOK, RequestInv, StreamOk, AnswerOk, CountInv,
                          InFlight
  <1>3. CASE /\ stream' = [r \in Requests |->
                  IF r \in Broken THEN [stream[r] EXCEPT !.at = "ended"] ELSE stream[r]]
             /\ cut' = cut \cup Broken
    <2>1. \A r \in Requests : stream[r] \in Stream
      BY <1>0 DEF RoutingTypeOK
    <2>2. \A r \in Requests :
            /\ stream'[r] \in Stream
            /\ r \notin cut' => stream'[r] = stream[r]
            /\ stream'[r].at = stream[r].at \/ stream'[r].at = "ended"
            /\ stream'[r].at = "ended" \/ stream'[r] = stream[r]
            /\ stream[r].at = "none" => stream'[r] = stream[r]
      BY <1>3, <2>1 DEF Broken, Stream
    <2>3. RoutingTypeOK'
      BY <1>0, <1>1, <1>3, <2>2 DEF RoutingTypeOK, Broken
    <2>4. RequestInv'
      <3> SUFFICES ASSUME NEW r \in Requests PROVE StreamOk(r)' /\ AnswerOk(r)'
        BY DEF RequestInv
      <3>1. StreamOk(r) /\ AnswerOk(r)
        BY <1>0 DEF RequestInv
      <3>2. StreamOk(r)'
        BY <1>1, <1>3, <2>2, <3>1 DEF StreamOk
      <3>3. AnswerOk(r)'
        BY <1>1, <3>1 DEF AnswerOk
      <3> QED
        BY <3>2, <3>3
    <2>5. CountInv'
      BY <1>0, <2>2, CountShrinks
    <2> QED
      BY <2>3, <2>4, <2>5 DEF RoutingInv
  <1> QED
    BY <1>2, <1>3 DEF Stack

LEMMA RoutingInvHolds == Spec => []RoutingInv
  <1>1. Init => RoutingInv
    BY InitRouting DEF Init
  <1>2. RoutingInv /\ [Next]_vars => RoutingInv'
    <2> SUFFICES ASSUME RoutingInv, [Next]_vars PROVE RoutingInv'
      OBVIOUS
    <2>1. CASE Stack
      BY <2>1, StackStep
    <2>2. ASSUME NEW r \in Requests, Route(r) \/ Generate(r) \/ Cancel(r) \/ Epp(r) \/ Answer(r)
          PROVE  RoutingInv'
      <3>1. CASE Route(r)
        BY <3>1, RouteStep
      <3>2. CASE Generate(r)
        BY <3>2, DispatchStep, EndStep, GeneratedStep DEF Generate
      <3>3. CASE Cancel(r)
        BY <3>3, CancelStep
      <3>4. CASE Epp(r)
        BY <3>4, DecideStep, EndOfStream DEF Epp
      <3>5. CASE Answer(r)
        BY <3>5, AnswerStep
      <3> QED
        BY <2>2, <3>1, <3>2, <3>3, <3>4, <3>5
    <2>3. CASE UNCHANGED vars
      BY <2>3 DEF vars, requestVars, RoutingInv, RoutingTypeOK, RequestInv, StreamOk, AnswerOk,
                  CountInv, InFlight
    <2> QED
      BY <2>1, <2>2, <2>3 DEF Next
  <1> QED
    BY <1>1, <1>2, PTL DEF Spec

(* Every variable of the stack and of the requests keeps its type.         *)
THEOREM RoutingTyped == Spec => []TypeOK
  <1>1. StackInv /\ RoutingInv => TypeOK
    BY DEF StackInv, RoutingInv, RoutingTypeOK, TypeOK
  <1> QED
    BY <1>1, StackInvHolds, RoutingInvHolds, PTL

(* With completion tracking the EPP counts every awaited request of a live *)
(* stream while its engine works on it, so its cap binds the load.         *)
THEOREM CapBinds == Spec => []CapBindsLoad
  <1>1. RoutingInv => CapBindsLoad
    <2> SUFFICES ASSUME RoutingInv, tracked, NEW e \in Endpoints
                 PROVE  Awaited(e) \subseteq InFlight(e) /\ Cardinality(Awaited(e)) <= Cap
      BY DEF CapBindsLoad
    <2>1. Awaited(e) \subseteq InFlight(e)
      BY RoutingAssumption DEF RoutingInv, RequestInv, StreamOk, Awaited, InFlight
    <2>2. IsFiniteSet(InFlight(e)) /\ IsFiniteSet(Awaited(e))
      BY FS_Subset, RoutingAssumption DEF InFlight, Awaited
    <2>3. Cardinality(Awaited(e)) <= Cardinality(InFlight(e))
      BY <2>1, <2>2, FS_Subset
    <2>4. Cardinality(Awaited(e)) \in Nat /\ Cardinality(InFlight(e)) \in Nat
      BY <2>2, FS_CardinalityType
    <2> QED
      BY <2>1, <2>3, <2>4, RoutingAssumption DEF RoutingInv, CountInv
  <1> QED
    BY <1>1, RoutingInvHolds, PTL

(* An answer of an engine is never turned into an exception.               *)
THEOREM NoAnswerLost == Spec => []AnswersKept
  <1>1. RoutingInv => AnswersKept
    BY DEF RoutingInv, RequestInv, AnswerOk, AnswersKept
  <1> QED
    BY <1>1, RoutingInvHolds, PTL
=============================================================================
