------------------------------ MODULE EppRouting ------------------------------
(***************************************************************************)
(* Generation requests routed by the EPP: EPPLLMClient.generate asks the   *)
(* EPP for an endpoint over a gRPC stream (EPPGrpcClient), calls the       *)
(* engine's actor itself, and, if it tracks completion, keeps the stream   *)
(* open until the engine has answered, so that the EPP's in-flight count,  *)
(* by which it holds requests back, is the number of requests the engine   *)
(* works on.  The agent loop manager makes the client once the RayRouter   *)
(* actor has started the EPP, without Envoy; streams end with the EPP.     *)
(***************************************************************************)
EXTENDS RouterStack, FiniteSets

CONSTANTS
  Requests,   \* calls of generate, each made at most once
  Endpoints,  \* what the EPP may answer
  Known,      \* the endpoints in the client's address map
  Cap,        \* the EPP's limit on requests in flight to one endpoint
  MaxCancels, \* bound: tasks cancelled
  NoOne       \* no endpoint

ASSUME RoutingAssumption ==
  /\ Known \subseteq Endpoints /\ NoOne \notin Endpoints
  /\ IsFiniteSet(Requests) /\ Cap \in Nat \ {0} /\ MaxCancels \in Nat

VARIABLES
  tracked,    \* report_completion
  req,        \* the calls of generate
  stream,     \* their streams, as the EPP sees them
  engine,     \* the engines' side of the calls that reached one
  cancels,    \* tasks cancelled so far
  cut         \* history: requests whose stream broke with the EPP

requestVars == <<tracked, req, stream, engine, cancels, cut>>
vars == <<stackVars, requestVars>>

(* The outcome is decided before the completion is reported.               *)
Fate == {"none", "returned", "raised", "cancelled"}
Call == [at : {"idle", "routing", "generating", "completing", "ended"}, fate : Fate]

(* queued: the EPP has the request; counted: it has chosen an endpoint and *)
(* counts it there.  closing is what the client has done to the stream:    *)
(* closed its side, after the response phase or at once, or cancelled it.  *)
Stream == [at : {"none", "queued", "counted", "ended"}, endpoint : Endpoints \cup {NoOne},
           closing : {"open", "closed", "cancelled"}]
EngineCall == {"none", "running", "answered", "failed"}

RoutingInit ==
  /\ tracked \in BOOLEAN
  /\ req = [r \in Requests |-> [at |-> "idle", fate |-> "none"]]
  /\ stream = [r \in Requests |-> [at |-> "none", endpoint |-> NoOne, closing |-> "open"]]
  /\ engine = [r \in Requests |-> "none"]
  /\ cancels = 0 /\ cut = {}

Init == StackInit /\ RoutingInit

Close(r, how) == stream' = [stream EXCEPT ![r].closing = how]
Goto(r, where, fate) == req' = [req EXCEPT ![r] = [at |-> where, fate |-> fate]]

-----------------------------------------------------------------------------
(* The EPP.                                                                *)

InFlight(e) == {r \in Requests : stream[r].at = "counted" /\ stream[r].endpoint = e}

(* Flow control dispatches a request when an endpoint has room for it.     *)
Decide(r) ==
  /\ stream[r].at = "queued" /\ stream[r].closing # "cancelled"
  /\ \E e \in Endpoints :
       /\ Cardinality(InFlight(e)) < Cap
       /\ stream' = [stream EXCEPT ![r] = [@ EXCEPT !.at = "counted", !.endpoint = e]]
  /\ UNCHANGED <<stackVars, tracked, req, engine, cancels, cut>>

(* No endpoint: the stream ends without a decision.                        *)
Refuse(r) ==
  /\ stream[r].at = "queued"
  /\ stream' = [stream EXCEPT ![r].at = "ended"]
  /\ UNCHANGED <<stackVars, tracked, req, engine, cancels, cut>>

(* The end of the stream, however it comes, releases the count.            *)
Release(r) ==
  /\ \/ stream[r].at = "counted" /\ stream[r].closing # "open"
     \/ stream[r].at = "queued" /\ stream[r].closing = "cancelled"
  /\ stream' = [stream EXCEPT ![r].at = "ended"]
  /\ UNCHANGED <<stackVars, tracked, req, engine, cancels, cut>>

-----------------------------------------------------------------------------
(* The engines.                                                            *)

Answer(r) ==
  /\ engine[r] = "running"
  /\ engine' = [engine EXCEPT ![r] = "answered"] \/ engine' = [engine EXCEPT ![r] = "failed"]
  /\ UNCHANGED <<stackVars, tracked, req, stream, cancels, cut>>

-----------------------------------------------------------------------------
(* generate.                                                               *)

Direct == ~setup.watched /\ ~setup.envoy

(* Faulty variant: the sending side is closed as pick() closes it.         *)
BeginHalfCloses(r) ==
  /\ Direct /\ at = "serving" /\ req[r].at = "idle"
  /\ \/ /\ Listening("epp")
        /\ Goto(r, "routing", "none")
        /\ stream' = [stream EXCEPT ![r] = [@ EXCEPT !.at = "queued", !.closing = "closed"]]
     \/ /\ ~Listening("epp") /\ Goto(r, "ended", "raised") /\ UNCHANGED stream
  /\ UNCHANGED <<stackVars, tracked, engine, cancels, cut>>

(* begin() leaves its sending side open, pick() has nothing more to send.  *)
Route(r) ==
  /\ Direct /\ at = "serving" /\ req[r].at = "idle"
  /\ \/ /\ Listening("epp")
        /\ Goto(r, "routing", "none")
        /\ stream' = [stream EXCEPT ![r] = [@ EXCEPT !.at = "queued",
                        !.closing = IF tracked THEN "open" ELSE "closed"]]
     \/ /\ ~Listening("epp") /\ Goto(r, "ended", "raised") /\ UNCHANGED stream
  /\ UNCHANGED <<stackVars, tracked, engine, cancels, cut>>

(* Every way out of generate reports the completion, which does nothing    *)
(* for a request that is not tracked.                                      *)
Leave(r, fate) ==
  IF tracked
  THEN Goto(r, "completing", fate) /\ Close(r, "closed")
  ELSE Goto(r, "ended", fate) /\ UNCHANGED stream

(* The decision is read and the actor called, if the address is known.     *)
Dispatch(r) ==
  /\ req[r].at = "routing" /\ stream[r].endpoint # NoOne
  /\ IF stream[r].endpoint \in Known
     THEN /\ Goto(r, "generating", "none")
          /\ engine' = [engine EXCEPT ![r] = "running"] /\ UNCHANGED stream
     ELSE Leave(r, "raised") /\ UNCHANGED engine
  /\ UNCHANGED <<stackVars, tracked, cancels, cut>>

(* The stream ended without a decision, or broke before it was read.       *)
NoDecision(r) ==
  /\ req[r].at = "routing" /\ stream[r].at = "ended"
  /\ stream[r].endpoint = NoOne \/ r \in cut
  /\ Goto(r, "ended", "raised")
  /\ UNCHANGED <<stackVars, tracked, stream, engine, cancels, cut>>

(* Faulty variant: the engine's answer is taken for the outcome.           *)
GeneratedRaw(r) ==
  /\ req[r].at = "generating" /\ engine[r] \in {"answered", "failed"}
  /\ Leave(r, engine[r])
  /\ UNCHANGED <<stackVars, tracked, engine, cancels, cut>>

Generated(r) ==
  /\ req[r].at = "generating" /\ engine[r] \in {"answered", "failed"}
  /\ Leave(r, IF engine[r] = "answered" THEN "returned" ELSE "raised")
  /\ UNCHANGED <<stackVars, tracked, engine, cancels, cut>>

(* Faulty variant: an error of the stream is passed on.                    *)
CompletedOrRaised(r) ==
  /\ req[r].at = "completing" /\ stream[r].at = "ended"
  /\ Goto(r, "ended", IF r \in cut THEN "raised" ELSE req[r].fate)
  /\ UNCHANGED <<stackVars, tracked, stream, engine, cancels, cut>>

(* complete() waits until the EPP has ended the stream; that it broke is   *)
(* no error.                                                               *)
Completed(r) ==
  /\ req[r].at = "completing" /\ stream[r].at = "ended"
  /\ Goto(r, "ended", req[r].fate)
  /\ UNCHANGED <<stackVars, tracked, stream, engine, cancels, cut>>

(* Faulty variant: a request cancelled while its engine generates ends     *)
(* without the finally clause.                                             *)
CancelSkipsCompletion(r) ==
  /\ cancels < MaxCancels /\ cancels' = cancels + 1
  /\ req[r].at \in {"routing", "generating", "completing"}
  /\ IF req[r].at = "generating" THEN UNCHANGED stream ELSE Close(r, "cancelled")
  /\ Goto(r, "ended", "cancelled")
  /\ UNCHANGED <<stackVars, tracked, engine, cut>>

(* The task is cancelled where it awaits.  A read that is cancelled        *)
(* cancels its stream; a call of an actor goes on, and its completion is   *)
(* reported.                                                               *)
Cancel(r) ==
  /\ cancels < MaxCancels /\ cancels' = cancels + 1
  /\ \/ req[r].at = "generating" /\ Leave(r, "cancelled")
     \/ req[r].at \in {"routing", "completing"} /\ Close(r, "cancelled")
        /\ Goto(r, "ended", "cancelled")
  /\ UNCHANGED <<stackVars, tracked, engine, cut>>

-----------------------------------------------------------------------------
(* The EPP's end breaks its streams.                                       *)
Broken == {r \in Requests : stream[r].at \in {"queued", "counted"}}

Stack ==
  /\ StackNext
  /\ IF Listening("epp")'
     THEN UNCHANGED <<stream, cut>>
     ELSE /\ stream' = [r \in Requests |-> IF r \in Broken THEN [stream[r] EXCEPT !.at = "ended"]
                                           ELSE stream[r]]
          /\ cut' = cut \cup Broken
  /\ UNCHANGED <<tracked, req, engine, cancels>>

Epp(r) == Decide(r) \/ Refuse(r) \/ Release(r)
Generate(r) == Dispatch(r) \/ NoDecision(r) \/ Generated(r) \/ Completed(r)

Next ==
  \/ Stack
  \/ \E r \in Requests : Route(r) \/ Generate(r) \/ Cancel(r) \/ Epp(r) \/ Answer(r)

Spec == Init /\ [][Next]_vars

(* The launcher's and the clients' coroutines run.  The EPP dispatches     *)
(* what fits and ends the streams that are over, and the engines answer,   *)
(* as long as they live.                                                   *)
FairSpec ==
  /\ Spec /\ WF_vars(Proceed /\ Stack)
  /\ \A r \in Requests :
       WF_vars(Generate(r)) /\ WF_vars(Decide(r)) /\ WF_vars(Release(r)) /\ WF_vars(Answer(r))

-----------------------------------------------------------------------------
(* Properties.                                                             *)

TypeOK ==
  /\ StackTypeOK
  /\ tracked \in BOOLEAN
  /\ req \in [Requests -> Call] /\ stream \in [Requests -> Stream]
  /\ engine \in [Requests -> EngineCall]
  /\ cancels \in 0..MaxCancels /\ cut \subseteq Requests

(* With completion tracking the cap binds the load: the EPP counts every   *)
(* request somebody waits for while an engine works on it, so an endpoint  *)
(* never has more than Cap of them, whatever was cancelled, refused or     *)
(* raised before; only requests that outlived their EPP do not count.      *)
Awaited(e) ==
  {r \in Requests \ cut : req[r].at = "generating" /\ stream[r].endpoint = e}

CapBindsLoad ==
  tracked => \A e \in Endpoints : Awaited(e) \subseteq InFlight(e) /\ Cardinality(Awaited(e)) <= Cap

(* What an engine has answered reaches the caller, unless that was         *)
(* cancelled: an EPP that goes away while a completion is reported to it   *)
(* loses nobody's tokens.                                                  *)
AnswersKept ==
  \A r \in Requests : req[r].at = "ended" /\ engine[r] = "answered" => req[r].fate # "raised"

(* Every request ends and gives its place in the EPP's count back: no way  *)
(* through generate, cancelled, refused or failed, leaves a stream open    *)
(* and lets others wait for ever.                                          *)
SlotsComeBack ==
  \A r \in Requests :
    req[r].at # "idle" ~> req[r].at = "ended" /\ stream[r].at \notin {"queued", "counted"}
=============================================================================
