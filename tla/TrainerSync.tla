---------------------------- MODULE TrainerSync ----------------------------
(***************************************************************************)
(* The training loop and its weight synchronisation: the checkpoint engine *)
(* (llmd_verl) announces a version, broadcasts the parameters from a       *)
(* daemon thread and posts the update to the controller, which has every   *)
(* engine receive.  The NCCL communicator is a queue of collectives: each  *)
(* one completes when every rank of the group takes part, and what it      *)
(* carries is read at that moment.  Every wait of the trainer has a        *)
(* timeout; what was waited for goes on without it.                        *)
(***************************************************************************)
EXTENDS Integers, Sequences, FiniteSets

CONSTANTS
  Engines,    \* the engines that joined the group when it was created
  Layers,     \* the number of parameters of the model
  MaxSteps,   \* a bound on training steps
  Loads,      \* how syncs hand over weights: Live, Copied, or both
  Live,       \* the parameters themselves are queued (sync_weights)
  Copied,     \* a copy of them is (update_weights_from_generator)
  Lost        \* what released memory holds

ASSUME EnginesAssumption == Engines # {}
ASSUME LayersAssumption == Layers \in Nat \ {0}
ASSUME StepsAssumption == MaxSteps \in Nat \ {0}
ASSUME LoadsAssumption == Loads \subseteq {Live, Copied}
ASSUME ValuesAssumption == Live # Copied /\ {Live, Copied, Lost} \cap (0..MaxSteps) = {}

Layer == 1..Layers
Version == 1..MaxSteps
Memory == {"weights", "kv_cache"}

VARIABLES
  main,       \* where the training loop is
  step,       \* training steps completed
  weights,    \* the trainer's parameters: the step that last wrote each
  version,    \* weight_version
  load,       \* what the current sync hands over: Live, or a copy of a step
  reply,      \* the controller's answer to the current update
  asleep,     \* broadcast threads that have not begun to send
  broadcastError, \* the thread of the current sync ended with an exception
  sends,      \* collectives the trainer has queued
  requests,   \* updates waiting for the controller
  gone,       \* updates whose client has hung up
  update,     \* the update the controller is working on: a set of at most one
  group,      \* engines whose communicator is intact
  calls,      \* updates each engine has yet to receive, in order
  received,   \* parameters received of the first of them
  held,       \* the parameters in each engine's memory
  mapped,     \* the memory that is not released by sleep
  poolVersion,
  outcome,    \* history: whether the loop has raised since a sync returned
  left,       \* history: a sync has raised, and may have left collectives behind
  displaced   \* history: ... and it or a later one handed over a copy

trainer == <<main, step, weights, version, load, reply>>
threads == <<asleep, broadcastError, sends>>
controller == <<requests, update, poolVersion>>
engines == <<group, calls, received, held, mapped>>
history == <<outcome, left, displaced>>
vars == <<trainer, threads, controller, gone, engines, history>>

Init ==
  /\ main = "generate" /\ step = 0 /\ weights = [l \in Layer |-> 0]
  /\ version = 0 /\ load = Live /\ reply = "none"
  /\ asleep = {} /\ broadcastError = FALSE /\ sends = <<>>
  /\ requests = {} /\ gone = {} /\ update = {} /\ poolVersion = 0
  /\ group = Engines /\ calls = [e \in Engines |-> <<>>] /\ received = [e \in Engines |-> 0]
  /\ held = [e \in Engines |-> [l \in Layer |-> 0]] /\ mapped = [e \in Engines |-> Memory]
  /\ outcome = "none" /\ left = FALSE /\ displaced = FALSE

-----------------------------------------------------------------------------
(* Calls of the loop that the controller fans out to the engines.          *)

(* The exception leaves the loop; a caller that catches it goes on.        *)
Raise ==
  /\ main' \in {"stopped", "generate"}
  /\ outcome' = "raised"
  /\ IF main \in {"update", "join"}
     THEN left' = TRUE /\ displaced' = (displaced \/ load # Live)
     ELSE UNCHANGED <<left, displaced>>

(* Level 2 discards all GPU memory.                                        *)
Release(S) ==
  /\ mapped' = [e \in Engines |-> IF e \in S THEN {} ELSE mapped[e]]
  /\ held' = [e \in Engines |-> IF e \in S THEN [l \in Layer |-> Lost] ELSE held[e]]

(* Waking maps the memory again; it does not bring the contents back.      *)
Restore(S, tags) ==
  mapped' = [e \in Engines |-> IF e \in S THEN mapped[e] \cup tags ELSE mapped[e]]

(* Every engine answers, or the call raises with some of them done.        *)
Sleep ==
  /\ main = "generate" /\ step < MaxSteps
  /\ \/ Release(Engines) /\ main' = "train" /\ UNCHANGED history
     \/ \E S \in SUBSET Engines : Release(S) /\ Raise
  /\ UNCHANGED <<step, weights, version, load, reply, threads, controller, gone,
                 group, calls, received>>

Wake(at, tags, next) ==
  /\ main = at
  /\ \/ Restore(Engines, tags) /\ main' = next /\ UNCHANGED history
     \/ \E S \in SUBSET Engines : Restore(S, tags) /\ Raise
  /\ UNCHANGED <<step, weights, version, load, reply, threads, controller, gone,
                 group, calls, received, held>>

(* The optimizer writes the parameters in place, one after the other.      *)
Train ==
  /\ main = "train"
  /\ \E l \in Layer :
       /\ weights[l] = step /\ \A k \in 1..l - 1 : weights[k] = step + 1
       /\ weights' = [weights EXCEPT ![l] = step + 1]
       /\ IF l = Layers
          THEN step' = step + 1 /\ main' = "wakeWeights"
          ELSE UNCHANGED <<step, main>>
  /\ UNCHANGED <<version, load, reply, threads, controller, gone, engines, history>>

WakeWeights == Wake("wakeWeights", {"weights"}, "sync")

(* The key-value cache is woken last.                                      *)
WakeCache == Wake("wakeCache", {"kv_cache"}, "generate")

-----------------------------------------------------------------------------
(* sync_weights and update_weights_from_generator.                         *)

(* Faulty variant: the version is counted twice.                           *)
StartSyncBumpsTwice ==
  /\ main = "sync"
  /\ version' = version + 2
  /\ \E how \in Loads : load' = IF how = Live THEN Live ELSE step
  /\ asleep' = asleep \cup {[by |-> version + 2, load |-> load']}
  /\ requests' = requests \cup {version + 2}
  /\ main' = "update" /\ reply' = "none" /\ broadcastError' = FALSE
  /\ displaced' = (displaced \/ (left /\ load' # Live))
  /\ UNCHANGED <<step, weights, sends, gone, update, poolVersion, engines, outcome, left>>

(* The version is taken, the broadcast thread started and the update sent. *)
StartSync ==
  /\ main = "sync"
  /\ version' = version + 1
  /\ \E how \in Loads : load' = IF how = Live THEN Live ELSE step
  /\ asleep' = asleep \cup {[by |-> version + 1, load |-> load']}
  /\ requests' = requests \cup {version + 1}
  /\ main' = "update" /\ reply' = "none" /\ broadcastError' = FALSE
  /\ displaced' = (displaced \/ (left /\ load' # Live))
  /\ UNCHANGED <<step, weights, sends, gone, update, poolVersion, engines, outcome, left>>

(* Faulty variant: the answer is not looked at.                            *)
UpdateIgnoresError ==
  /\ main = "update" /\ reply # "none"
  /\ main' = "join"
  /\ UNCHANGED <<step, weights, version, load, reply, threads, controller, gone, engines,
                 history>>

UpdateAnswered ==
  /\ main = "update" /\ reply # "none"
  /\ IF reply = "updated"
     THEN main' = "join" /\ UNCHANGED history
     ELSE Raise
  /\ UNCHANGED <<step, weights, version, load, reply, threads, controller, gone, engines>>

(* Faulty variant: a timeout for the connection only.                      *)
ConnectTimeout ==
  /\ main = "update" /\ reply = "none" /\ version \in requests
  /\ gone' = gone \cup {version}
  /\ Raise
  /\ UNCHANGED <<step, weights, version, load, reply, threads, controller, engines>>

HttpTimeout ==
  /\ main = "update" /\ reply = "none"
  /\ gone' = gone \cup {version}
  /\ Raise
  /\ UNCHANGED <<step, weights, version, load, reply, threads, controller, engines>>

SyncReturns ==
  /\ main' = "wakeCache" /\ outcome' = "returned"
  /\ UNCHANGED <<left, displaced>>

(* join returns when the thread has ended or the timeout has passed, and   *)
(* nobody asks which of the two it was.                                    *)
Join ==
  /\ main = "join"
  /\ IF broadcastError THEN Raise ELSE SyncReturns
  /\ UNCHANGED <<step, weights, version, load, reply, threads, controller, gone, engines>>

(* A broadcast thread wakes up and queues one collective per parameter.    *)
Broadcast ==
  \E t \in asleep :
    /\ asleep' = asleep \ {t}
    /\ sends' = sends \o [l \in Layer |-> [by |-> t.by, layer |-> l, load |-> t.load]]
    /\ UNCHANGED <<trainer, broadcastError, controller, gone, engines, history>>

BroadcastFails ==
  \E t \in asleep :
    /\ asleep' = asleep \ {t} /\ broadcastError' = (broadcastError \/ t.by = version)
    /\ UNCHANGED <<trainer, sends, controller, gone, engines, history>>

-----------------------------------------------------------------------------
(* The controller's update, one at a time under the pool's lock.           *)

Answer(v, what) ==
  reply' = IF main = "update" /\ version = v THEN what ELSE reply

(* The engines are paused.  The call of a client that hung up fails here.  *)
TakeUpdate ==
  /\ update = {}
  /\ \E v \in requests :
       /\ requests' = requests \ {v}
       /\ \/ v \notin gone /\ update' = {[for |-> v, asked |-> {}, failed |-> FALSE]}
             /\ UNCHANGED <<gone, reply>>
          \/ Answer(v, "error") /\ gone' = gone \ {v} /\ UNCHANGED update
  /\ UNCHANGED <<main, step, weights, version, load, threads, poolVersion, engines, history>>

(* One of the concurrent calls reaches its engine, which queues it, or     *)
(* refuses it if it has lost the group.                                    *)
AskEngine ==
  \E u \in update, e \in Engines :
    /\ e \notin u.asked
    /\ LET reaches == e \in group /\ u.for \notin gone
       IN /\ update' = {[u EXCEPT !.asked = @ \cup {e}, !.failed = @ \/ ~reaches]}
          /\ calls' = IF reaches THEN [calls EXCEPT ![e] = Append(@, u.for)] ELSE calls
    /\ UNCHANGED <<trainer, threads, requests, gone, poolVersion, group, received, held,
                   mapped, history>>

Pending(e) == {calls[e][i] : i \in DOMAIN calls[e]}

AllReceived(u) == ~u.failed /\ \A e \in Engines : u.for \notin Pending(e)

(* Faulty variant: committed when every engine has taken the call.         *)
CommitWhenAsked ==
  \E u \in update :
    /\ u.asked = Engines /\ ~u.failed
    /\ update' = {} /\ poolVersion' = u.for /\ Answer(u.for, "updated")
    /\ gone' = gone \ {u.for}
    /\ UNCHANGED <<main, step, weights, version, load, threads, requests, engines, history>>

Commit ==
  \E u \in update :
    /\ u.asked = Engines /\ AllReceived(u)
    /\ update' = {} /\ poolVersion' = u.for /\ Answer(u.for, "updated")
    /\ gone' = gone \ {u.for}
    /\ UNCHANGED <<main, step, weights, version, load, threads, requests, engines, history>>

(* An engine refused or did not answer in time, or a later call (reset,    *)
(* resume) failed.                                                         *)
UpdateFails ==
  \E u \in update :
    /\ u.asked = Engines
    /\ update' = {} /\ Answer(u.for, "error") /\ gone' = gone \ {u.for}
    /\ UNCHANGED <<main, step, weights, version, load, threads, requests, poolVersion,
                   engines, history>>

-----------------------------------------------------------------------------
(* The data plane and the engines.                                         *)

Carried(item) == IF item.load = Live THEN weights[item.layer] ELSE item.load

(* The next collective: every engine of the group is receiving.  An engine *)
(* stores what comes under the next name of the update it works on.        *)
Transfer ==
  /\ sends # <<>> /\ group = Engines
  /\ \A e \in Engines : calls[e] # <<>>
  /\ held' = [e \in Engines |->
                IF "weights" \in mapped[e]
                THEN [held[e] EXCEPT ![received[e] + 1] = Carried(Head(sends))]
                ELSE held[e]]
  /\ received' = [e \in Engines |-> IF received[e] + 1 = Layers THEN 0 ELSE received[e] + 1]
  /\ calls' = [e \in Engines |-> IF received[e] + 1 = Layers THEN Tail(calls[e]) ELSE calls[e]]
  /\ sends' = Tail(sends)
  /\ UNCHANGED <<trainer, asleep, broadcastError, controller, gone, group, mapped, history>>

(* A restarted engine has the checkpoint it was started with and belongs   *)
(* to no group; the call it was working on breaks off.                     *)
Restart(e) ==
  /\ e \in group
  /\ group' = group \ {e}
  /\ calls' = [calls EXCEPT ![e] = <<>>] /\ received' = [received EXCEPT ![e] = 0]
  /\ held' = [held EXCEPT ![e] = [l \in Layer |-> 0]] /\ mapped' = [mapped EXCEPT ![e] = Memory]
  /\ update' = {[u EXCEPT !.failed = @ \/ u.for \in Pending(e)] : u \in update}
  /\ UNCHANGED <<trainer, threads, requests, poolVersion, gone, history>>

-----------------------------------------------------------------------------
SyncWaits == UpdateAnswered \/ HttpTimeout \/ Join

Next ==
  \/ Sleep \/ Train \/ WakeWeights \/ WakeCache
  \/ StartSync \/ SyncWaits
  \/ Broadcast \/ BroadcastFails
  \/ TakeUpdate \/ AskEngine \/ Commit \/ UpdateFails
  \/ Transfer \/ \E e \in Engines : Restart(e)

Spec == Init /\ [][Next]_vars

(* Each of the trainer's waits has a timeout.                              *)
FairSpec == Spec /\ WF_vars(SyncWaits)

-----------------------------------------------------------------------------
(* Properties.                                                             *)

Value == 0..MaxSteps \cup {Lost}

(* Every variable has its type; in particular an engine never has more     *)
(* than one update per version outstanding.                                *)
TypeOK ==
  /\ main \in {"generate", "train", "wakeWeights", "sync", "update", "join", "wakeCache",
               "stopped"}
  /\ step \in 0..MaxSteps /\ weights \in [Layer -> 0..MaxSteps]
  /\ version \in 0..MaxSteps /\ load \in 0..MaxSteps \cup {Live}
  /\ reply \in {"none", "updated", "error"}
  /\ asleep \subseteq [by : Version, load : 0..MaxSteps \cup {Live}]
  /\ broadcastError \in BOOLEAN
  /\ sends \in Seq([by : Version, layer : Layer, load : 0..MaxSteps \cup {Live}])
  /\ requests \subseteq Version /\ gone \subseteq Version
  /\ update \subseteq [for : Version, asked : SUBSET Engines, failed : BOOLEAN]
  /\ \A u, w \in update : u = w
  /\ poolVersion \in 0..MaxSteps
  /\ group \subseteq Engines /\ calls \in [Engines -> Seq(Version)]
  /\ received \in [Engines -> 0..Layers - 1]
  /\ held \in [Engines -> [Layer -> Value]] /\ mapped \in [Engines -> SUBSET Memory]
  /\ outcome \in {"none", "returned", "raised"} /\ left \in BOOLEAN /\ displaced \in BOOLEAN

Rollout == main = "generate" /\ outcome # "raised" /\ group = Engines

(* While the loop generates after a sync that returned, all engines have   *)
(* their memory and hold one and the same weights: however many earlier    *)
(* syncs were abandoned with broadcasts and receives still queued, no      *)
(* engine is left with parameters of two of them.                          *)
Whole(e) == mapped[e] = Memory /\ \E n \in 0..MaxSteps : held[e] = [l \in Layer |-> n]

NoMixedWeights ==
  Rollout => \A e, f \in Engines : Whole(e) /\ held[e] = held[f]

(* What they hold is the current policy, and the controller has the        *)
(* trainer's version of it.  A broadcast that a sync left behind takes the *)
(* place of the next one's.  That does no harm while the parameters        *)
(* themselves are sent; a copy arrives when a later sync is due.           *)
OnPolicyRollouts ==
  Rollout /\ ~displaced =>
    /\ poolVersion = version
    /\ \A e \in Engines : held[e] = weights /\ mapped[e] = Memory

(* A sync ends, whatever becomes of the engines.                           *)
SyncEnds == main \in {"update", "join"} ~> main \notin {"update", "join"}

=============================================================================
