--------------------------- MODULE AdmissionLedger ---------------------------
(***************************************************************************)
(* Wave admission (epp_dev/wave_admission): the ledger that places turns   *)
(* of rollout trajectories on replicas by estimated free KV budget, and    *)
(* the client that asks it.                                                *)
(*                                                                         *)
(* The ledger is one asyncio actor: its methods interleave only where they *)
(* await, which is while an acquire polls for headroom, waits for the      *)
(* leader of its GRPO group, or waits for the placement window.  So a step *)
(* here is the code of a method from one await to the next, with what the  *)
(* client does between two calls.                                          *)
(***************************************************************************)
EXTENDS Integers, FiniteSetsExt, SequencesExt

CONSTANTS
  Replicas,     \* the replicas, by their index in the ledger's list
  Rids,         \* the trajectories, by request id
  Groups,       \* GRPO groups (conv_id)
  GroupOf,      \* the group of each trajectory
  Turns,        \* turns of the longest trajectory
  Sizes,        \* context sizes, in units of KV budget
  Works,        \* session_work hints of the placement window
  Charges,      \* values the growth estimator can return
  Budget,       \* budget_tokens_per_replica
  Wave1,        \* wave1_size
  Options,      \* the other constructor arguments, one set per deployment
  MaxFailures,  \* bound: generate calls that raise
  NoOne         \* no replica

ASSUME LedgerAssumption ==
  /\ Replicas \subseteq Nat /\ Replicas # {} /\ IsFiniteSet(Replicas) /\ IsFiniteSet(Rids)
  /\ NoOne \notin Replicas \cup Rids
  /\ GroupOf \in [Rids -> Groups]
  /\ Sizes \subseteq Nat \ {0} /\ Works \subseteq Nat \ {0} /\ Charges \subseteq Int
  /\ Budget \in Nat /\ Wave1 \in Nat /\ Turns \in Nat \ {0} /\ MaxFailures \in Nat
  /\ Options \subseteq [stagger : BOOLEAN, p2p : BOOLEAN, lpt : BOOLEAN,
                        migrate : BOOLEAN, costRatio : Nat, slack : Int]

VARIABLES
  option,    \* the arguments this ledger was built with
  used,      \* _used: tokens booked on each replica
  resident,  \* _resident: the replica of a trajectory
  sizes,     \* _history: context size by turn
  charge,    \* _reserve_charge: predicted growth
  admitted,  \* _admitted_count
  leader,    \* _group_leader: the replica of each group's leader
  leaderRid, \* _group_leader_rid, by group
  ready,     \* the groups whose _group_ready event is set
  pending,   \* _lpt_pending
  planned,   \* _lpt_result
  window,    \* the placement window: _lpt_event and _lpt_closed
  conv,      \* the trajectories: agent loop and client
  failures,  \* generate calls that raised so far
  checked,   \* history: the last booking was found to fit
  shrunk,    \* history: some turn was booked smaller than the turn before
  declined   \* history: some trajectory ended smaller than one of its turns

books == <<used, resident, sizes, charge>>
stagger == <<leader, leaderRid, ready>>
lpt == <<pending, planned, window>>
history == <<checked, shrunk, declined>>
vars == <<option, books, admitted, stagger, lpt, conv, failures, history>>

Waiting == {"polling", "follower", "opener", "window"}
Conversation == [at : {"next", "running", "done", "failed"} \cup Waiting,
                 turn : 0..Turns, size : Sizes \cup {0}, source : Replicas \cup {NoOne}]
TurnSizes == UNION {[T -> Sizes] : T \in SUBSET (0..Turns - 1)}
Entry == [work : Works, rid : Rids]

(* A trajectory that is not inside a generate call.                        *)
Between(at, turn) == [at |-> at, turn |-> turn, size |-> 0, source |-> NoOne]

Init ==
  /\ option \in Options
  /\ used = [r \in Replicas |-> 0]
  /\ resident = [rid \in Rids |-> NoOne]
  /\ sizes = [rid \in Rids |-> <<>>]
  /\ charge = [rid \in Rids |-> 0]
  /\ admitted = 0
  /\ leader = [g \in Groups |-> NoOne] /\ leaderRid = [g \in Groups |-> NoOne] /\ ready = {}
  /\ pending = {} /\ planned = [rid \in Rids |-> NoOne] /\ window = "unopened"
  /\ conv = [rid \in Rids |-> Between("next", 0)]
  /\ failures = 0
  /\ checked = [rid \in Rids |-> TRUE] /\ shrunk = FALSE /\ declined = FALSE

-----------------------------------------------------------------------------
(* The books.                                                              *)

Positive(n) == IF n > 0 THEN n ELSE 0
Residents(r) == {rid \in Rids : resident[rid] = r}
Reserve(r) == SumFunctionOnSet(charge, Residents(r))
Free(r) == Budget - used[r] - Reserve(r)
FreeOf == [r \in Replicas |-> Free(r)]

(* max() keeps the first of several maxima.                                *)
Emptiest(S, room) ==
  CHOOSE r \in S : \A q \in S : room[r] > room[q] \/ (room[r] = room[q] /\ r <= q)

LeastLoaded == Emptiest(Replicas, FreeOf)
Others(r) == Replicas \ {r}

(* Faulty variant: a turn that stays is charged in full.                   *)
BookedInFull(u, rid, r, t, size) == [u EXCEPT ![r] = @ + size]

(* used after _book added turn t of rid to replica r, from used = u.       *)
Booked(u, rid, r, t, size) ==
  [u EXCEPT ![r] = @ + IF resident[rid] = r /\ t - 1 \in DOMAIN sizes[rid]
                       THEN Positive(size - sizes[rid][t - 1])
                       ELSE size]

(* used after _release_booking took turn t of rid off its replica.         *)
Released(u, rid, t) ==
  [u EXCEPT ![resident[rid]] = Positive(@ - (IF t \in DOMAIN sizes[rid] THEN sizes[rid][t] ELSE 0))]

(* The estimator averages what the trajectories that ended still had ahead *)
(* at each of their turns, from a first guess that is not negative: an     *)
(* estimate is negative only after one ended smaller than it had been.     *)
Estimates == {c \in Charges : c >= 0 \/ declined}

WriteTurn(rid, t, size) ==
  /\ sizes' = [sizes EXCEPT ![rid] = [n \in DOMAIN @ \cup {t} |-> IF n = t THEN size ELSE @[n]]]
  /\ \E c \in Estimates : charge' = [charge EXCEPT ![rid] = c]

Book(u, rid, r, t, size) ==
  /\ used' = Booked(u, rid, r, t, size)
  /\ resident' = [resident EXCEPT ![rid] = r]
  /\ WriteTurn(rid, t, size)

(* acquire returns replica r: the client dispatches the turn to it.        *)
Dispatch(rid, t, size, source, fits) ==
  /\ conv' = [conv EXCEPT ![rid] = [at |-> "running", turn |-> t, size |-> size,
                                    source |-> source]]
  /\ checked' = [checked EXCEPT ![rid] = fits]

Place(rid, r, size, source, fits) ==
  Book(used, rid, r, 0, size) /\ Dispatch(rid, 0, size, source, fits)

Wait(rid, at, size) ==
  /\ conv' = [conv EXCEPT ![rid] = [@ EXCEPT !.at = at, !.size = size]]
  /\ UNCHANGED <<books, checked>>

-----------------------------------------------------------------------------
(* Turn 0: acquire.                                                        *)

(* Faulty variant: any headroom at all is taken for enough.                *)
FitsIfAny(size) == Free(LeastLoaded) > 0

Fits(size) == Free(LeastLoaded) >= size

(* The first Wave1 trajectories start at once, later ones when they fit.   *)
Gate(rid, size) ==
  /\ admitted' = admitted + 1
  /\ IF admitted' <= Wave1 \/ Fits(size)
     THEN Place(rid, LeastLoaded, size, NoOne, admitted' > Wave1)
     ELSE Wait(rid, "polling", size)
  /\ UNCHANGED lpt

(* Faulty variant: a late arrival joins a window that is closed.           *)
JoinWindowAlways(rid, size) ==
  /\ \E w \in Works : pending' = pending \cup {[work |-> w, rid |-> rid]}
  /\ window' = IF window = "unopened" THEN "open" ELSE window
  /\ Wait(rid, IF window = "unopened" THEN "opener" ELSE "window", size)
  /\ UNCHANGED <<planned, admitted>>

JoinWindow(rid, size) ==
  /\ IF window = "closed"
     THEN Place(rid, LeastLoaded, size, NoOne, FALSE) /\ UNCHANGED <<pending, window>>
     ELSE /\ \E w \in Works : pending' = pending \cup {[work |-> w, rid |-> rid]}
          /\ window' = "open"
          /\ Wait(rid, IF window = "unopened" THEN "opener" ELSE "window", size)
  /\ UNCHANGED <<planned, admitted>>

PlaceAlone(rid, size) == IF option.lpt THEN JoinWindow(rid, size) ELSE Gate(rid, size)

(* A follower goes to another replica than its leader and pulls the prefix *)
(* from it; with a single replica it is placed like everyone else.         *)
Follow(rid, size) ==
  LET lead == leader[GroupOf[rid]]
  IN IF Others(lead) = {}
     THEN PlaceAlone(rid, size)
     ELSE /\ Place(rid, Emptiest(Others(lead), FreeOf), size,
                   IF option.p2p THEN lead ELSE NoOne, FALSE)
          /\ UNCHANGED <<admitted, lpt>>

Acquire(rid, size) ==
  /\ conv[rid].at = "next" /\ conv[rid].turn = 0
  /\ UNCHANGED <<option, failures, shrunk, declined>>
  /\ LET g == GroupOf[rid]
     IN \/ ~option.stagger /\ PlaceAlone(rid, size) /\ UNCHANGED stagger
        \/ /\ option.stagger /\ leaderRid[g] = NoOne
           /\ leader' = [leader EXCEPT ![g] = LeastLoaded]
           /\ leaderRid' = [leaderRid EXCEPT ![g] = rid]
           /\ Place(rid, LeastLoaded, size, NoOne, FALSE)
           /\ UNCHANGED <<ready, admitted, lpt>>
        \/ /\ option.stagger /\ leaderRid[g] # NoOne
           /\ IF g \in ready
              THEN Follow(rid, size)
              ELSE Wait(rid, "follower", size) /\ UNCHANGED <<admitted, lpt>>
           /\ UNCHANGED stagger

(* The poll loop of acquire finds headroom, or its deadline has passed.    *)
Poll(rid) ==
  /\ conv[rid].at = "polling"
  /\ Fits(conv[rid].size)
  /\ Place(rid, LeastLoaded, conv[rid].size, NoOne, TRUE)
  /\ UNCHANGED <<option, admitted, stagger, lpt, failures, shrunk, declined>>

ForceAdmission(rid) ==
  /\ conv[rid].at = "polling"
  /\ Place(rid, LeastLoaded, conv[rid].size, NoOne, FALSE)
  /\ UNCHANGED <<option, admitted, stagger, lpt, failures, shrunk, declined>>

(* _group_ready is set: a waiting follower goes on.                        *)
LeaderReady(rid) ==
  /\ conv[rid].at = "follower" /\ GroupOf[rid] \in ready
  /\ Follow(rid, conv[rid].size)
  /\ UNCHANGED <<option, stagger, failures, shrunk, declined>>

(* Faulty variant: after the timeout the follower waits again.             *)
StaggerTimeoutRetries(rid) ==
  /\ conv[rid].at = "follower"
  /\ Wait(rid, "follower", conv[rid].size)
  /\ UNCHANGED <<option, admitted, stagger, lpt, failures, shrunk, declined>>

StaggerTimeout(rid) ==
  /\ conv[rid].at = "follower"
  /\ PlaceAlone(rid, conv[rid].size)
  /\ UNCHANGED <<option, stagger, failures, shrunk, declined>>

-----------------------------------------------------------------------------
(* The placement window (_lpt_place).                                      *)

(* The pending sessions by decreasing work; ties fall by request id, which *)
(* is random.                                                              *)
Batches == {b \in SetToSeqs(pending) : \A i \in 1..Len(b) - 1 : b[i].work >= b[i + 1].work}

(* to places the batch: each session goes to the emptiest replica, given   *)
(* the work handed out before it.                                          *)
HandedOut(batch, to, i, r) ==
  MapThenSumSet(LAMBDA n : batch[n].work, {n \in 1..i - 1 : to[n] = r})

Places(batch, to) ==
  \A i \in DOMAIN batch :
    to[i] = Emptiest(Replicas, [r \in Replicas |-> Free(r) - HandedOut(batch, to, i, r)])

(* The session that opened the window wakes up, places the batch and goes  *)
(* on with its own result.                                                 *)
CloseWindow(rid) ==
  /\ conv[rid].at = "opener"
  /\ \E batch \in Batches, to \in [1..Cardinality(pending) -> Replicas] :
       LET rids == {entry.rid : entry \in pending}
           Result(x) == to[CHOOSE i \in DOMAIN batch : batch[i].rid = x]
       IN /\ Places(batch, to)
          /\ planned' = [x \in Rids |-> IF x \in rids \ {rid} THEN Result(x) ELSE planned[x]]
          /\ Place(rid, Result(rid), conv[rid].size, NoOne, FALSE)
  /\ pending' = {} /\ window' = "closed"
  /\ UNCHANGED <<option, admitted, stagger, failures, shrunk, declined>>

WindowSet(rid) ==
  /\ conv[rid].at = "window" /\ window = "closed"
  /\ Place(rid, IF planned[rid] = NoOne THEN LeastLoaded ELSE planned[rid],
           conv[rid].size, NoOne, FALSE)
  /\ planned' = [planned EXCEPT ![rid] = NoOne]
  /\ UNCHANGED <<option, admitted, stagger, pending, window, failures, shrunk, declined>>

(* window + 30 s have passed: the result, if one comes, is left behind.    *)
WindowTimeout(rid) ==
  /\ conv[rid].at = "window"
  /\ Place(rid, LeastLoaded, conv[rid].size, NoOne, FALSE)
  /\ UNCHANGED <<option, admitted, stagger, lpt, failures, shrunk, declined>>

-----------------------------------------------------------------------------
(* Later turns: _continue_or_migrate.                                      *)

MayRebalance(rid, size) ==
  LET home == resident[rid]
      cand == Emptiest(Others(home), FreeOf)
  IN /\ option.slack >= 0 /\ option.migrate /\ Others(home) # {}
     /\ Free(cand) - Free(home) > option.slack
     /\ Free(cand) >= size

(* Faulty variant: the new replica is asked for the increment only.        *)
MayMigrateIncrement(rid, size, need) ==
  /\ option.migrate /\ Others(resident[rid]) # {}
  /\ need - Free(resident[rid]) >= option.costRatio * size
  /\ Free(Emptiest(Others(resident[rid]), FreeOf)) >= need

MayMigrate(rid, size, need) ==
  /\ option.migrate /\ Others(resident[rid]) # {}
  /\ need - Free(resident[rid]) >= option.costRatio * size
  /\ Free(Emptiest(Others(resident[rid]), FreeOf)) >= size

Continue(rid, size) ==
  LET t    == conv[rid].turn
      home == resident[rid]
      need == Positive(size - sizes[rid][t - 1])
      fits == Free(home) >= need
  IN /\ conv[rid].at = "next" /\ t \in 1..Turns - 1
     /\ IF MayRebalance(rid, size) \/ (~fits /\ MayMigrate(rid, size, need))
        THEN /\ Book(Released(used, rid, t - 1), rid, Emptiest(Others(home), FreeOf), t, size)
             /\ Dispatch(rid, t, size, IF option.p2p THEN home ELSE NoOne, TRUE)
        ELSE /\ Book(used, rid, home, t, size)
             /\ Dispatch(rid, t, size, NoOne, fits)
     /\ shrunk' = (shrunk \/ size < sizes[rid][t - 1])
     /\ UNCHANGED <<option, admitted, stagger, lpt, failures, declined>>

-----------------------------------------------------------------------------
(* The end of a turn and of a trajectory.                                  *)

(* Faulty variant: any sibling's turn 0 will do.                           *)
MarkReadyBySibling(rid) ==
  ready' = IF option.stagger /\ conv[rid].turn = 0 THEN ready \cup {GroupOf[rid]} ELSE ready

MarkReady(rid) ==
  ready' = IF option.stagger /\ conv[rid].turn = 0
           THEN ready \cup {g \in Groups : leaderRid[g] = rid}
           ELSE ready

(* Faulty variants of record_turn: the difference to the booking has the   *)
(* wrong sign, or only the history learns the measured size.               *)
RecordTurnSwapped(rid, size) ==
  /\ MarkReady(rid)
  /\ used' = [used EXCEPT ![resident[rid]] = @ + sizes[rid][conv[rid].turn] - size]
  /\ WriteTurn(rid, conv[rid].turn, size)
  /\ checked' = [checked EXCEPT ![rid] = @ /\ size <= conv[rid].size]
  /\ UNCHANGED <<resident, leader, leaderRid>>

RecordSizeOnly(rid, size) ==
  /\ MarkReady(rid)
  /\ WriteTurn(rid, conv[rid].turn, size)
  /\ checked' = [checked EXCEPT ![rid] = @ /\ size <= conv[rid].size]
  /\ UNCHANGED <<used, resident, leader, leaderRid>>

(* record_turn, which the client calls however generate ended.             *)
RecordTurn(rid, size) ==
  /\ MarkReady(rid)
  /\ used' = [used EXCEPT ![resident[rid]] = @ + size - sizes[rid][conv[rid].turn]]
  /\ WriteTurn(rid, conv[rid].turn, size)
  /\ checked' = [checked EXCEPT ![rid] = @ /\ size <= conv[rid].size]
  /\ UNCHANGED <<resident, leader, leaderRid>>

(* generate returned; the measured context may differ from the booked one. *)
TurnDone(rid, size) ==
  /\ conv[rid].at = "running"
  /\ RecordTurn(rid, size)
  /\ conv' = [conv EXCEPT ![rid] = Between("next", @.turn + 1)]
  /\ UNCHANGED <<option, admitted, lpt, failures, shrunk, declined>>

(* generate raised: the prompt alone is recorded and the agent loop ends   *)
(* without its on_trajectory_done hook.                                    *)
TurnFails(rid, size) ==
  /\ conv[rid].at = "running" /\ size <= conv[rid].size
  /\ failures < MaxFailures /\ failures' = failures + 1
  /\ RecordTurn(rid, size)
  /\ conv' = [conv EXCEPT ![rid] = Between("failed", @.turn)]
  /\ UNCHANGED <<option, admitted, lpt, shrunk, declined>>

LastSize(rid) == sizes[rid][Max(DOMAIN sizes[rid])]

ReleaseAll(rid) == [used EXCEPT ![resident[rid]] = Positive(@ - LastSize(rid))]

TrajectoryDone(rid) ==
  /\ conv[rid].at = "next" /\ conv[rid].turn > 0
  /\ used' = ReleaseAll(rid)
  /\ resident' = [resident EXCEPT ![rid] = NoOne]
  /\ sizes' = [sizes EXCEPT ![rid] = <<>>]
  /\ charge' = [charge EXCEPT ![rid] = 0]
  /\ conv' = [conv EXCEPT ![rid].at = "done"]
  /\ checked' = [checked EXCEPT ![rid] = TRUE]
  /\ declined' = (declined \/ \E t \in DOMAIN sizes[rid] : sizes[rid][t] > LastSize(rid))
  /\ UNCHANGED <<option, admitted, stagger, lpt, failures, shrunk>>

-----------------------------------------------------------------------------
Wakes(rid) ==
  \/ Poll(rid) \/ ForceAdmission(rid)
  \/ LeaderReady(rid) \/ StaggerTimeout(rid)
  \/ CloseWindow(rid) \/ WindowSet(rid) \/ WindowTimeout(rid)

Next ==
  \E rid \in Rids :
    \/ \E size \in Sizes :
         Acquire(rid, size) \/ Continue(rid, size) \/ TurnDone(rid, size) \/ TurnFails(rid, size)
    \/ Wakes(rid)
    \/ TrajectoryDone(rid)

Spec == Init /\ [][Next]_vars

(* Every await of acquire has a timeout, and the event loop runs what is   *)
(* due.                                                                    *)
FairSpec == Spec /\ \A rid \in Rids : WF_vars(Wakes(rid))

-----------------------------------------------------------------------------
(* Properties.                                                             *)

(* Every variable has its type; in particular no replica's booking is ever *)
(* negative.                                                               *)
TypeOK ==
  /\ option \in Options
  /\ used \in [Replicas -> Nat]
  /\ resident \in [Rids -> Replicas \cup {NoOne}]
  /\ sizes \in [Rids -> TurnSizes]
  /\ charge \in [Rids -> Charges \cup {0}]
  /\ admitted \in 0..Cardinality(Rids)
  /\ leader \in [Groups -> Replicas \cup {NoOne}]
  /\ leaderRid \in [Groups -> Rids \cup {NoOne}]
  /\ ready \subseteq Groups
  /\ pending \subseteq Entry
  /\ planned \in [Rids -> Replicas \cup {NoOne}]
  /\ window \in {"unopened", "open", "closed"}
  /\ conv \in [Rids -> Conversation]
  /\ failures \in 0..MaxFailures
  /\ checked \in [Rids -> BOOLEAN] /\ shrunk \in BOOLEAN /\ declined \in BOOLEAN

BookedOn(r) == SumFunction([rid \in Residents(r) |-> LastSize(rid)])

(* A replica is never booked for less than the last measured contexts of   *)
(* its residents: no sequence of turns, migrations and ends releases       *)
(* tokens twice.                                                           *)
NeverUndercounts == \A r \in Replicas : used[r] >= BookedOn(r)

(* As long as no turn is booked smaller than the one before was measured,  *)
(* the bookings are exact.                                                 *)
GrowingContextsBalance == ~shrunk => \A r \in Replicas : used[r] = BookedOn(r)

(* If the last booking of every resident of a replica was found to fit     *)
(* when it was made, the residents fit together: polls, later turns and    *)
(* migrations that interleave never share headroom.  This holds while      *)
(* contexts grow: a turn booked smaller leaves a stray booking, and a      *)
(* trajectory that ended smaller than it was can make the estimated growth *)
(* negative, which the gate then counts as room.                           *)
CheckedResidentsFit ==
  \A r \in Replicas :
    ~shrunk /\ ~declined /\ (\A rid \in Residents(r) : checked[rid]) => used[r] <= Budget

(* A follower that is sent to pull its prefix from the leader is placed    *)
(* only after the turn 0 of the leader of its own group has ended.         *)
FollowersWaitForLeader ==
  \A rid \in Rids :
    conv[rid].at = "running" /\ conv[rid].turn = 0 /\ conv[rid].source # NoOne =>
      LET l == leaderRid[GroupOf[rid]]
      IN l # NoOne /\ l # rid /\ (conv[l].turn > 0 \/ conv[l].at = "failed")

(* No session is left in a window that is closed: what arrives later is    *)
(* placed on its own.                                                      *)
NobodyMissesTheWindow == window = "closed" => pending = {}

(* "Never hang a rollout on a leader that died or stalled", nor on         *)
(* headroom that never appears: every acquire returns.                     *)
AcquireReturns == \A rid \in Rids : conv[rid].at \in Waiting ~> conv[rid].at = "running"

(* "Release bookings and feed the estimator" (on_trajectory_done): when    *)
(* nobody is resident on a replica, nothing is booked on it.  A turn that  *)
(* is smaller than the one before lowers the history but not the booking.  *)
LedgerDrains == \A r \in Replicas : Residents(r) = {} => used[r] = 0
=============================================================================
