------------------------ MODULE AdmissionLedgerProofs ------------------------
(***************************************************************************)
(* What holds of the wave admission ledger for any number of trajectories, *)
(* turns, replicas and sizes: of its groups, of its placement window, and  *)
(* of its books, what is booked on a replica against the contexts of the   *)
(* trajectories that are resident on it.                                   *)
(***************************************************************************)
EXTENDS AdmissionLedger, SumTheorems

(* A trajectory has its fields; what it waits for is its turn 0.           *)
Shape ==
  /\ conv = [rid \in Rids |-> [at |-> conv[rid].at, turn |-> conv[rid].turn,
                               size |-> conv[rid].size, source |-> conv[rid].source]]
  /\ \A rid \in Rids : conv[rid].turn \in Nat

WaitInv == \A rid \in Rids : conv[rid].at \in Waiting => conv[rid].turn = 0

(* A group is ready only once its leader's turn 0 has ended.               *)
Prefilled(rid) == conv[rid].turn > 0 \/ conv[rid].at = "failed"

GroupInv ==
  /\ leaderRid \in [Groups -> Rids \cup {NoOne}]
  /\ ready \subseteq Groups
  /\ \A g \in ready : leaderRid[g] # NoOne /\ Prefilled(leaderRid[g])

(* Who pulls belongs to a ready group and does not lead it.                *)
Pulling(rid) == conv[rid].at = "running" /\ conv[rid].turn = 0 /\ conv[rid].source # NoOne
MayPull(rid) == GroupOf[rid] \in ready /\ leaderRid[GroupOf[rid]] # rid
PullInv == \A rid \in Rids : Pulling(rid) => MayPull(rid)

IInv == Shape /\ WaitInv /\ GroupInv /\ PullInv

-----------------------------------------------------------------------------
(* What a step does to its trajectory.                                     *)
OthersKept(rid) == \A x \in Rids : x # rid => conv'[x] = conv[x]

LEMMA ConvEffect ==
  ASSUME Shape, NEW rid \in Rids, NEW at, NEW turn \in Nat, NEW size, NEW source,
         conv' = [conv EXCEPT ![rid] = [at |-> at, turn |-> turn, size |-> size,
                                        source |-> source]]
  PROVE  /\ Shape' /\ OthersKept(rid)
         /\ conv'[rid].at = at /\ conv'[rid].turn = turn /\ conv'[rid].source = source
  <1>1. DOMAIN conv = Rids
    BY DEF Shape
  <1>2. conv'[rid] = [at |-> at, turn |-> turn, size |-> size, source |-> source]
    BY <1>1
  <1>3. \A x \in Rids : x # rid => conv'[x] = conv[x]
    BY <1>1
  <1>4. \A x \in Rids :
          /\ conv[x] = [at |-> conv[x].at, turn |-> conv[x].turn, size |-> conv[x].size,
                        source |-> conv[x].source]
          /\ conv[x].turn \in Nat
    BY DEF Shape
  <1>5. \A x \in Rids :
          /\ conv'[x] = [at |-> conv'[x].at, turn |-> conv'[x].turn, size |-> conv'[x].size,
                         source |-> conv'[x].source]
          /\ conv'[x].turn \in Nat
    BY <1>2, <1>3, <1>4
  <1>6. conv' = [x \in Rids |-> conv'[x]]
    BY <1>1
  <1>7. Shape'
    BY <1>5, <1>6 DEF Shape
  <1> QED
    BY <1>2, <1>3, <1>7 DEF OthersKept

LEMMA DispatchEffect ==
  ASSUME Shape, NEW rid \in Rids, NEW t \in Nat, NEW size, NEW source, NEW fits,
         Dispatch(rid, t, size, source, fits)
  PROVE  /\ Shape' /\ OthersKept(rid)
         /\ conv'[rid].at = "running" /\ conv'[rid].turn = t /\ conv'[rid].source = source
  BY ConvEffect DEF Dispatch

LEMMA WaitEffect ==
  ASSUME Shape, NEW rid \in Rids, NEW at, NEW size, Wait(rid, at, size)
  PROVE  /\ Shape' /\ OthersKept(rid)
         /\ conv'[rid].at = at /\ conv'[rid].turn = conv[rid].turn
  <1> DEFINE a == conv[rid].at  t == conv[rid].turn  z == conv[rid].size
             s == conv[rid].source
  <1>1. conv[rid] = [at |-> a, turn |-> t, size |-> z, source |-> s] /\ t \in Nat
    BY DEF Shape
  <1>2. conv' = [conv EXCEPT ![rid] = [conv[rid] EXCEPT !.at = at, !.size = size]]
    BY DEF Wait
  <1> HIDE DEF a, t, z, s
  <1>3. [[at |-> a, turn |-> t, size |-> z, source |-> s] EXCEPT !.at = at, !.size = size] =
          [at |-> at, turn |-> t, size |-> size, source |-> s]
    <2>1. [[at |-> a, turn |-> t, size |-> z, source |-> s] EXCEPT !.at = at] =
            [at |-> at, turn |-> t, size |-> z, source |-> s]
      OBVIOUS
    <2>2. [[at |-> at, turn |-> t, size |-> z, source |-> s] EXCEPT !.size = size] =
            [at |-> at, turn |-> t, size |-> size, source |-> s]
      OBVIOUS
    <2> QED
      BY <2>1, <2>2
  <1>4. conv' = [conv EXCEPT ![rid] = [at |-> at, turn |-> t, size |-> size, source |-> s]]
    BY <1>1, <1>2, <1>3
  <1>5. /\ Shape' /\ OthersKept(rid)
        /\ conv'[rid].at = at /\ conv'[rid].turn = t
    BY <1>1, <1>4, ConvEffect
  <1> QED
    BY <1>5 DEF t

LEMMA BetweenEffect ==
  ASSUME Shape, NEW rid \in Rids, NEW at, NEW turn \in Nat,
         conv' = [conv EXCEPT ![rid] = Between(at, turn)]
  PROVE  /\ Shape' /\ OthersKept(rid)
         /\ conv'[rid].at = at /\ conv'[rid].turn = turn
  BY ConvEffect DEF Between

-----------------------------------------------------------------------------
(* Turn 0: the trajectory is dispatched, to pull only if its group is      *)
(* ready, or waits.                                                        *)
Early(rid) ==
  /\ Shape' /\ OthersKept(rid)
  /\ conv'[rid].turn = 0
  /\ \/ conv'[rid].at \in Waiting
     \/ /\ conv'[rid].at = "running"
        /\ conv'[rid].source # NoOne => GroupOf[rid] \in ready

LEMMA PlaceEarly ==
  ASSUME Shape, NEW rid \in Rids, NEW r, NEW size, NEW source, NEW fits,
         Place(rid, r, size, source, fits), source # NoOne => GroupOf[rid] \in ready
  PROVE  Early(rid)
  <1>1. Dispatch(rid, 0, size, source, fits)
    BY DEF Place
  <1>2. /\ Shape' /\ OthersKept(rid)
        /\ conv'[rid].at = "running" /\ conv'[rid].turn = 0 /\ conv'[rid].source = source
    BY <1>1, DispatchEffect
  <1> QED
    BY <1>2 DEF Early

LEMMA WaitEarly ==
  ASSUME Shape, NEW rid \in Rids, NEW at \in Waiting, NEW size, Wait(rid, at, size),
         conv[rid].turn = 0
  PROVE  Early(rid)
  <1>1. Shape' /\ OthersKept(rid) /\ conv'[rid].at = at /\ conv'[rid].turn = 0
    BY WaitEffect
  <1> QED
    BY <1>1 DEF Early

LEMMA AloneEarly ==
  ASSUME Shape, NEW rid \in Rids, NEW size, PlaceAlone(rid, size), conv[rid].turn = 0
  PROVE  Early(rid)
  <1>1. CASE option.lpt
    <2>1. CASE window = "closed"
      <3>1. Place(rid, LeastLoaded, size, NoOne, FALSE)
        BY <1>1, <2>1 DEF PlaceAlone, JoinWindow
      <3> QED
        BY <3>1, PlaceEarly
    <2>2. CASE window # "closed"
      <3>1. PICK at \in {"opener", "window"} : Wait(rid, at, size)
        BY <1>1, <2>2 DEF PlaceAlone, JoinWindow
      <3> QED
        BY <3>1, WaitEarly DEF Waiting
    <2> QED
      BY <2>1, <2>2
  <1>2. CASE ~option.lpt
    <2>1. Gate(rid, size)
      BY <1>2 DEF PlaceAlone
    <2>2. CASE Place(rid, LeastLoaded, size, NoOne, admitted' > Wave1)
      BY <2>2, PlaceEarly
    <2>3. CASE Wait(rid, "polling", size)
      BY <2>3, WaitEarly DEF Waiting
    <2> QED
      BY <2>1, <2>2, <2>3 DEF Gate
  <1> QED
    BY <1>1, <1>2

LEMMA FollowEarly ==
  ASSUME Shape, NEW rid \in Rids, NEW size, Follow(rid, size), conv[rid].turn = 0,
         GroupOf[rid] \in ready
  PROVE  Early(rid)
  <1>1. CASE Others(leader[GroupOf[rid]]) = {}
    BY <1>1, AloneEarly DEF Follow
  <1>2. CASE Others(leader[GroupOf[rid]]) # {}
    BY <1>2, PlaceEarly DEF Follow
  <1> QED
    BY <1>1, <1>2

(* The invariant survives it: a ready group is led by another.             *)
LEMMA EarlyStep ==
  ASSUME IInv, NEW rid \in Rids, Early(rid), ready' = ready,
         conv[rid].turn = 0, conv[rid].at # "failed",
         \/ leaderRid' = leaderRid
         \/ /\ leaderRid[GroupOf[rid]] = NoOne
            /\ leaderRid' = [leaderRid EXCEPT ![GroupOf[rid]] = rid]
            /\ conv'[rid].source = NoOne
  PROVE  IInv'
  <1>0. Shape /\ WaitInv /\ GroupInv /\ PullInv
    BY DEF IInv
  <1>1. ~Prefilled(rid) /\ rid # NoOne
    BY LedgerAssumption DEF Prefilled
  <1>2. GroupOf[rid] \in Groups
    BY LedgerAssumption
  <1>3. \A x \in Rids : x # rid => conv'[x] = conv[x]
    BY DEF Early, OthersKept
  <1>4. \A g \in ready : /\ g \in Groups /\ leaderRid'[g] = leaderRid[g]
                         /\ leaderRid[g] \in Rids \ {rid}
    BY <1>0, <1>1, <1>2 DEF GroupInv
  <1>5. WaitInv'
    BY <1>0, <1>3 DEF WaitInv, Early
  <1>6. GroupInv'
    <2>1. leaderRid' \in [Groups -> Rids \cup {NoOne}] /\ ready' \subseteq Groups
      BY <1>0, <1>2 DEF GroupInv
    <2>2. \A g \in ready' : leaderRid'[g] # NoOne /\ Prefilled(leaderRid[g])'
      BY <1>0, <1>3, <1>4 DEF GroupInv, Prefilled
    <2> QED
      BY <2>1, <2>2 DEF GroupInv
  <1>7. PullInv'
    <2> SUFFICES ASSUME NEW x \in Rids, Pulling(x)' PROVE MayPull(x)'
      BY DEF PullInv
    <2>1. CASE x = rid
      <3>1. GroupOf[rid] \in ready /\ conv'[rid].source # NoOne
        BY <2>1 DEF Early, Pulling, Waiting
      <3>2. leaderRid'[GroupOf[rid]] # rid
        BY <3>1, <1>4
      <3> QED
        BY <2>1, <3>1, <3>2 DEF MayPull
    <2>2. CASE x # rid
      <3>1. MayPull(x)
        BY <1>0, <1>3, <2>2 DEF PullInv, Pulling
      <3>2. leaderRid'[GroupOf[x]] = leaderRid[GroupOf[x]]
        BY <3>1, <1>4 DEF MayPull
      <3> QED
        BY <3>1, <3>2 DEF MayPull
    <2> QED
      BY <2>1, <2>2
  <1> QED
    BY <1>5, <1>6, <1>7 DEF IInv, Early

-----------------------------------------------------------------------------
(* Later: the trajectory is past its turn 0, or has failed; only its own   *)
(* groups become ready.                                                    *)
Late(rid) ==
  /\ Shape' /\ OthersKept(rid)
  /\ conv'[rid].at \notin Waiting
  /\ conv'[rid].turn > 0 \/ conv'[rid].at = "failed"
  /\ leaderRid' = leaderRid
  /\ ready' = ready \/ ready' = ready \cup {g \in Groups : leaderRid[g] = rid}

LEMMA LateStep ==
  ASSUME IInv, NEW rid \in Rids, Late(rid)
  PROVE  IInv'
  <1>0. Shape /\ WaitInv /\ GroupInv /\ PullInv
    BY DEF IInv
  <1>1. \A x \in Rids : x # rid => conv'[x] = conv[x]
    BY DEF Late, OthersKept
  <1>2. rid # NoOne
    BY LedgerAssumption
  <1>3. WaitInv'
    BY <1>0, <1>1 DEF WaitInv, Late
  <1>4. GroupInv'
    <2>1. \A g \in ready' : leaderRid'[g] # NoOne /\ Prefilled(leaderRid[g])'
      <3> SUFFICES ASSUME NEW g \in ready'
                   PROVE  leaderRid[g] # NoOne /\ Prefilled(leaderRid[g])'
        BY DEF Late
      <3>1. CASE leaderRid[g] = rid
        BY <1>2, <3>1 DEF Late, Prefilled
      <3>2. CASE leaderRid[g] # rid
        <4>1. g \in ready /\ g \in Groups /\ leaderRid[g] \in Rids
          BY <1>0, <3>2 DEF Late, GroupInv
        <4> QED
          BY <1>0, <1>1, <3>2, <4>1 DEF GroupInv, Prefilled, Late
      <3> QED
        BY <3>1, <3>2
    <2> QED
      BY <1>0, <2>1 DEF GroupInv, Late
  <1>5. PullInv'
    <2> SUFFICES ASSUME NEW x \in Rids, Pulling(x)' PROVE MayPull(x)'
      BY DEF PullInv
    <2>1. x # rid
      BY DEF Pulling, Late
    <2> QED
      BY <1>0, <1>1, <2>1 DEF PullInv, Pulling, MayPull, Late
  <1> QED
    BY <1>3, <1>4, <1>5 DEF IInv, Late

LEMMA ContinueLate ==
  ASSUME Shape, NEW rid \in Rids, NEW size, Continue(rid, size)
  PROVE  Late(rid)
  <1>1. conv[rid].turn \in Nat /\ conv[rid].turn > 0
    BY LedgerAssumption DEF Continue
  <1>2. UNCHANGED <<leaderRid, ready>>
    BY DEF Continue, stagger
  <1>3. \E source, fits : Dispatch(rid, conv[rid].turn, size, source, fits)
    BY DEF Continue
  <1>4. /\ Shape' /\ OthersKept(rid)
        /\ conv'[rid].at = "running" /\ conv'[rid].turn = conv[rid].turn
    BY <1>1, <1>3, DispatchEffect
  <1> QED
    BY <1>1, <1>2, <1>4 DEF Late, Waiting

LEMMA RecordReady ==
  ASSUME NEW rid \in Rids, NEW size, RecordTurn(rid, size)
  PROVE  /\ leaderRid' = leaderRid
         /\ ready' = ready \/ ready' = ready \cup {g \in Groups : leaderRid[g] = rid}
  BY DEF RecordTurn, MarkReady

LEMMA DoneLate ==
  ASSUME Shape, NEW rid \in Rids, NEW size, TurnDone(rid, size)
  PROVE  Late(rid)
  <1>1. conv[rid].turn \in Nat /\ conv[rid].turn + 1 \in Nat /\ conv[rid].turn + 1 > 0
    BY DEF Shape
  <1>2. conv' = [conv EXCEPT ![rid] = Between("next", conv[rid].turn + 1)]
    BY DEF TurnDone
  <1>3. /\ Shape' /\ OthersKept(rid)
        /\ conv'[rid].at = "next" /\ conv'[rid].turn = conv[rid].turn + 1
    BY <1>1, <1>2, BetweenEffect
  <1>4. RecordTurn(rid, size)
    BY DEF TurnDone
  <1> QED
    BY <1>1, <1>3, <1>4, RecordReady DEF Late, Waiting

LEMMA FailsLate ==
  ASSUME Shape, NEW rid \in Rids, NEW size, TurnFails(rid, size)
  PROVE  Late(rid)
  <1>1. conv[rid].turn \in Nat
    BY DEF Shape
  <1>2. conv' = [conv EXCEPT ![rid] = Between("failed", conv[rid].turn)]
    BY DEF TurnFails
  <1>3. Shape' /\ OthersKept(rid) /\ conv'[rid].at = "failed"
    BY <1>1, <1>2, BetweenEffect
  <1>4. RecordTurn(rid, size)
    BY DEF TurnFails
  <1> QED
    BY <1>3, <1>4, RecordReady DEF Late, Waiting

LEMMA TrajectoryLate ==
  ASSUME Shape, NEW rid \in Rids, TrajectoryDone(rid)
  PROVE  Late(rid)
  <1>1. conv[rid].turn \in Nat /\ conv[rid].turn > 0
    BY DEF Shape, TrajectoryDone
  <1>2. /\ Shape' /\ OthersKept(rid)
        /\ conv'[rid].at = "done" /\ conv'[rid].turn = conv[rid].turn
    <2> DEFINE a == conv[rid].at  t == conv[rid].turn  z == conv[rid].size
               s == conv[rid].source
    <2>1. conv[rid] = [at |-> a, turn |-> t, size |-> z, source |-> s] /\ t \in Nat
      BY DEF Shape
    <2>2. conv' = [conv EXCEPT ![rid] = [conv[rid] EXCEPT !.at = "done"]]
      BY DEF TrajectoryDone
    <2> HIDE DEF a, t, z, s
    <2>3. [[at |-> a, turn |-> t, size |-> z, source |-> s] EXCEPT !.at = "done"] =
            [at |-> "done", turn |-> t, size |-> z, source |-> s]
      OBVIOUS
    <2>4. conv' = [conv EXCEPT ![rid] = [at |-> "done", turn |-> t, size |-> z, source |-> s]]
      BY <2>1, <2>2, <2>3
    <2>5. /\ Shape' /\ OthersKept(rid)
          /\ conv'[rid].at = "done" /\ conv'[rid].turn = t
      BY <2>1, <2>4, ConvEffect
    <2> QED
      BY <2>5 DEF t
  <1>3. UNCHANGED <<leaderRid, ready>>
    BY DEF TrajectoryDone, stagger
  <1> QED
    BY <1>1, <1>2, <1>3 DEF Late, Waiting

LEMMA AcquireStep ==
  ASSUME IInv, NEW rid \in Rids, NEW size, Acquire(rid, size)
  PROVE  IInv'
  <1>0. Shape
    BY DEF IInv
  <1>1. conv[rid].at = "next" /\ conv[rid].turn = 0
    BY DEF Acquire
  <1> DEFINE g == GroupOf[rid]
  <1>2. CASE PlaceAlone(rid, size) /\ UNCHANGED stagger
    BY <1>0, <1>1, <1>2, AloneEarly, EarlyStep DEF stagger
  <1>3. CASE /\ leaderRid[g] = NoOne /\ leaderRid' = [leaderRid EXCEPT ![g] = rid]
             /\ Place(rid, LeastLoaded, size, NoOne, FALSE) /\ ready' = ready
    <2>1. Early(rid)
      BY <1>0, <1>3, PlaceEarly
    <2>2. conv'[rid].source = NoOne
      BY <1>0, <1>3, DispatchEffect DEF Place
    <2> QED
      BY <1>1, <1>3, <2>1, <2>2, EarlyStep
  <1>4. CASE g \in ready /\ Follow(rid, size) /\ UNCHANGED stagger
    BY <1>0, <1>1, <1>4, FollowEarly, EarlyStep DEF stagger
  <1>5. CASE Wait(rid, "follower", size) /\ UNCHANGED stagger
    BY <1>0, <1>1, <1>5, WaitEarly, EarlyStep DEF stagger, Waiting
  <1> QED
    BY <1>2, <1>3, <1>4, <1>5 DEF Acquire

LEMMA WakesStep ==
  ASSUME IInv, NEW rid \in Rids, Wakes(rid)
  PROVE  IInv'
  <1>0. Shape /\ WaitInv
    BY DEF IInv
  <1>1. conv[rid].at \in Waiting /\ conv[rid].at # "failed" /\ UNCHANGED stagger
    BY DEF Wakes, Poll, ForceAdmission, LeaderReady, StaggerTimeout, CloseWindow, WindowSet,
           WindowTimeout, Waiting
  <1>2. conv[rid].turn = 0
    BY <1>0, <1>1 DEF WaitInv
  <1>3. Early(rid)
    <2>1. CASE LeaderReady(rid)
      BY <1>0, <1>2, <2>1, FollowEarly DEF LeaderReady
    <2>2. CASE StaggerTimeout(rid)
      BY <1>0, <1>2, <2>2, AloneEarly DEF StaggerTimeout
    <2>3. CASE \E r, size, fits : Place(rid, r, size, NoOne, fits)
      BY <1>0, <2>3, PlaceEarly
    <2>4. Poll(rid) \/ ForceAdmission(rid) \/ WindowSet(rid) \/ WindowTimeout(rid)
            => \E r, size, fits : Place(rid, r, size, NoOne, fits)
      BY DEF Poll, ForceAdmission, WindowSet, WindowTimeout
    <2>5. CloseWindow(rid) => \E r, size, fits : Place(rid, r, size, NoOne, fits)
      BY DEF CloseWindow
    <2> QED
      BY <2>1, <2>2, <2>3, <2>4, <2>5 DEF Wakes
  <1> QED
    BY <1>1, <1>2, <1>3, EarlyStep DEF stagger

LEMMA LedgerInvariant == Spec => []IInv
  <1>1. Init => IInv
    <2> SUFFICES ASSUME Init PROVE IInv
      OBVIOUS
    <2>1. Shape /\ WaitInv /\ PullInv
      BY DEF Init, Between, Shape, WaitInv, Waiting, PullInv, Pulling
    <2>2. GroupInv
      BY DEF Init, GroupInv
    <2> QED
      BY <2>1, <2>2 DEF IInv
  <1>2. IInv /\ [Next]_vars => IInv'
    <2> SUFFICES ASSUME IInv, [Next]_vars PROVE IInv'
      OBVIOUS
    <2>1. ASSUME NEW rid \in Rids, NEW size \in Sizes,
                 Acquire(rid, size) \/ Continue(rid, size) \/ TurnDone(rid, size)
                   \/ TurnFails(rid, size)
          PROVE  IInv'
      BY <2>1, AcquireStep, ContinueLate, DoneLate, FailsLate, LateStep DEF IInv
    <2>2. ASSUME NEW rid \in Rids, Wakes(rid) \/ TrajectoryDone(rid)
          PROVE  IInv'
      BY <2>2, WakesStep, TrajectoryLate, LateStep DEF IInv
    <2>3. CASE UNCHANGED vars
      BY <2>3 DEF vars, stagger, IInv, Shape, WaitInv, GroupInv, Prefilled, PullInv, Pulling,
                  MayPull
    <2> QED
      BY <2>1, <2>2, <2>3 DEF Next
  <1> QED
    BY <1>1, <1>2, PTL DEF Spec

(* A follower that is sent to pull its prefix is placed after the turn 0   *)
(* of its own group's leader, and is not that leader.                      *)
THEOREM PullersFollow == Spec => []FollowersWaitForLeader
  <1>1. IInv => FollowersWaitForLeader
    <2> SUFFICES ASSUME IInv, NEW rid \in Rids, Pulling(rid)
                 PROVE  LET l == leaderRid[GroupOf[rid]]
                        IN l # NoOne /\ l # rid /\ (conv[l].turn > 0 \/ conv[l].at = "failed")
      BY DEF FollowersWaitForLeader, Pulling
    <2> QED
      BY DEF IInv, PullInv, MayPull, GroupInv, Prefilled
  <1> QED
    BY <1>1, LedgerInvariant, PTL

-----------------------------------------------------------------------------
(* Nobody is left in a window that is closed: whoever finds it so does not *)
(* join, and who closes it takes everybody out.                            *)
THEOREM WindowEmpties == Spec => []NobodyMissesTheWindow
  <1>1. Init => NobodyMissesTheWindow
    BY DEF Init, NobodyMissesTheWindow
  <1>2. NobodyMissesTheWindow /\ [Next]_vars => NobodyMissesTheWindow'
    <2> SUFFICES ASSUME NobodyMissesTheWindow, [Next]_vars PROVE NobodyMissesTheWindow'
      OBVIOUS
    <2>1. CASE UNCHANGED lpt
      BY <2>1 DEF NobodyMissesTheWindow, lpt
    <2>2. ASSUME NEW rid \in Rids, NEW size, PlaceAlone(rid, size) PROVE NobodyMissesTheWindow'
      BY <2>1, <2>2 DEF PlaceAlone, Gate, JoinWindow, NobodyMissesTheWindow
    <2>3. ASSUME NEW rid \in Rids, NEW size, Follow(rid, size) PROVE NobodyMissesTheWindow'
      BY <2>1, <2>2, <2>3 DEF Follow
    <2>4. ASSUME NEW rid \in Rids, NEW size, Acquire(rid, size) PROVE NobodyMissesTheWindow'
      BY <2>1, <2>2, <2>3, <2>4 DEF Acquire
    <2>5. ASSUME NEW rid \in Rids, Wakes(rid) PROVE NobodyMissesTheWindow'
      <3>1. CASE CloseWindow(rid)
        BY <3>1 DEF CloseWindow, NobodyMissesTheWindow
      <3>2. CASE WindowSet(rid)
        BY <3>2 DEF WindowSet, NobodyMissesTheWindow
      <3>3. CASE LeaderReady(rid) \/ StaggerTimeout(rid)
        BY <2>2, <2>3, <3>3 DEF LeaderReady, StaggerTimeout
      <3>4. CASE Poll(rid) \/ ForceAdmission(rid) \/ WindowTimeout(rid)
        BY <2>1, <3>4 DEF Poll, ForceAdmission, WindowTimeout
      <3> QED
        BY <2>5, <3>1, <3>2, <3>3, <3>4 DEF Wakes
    <2>6. ASSUME NEW rid \in Rids, NEW size,
                 Continue(rid, size) \/ TurnDone(rid, size) \/ TurnFails(rid, size)
                   \/ TrajectoryDone(rid)
          PROVE  NobodyMissesTheWindow'
      BY <2>1, <2>6 DEF Continue, TurnDone, TurnFails, TrajectoryDone
    <2>7. CASE UNCHANGED vars
      BY <2>1, <2>7 DEF vars
    <2> QED
      BY <2>4, <2>5, <2>6, <2>7 DEF Next
  <1> QED
    BY <1>1, <1>2, PTL DEF Spec
-----------------------------------------------------------------------------
(* A finite, nonempty set of replicas has an emptiest member.              *)
LEMMA EmptiestIsMember ==
  ASSUME NEW S, IsFiniteSet(S), S # {}, S \subseteq Nat, NEW room, \A r \in S : room[r] \in Int
  PROVE  /\ Emptiest(S, room) \in S
         /\ \A q \in S : room[Emptiest(S, room)] >= room[q]
  <1> DEFINE Beats(r, q) == room[r] > room[q] \/ (room[r] = room[q] /\ r <= q)
             Good(T) == \E r \in T : \A q \in T : Beats(r, q)
             Bad == {T \in SUBSET S : T # {} /\ ~ Good(T)}
  <1>1. Bad = {}
    <2> SUFFICES ASSUME Bad # {} PROVE FALSE
      OBVIOUS
    <2>1. PICK s \in Bad : \A t \in Bad : t \subseteq s => t = s
      <3>1. Bad \subseteq SUBSET S
        OBVIOUS
      <3>2. Bad # {} /\ IsFiniteSet(S)
        OBVIOUS
      <3> HIDE DEF Bad, Good, Beats
      <3> QED
        BY ONLY <3>1, <3>2, MinimalSubset
    <2>2. s \in SUBSET S /\ s # {} /\ ~ Good(s)
      <3> HIDE DEF Good
      <3> QED
        OBVIOUS
    <2>3. PICK x \in s : TRUE
      BY <2>2
    <2>4. s \ {x} # {}
      <3> SUFFICES ASSUME s \ {x} = {} PROVE FALSE
        OBVIOUS
      <3>1. s = {x} /\ x \in Nat /\ room[x] \in Int
        BY <2>2, <2>3
      <3> QED
        BY <2>2, <3>1
    <2>5. Good(s \ {x})
      <3>1. s \ {x} \notin Bad /\ s \ {x} \in SUBSET S
        <4> HIDE DEF Bad
        <4> QED
          BY <2>1, <2>2, <2>3
      <3> HIDE DEF Good
      <3> QED
        BY <2>4, <3>1
    <2>6. PICK r \in s \ {x} : \A q \in s \ {x} : Beats(r, q)
      BY <2>5
    <2>7. \A q \in s : q \in Nat /\ room[q] \in Int
      BY <2>2
    <2>8. CASE Beats(r, x)
      <3>1. \A q \in s : Beats(r, q)
        <4> HIDE DEF Beats
        <4> QED
          BY <2>6, <2>8
      <3> QED
        BY <2>2, <3>1
    <2>9. CASE ~ Beats(r, x)
      <3>1. Beats(x, r) /\ r \in s
        BY <2>3, <2>6, <2>7, <2>9
      <3>2. \A q \in s : Beats(x, q)
        <4> TAKE q \in s
        <4>1. CASE q = x
          BY <2>7, <4>1
        <4>2. CASE q # x
          BY <2>3, <2>6, <2>7, <3>1, <4>2
        <4> QED
          BY <4>1, <4>2
      <3> QED
        BY <2>2, <2>3, <3>2
    <2> QED
      BY <2>8, <2>9
  <1>2. Good(S)
    <2> HIDE DEF Good
    <2> QED
      BY <1>1
  <1>3. /\ Emptiest(S, room) \in S
        /\ \A q \in S : Beats(Emptiest(S, room), q)
    BY <1>2 DEF Emptiest
  <1>4. \A q \in S : room[q] \in Int
    OBVIOUS
  <1> DEFINE e == Emptiest(S, room)
  <1>5. e \in S /\ \A q \in S : room[e] > room[q] \/ room[e] = room[q]
    BY <1>3
  <1> HIDE DEF e
  <1>6. \A q \in S : room[e] >= room[q]
    BY <1>4, <1>5
  <1> QED
    BY <1>5, <1>6 DEF e

-----------------------------------------------------------------------------
(* The books of a state.                                                   *)
Contexts == [rid \in Rids |-> LastSize(rid)]
CheckedOn(r) == {rid \in Residents(r) : checked[rid]}

LEMMA FiniteResidents ==
  ASSUME NEW r
  PROVE  /\ IsFiniteSet(Residents(r)) /\ CheckedOn(r) \in SUBSET Residents(r)
         /\ IsFiniteSet(CheckedOn(r))
  BY FS_Subset, LedgerAssumption DEF Residents, CheckedOn

LEMMA BookedIsSum ==
  ASSUME NEW r
  PROVE  BookedOn(r) = SumFunctionOnSet(Contexts, Residents(r))
  <1> DEFINE f == [rid \in Residents(r) |-> LastSize(rid)]
  <1>1. DOMAIN f = Residents(r) /\ \A x \in Residents(r) : f[x] = Contexts[x]
    BY DEF Contexts, Residents
  <1>2. BookedOn(r) = SumFunction(f)
    BY DEF BookedOn
  <1> HIDE DEF f
  <1> QED
    BY <1>1, <1>2, FiniteResidents, SumOfFunction

(* A resident has a history: its turns from 0 on.                          *)
Resting(rid) == resident[rid] = NoOne /\ sizes[rid] = <<>>
Settled(rid, n) == resident[rid] \in Replicas /\ sizes[rid] \in [0..n -> Sizes]

PlaceInv ==
  \A rid \in Rids :
    LET c == conv[rid]
    IN /\ c.at \in Waiting => c.turn = 0 /\ c.size \in Sizes
       /\ c.at \in Waiting \cup {"done"} => Resting(rid)
       /\ c.at = "next" /\ c.turn = 0 => Resting(rid)
       /\ c.at = "next" /\ c.turn > 0 => Settled(rid, c.turn - 1)
       /\ c.at \in {"running", "failed"} => c.turn < Turns /\ Settled(rid, c.turn)
       /\ c.at = "running" => sizes[rid][c.turn] = c.size

LEMMA LastOf ==
  ASSUME NEW n \in Nat, NEW h \in [0..n -> Sizes]
  PROVE  h[Max(DOMAIN h)] = h[n] /\ h[n] \in Nat \ {0}
  <1>1. Max(0..n) = n
    <2>1. n \in 0..n /\ \A y \in 0..n : n >= y
      OBVIOUS
    <2> QED
      BY <2>1 DEF Max
  <1>2. n \in 0..n /\ Sizes \subseteq Nat \ {0}
    BY LedgerAssumption
  <1> QED
    BY <1>1, <1>2

LEMMA LastOfHistory ==
  ASSUME NEW rid \in Rids, NEW n \in Nat, sizes[rid] \in [0..n -> Sizes]
  PROVE  /\ LastSize(rid) = sizes[rid][n]
         /\ LastSize(rid) \in Nat \ {0}
  BY LastOf DEF LastSize

(* Every resident has a context, so the books are sums of naturals.        *)
Measured == \A rid \in Rids : resident[rid] \in Replicas => LastSize(rid) \in Nat

ConvType == conv \in [Rids -> Conversation]

LEMMA PlacedAreMeasured ==
  ASSUME ConvType, PlaceInv
  PROVE  Measured
  <1> SUFFICES ASSUME NEW rid \in Rids, resident[rid] \in Replicas
               PROVE  LastSize(rid) \in Nat
    BY DEF Measured
  <1> DEFINE c == conv[rid]
  <1>1. /\ c.at \in {"next", "running", "done", "failed"} \cup Waiting
        /\ c.turn \in Nat
    BY LedgerAssumption DEF ConvType, Conversation
  <1>2. ~ Resting(rid)
    BY LedgerAssumption DEF Resting
  <1>3. \/ c.at = "next" /\ c.turn > 0 /\ Settled(rid, c.turn - 1)
        \/ c.at \in {"running", "failed"} /\ Settled(rid, c.turn)
    BY <1>1, <1>2 DEF PlaceInv
  <1>4. PICK n \in Nat : sizes[rid] \in [0..n -> Sizes]
    <2> HIDE DEF c
    <2>1. c.turn > 0 => c.turn - 1 \in Nat
      BY <1>1
    <2> QED
      BY <1>1, <1>3, <2>1 DEF Settled
  <1> QED
    BY <1>4, LastOfHistory

-----------------------------------------------------------------------------
(* How the sums follow a step of one trajectory.                           *)
CheckedSum(r) == SumFunctionOnSet(Contexts, CheckedOn(r))
Share(rid, r) == IF resident[rid] = r THEN LastSize(rid) ELSE 0
CheckedShare(rid, r) == IF resident[rid] = r /\ checked[rid] THEN LastSize(rid) ELSE 0

LEMMA Bounds ==
  ASSUME Measured, NEW r \in Replicas
  PROVE  /\ BookedOn(r) \in Nat /\ CheckedSum(r) \in Nat
         /\ CheckedSum(r) <= BookedOn(r)
         /\ \A rid \in Rids : Share(rid, r) \in Nat /\ Share(rid, r) <= BookedOn(r)
  <1>1. \A x \in Residents(r) : Contexts[x] \in Nat
    BY DEF Measured, Residents, Contexts
  <1>2. BookedOn(r) \in Nat /\ CheckedSum(r) \in Nat /\ CheckedSum(r) <= BookedOn(r)
    <2>1. \A x \in CheckedOn(r) : Contexts[x] \in Nat
      BY <1>1, FiniteResidents
    <2> QED
      BY <1>1, <2>1, FiniteResidents, BookedIsSum, SumNonNegative, SumSubset DEF CheckedSum
  <1>3. ASSUME NEW rid \in Rids
        PROVE  Share(rid, r) \in Nat /\ Share(rid, r) <= BookedOn(r)
    <2>1. CASE resident[rid] = r
      <3>1. rid \in Residents(r) /\ Share(rid, r) = Contexts[rid]
        BY <2>1 DEF Residents, Share, Contexts
      <3>2. SumFunctionOnSet(Contexts, Residents(r))
              = Contexts[rid] + SumFunctionOnSet(Contexts, Residents(r) \ {rid})
        <4>1. \A x \in Residents(r) : Contexts[x] \in Int
          BY <1>1
        <4> QED
          BY <3>1, <4>1, FiniteResidents, SumRemove
      <3>3. SumFunctionOnSet(Contexts, Residents(r) \ {rid}) \in Nat
        <4> DEFINE U == Residents(r) \ {rid}
        <4>1. IsFiniteSet(U) /\ \A x \in U : Contexts[x] \in Nat
          BY <1>1, FiniteResidents, FS_RemoveElement
        <4> HIDE DEF U
        <4>2. SumFunctionOnSet(Contexts, U) \in Nat
          BY <4>1, SumNonNegative
        <4> QED
          BY <4>2 DEF U
      <3>4. Contexts[rid] \in Nat
        BY <1>1, <3>1
      <3> QED
        BY <3>1, <3>2, <3>3, <3>4, BookedIsSum
    <2>2. CASE resident[rid] # r
      BY <1>2, <2>2 DEF Share
    <2> QED
      BY <2>1, <2>2
  <1> QED
    BY <1>2, <1>3

(* The bounds, before and after a step.                                    *)
Bounded ==
  \A r \in Replicas :
    /\ BookedOn(r) \in Nat /\ CheckedSum(r) \in Nat
    /\ CheckedSum(r) <= BookedOn(r)
    /\ \A rid \in Rids : Share(rid, r) \in Nat /\ Share(rid, r) <= BookedOn(r)

LEMMA AlwaysBounded ==
  /\ Measured => Bounded
  /\ Measured' => Bounded'
  <1>1. Measured => Bounded
    <2> SUFFICES ASSUME Measured PROVE Bounded
      OBVIOUS
    <2> QED
      BY Bounds DEF Bounded
  <1>2. (Measured => Bounded)'
    BY <1>1, PTL
  <1> QED
    BY <1>1, <1>2

OthersStay(rid) ==
  \A x \in Rids : x # rid => /\ resident'[x] = resident[x] /\ sizes'[x] = sizes[x]
                             /\ checked'[x] = checked[x]

LEMMA BooksChange ==
  ASSUME Measured, Measured', NEW rid \in Rids, OthersStay(rid), NEW r \in Replicas
  PROVE  /\ BookedOn(r)' = BookedOn(r) - Share(rid, r) + Share(rid, r)'
         /\ CheckedSum(r)' = CheckedSum(r) - CheckedShare(rid, r) + CheckedShare(rid, r)'
  <1>1. /\ \A x \in Residents(r) : Contexts[x] \in Int
        /\ \A x \in Residents(r)' : Contexts'[x] \in Int
    BY DEF Measured, Residents, Contexts
  <1>2. /\ IsFiniteSet(Residents(r)) /\ IsFiniteSet(CheckedOn(r))
        /\ CheckedOn(r) \subseteq Residents(r)
    BY FiniteResidents
  <1>3. /\ IsFiniteSet(Residents(r)') /\ IsFiniteSet(CheckedOn(r)')
        /\ CheckedOn(r)' \subseteq Residents(r)'
    BY FS_Subset, LedgerAssumption DEF Residents, CheckedOn
  <1>4. \A x \in Rids \ {rid} : Contexts'[x] = Contexts[x]
    BY DEF OthersStay, Contexts, LastSize
  <1>5. /\ Residents(r) \ {rid} = Residents(r)' \ {rid}
        /\ CheckedOn(r) \ {rid} = CheckedOn(r)' \ {rid}
    BY DEF OthersStay, Residents, CheckedOn
  <1>6. /\ Part(Contexts, Residents(r), rid) = Share(rid, r)
        /\ Part(Contexts', Residents(r)', rid) = Share(rid, r)'
        /\ Part(Contexts, CheckedOn(r), rid) = CheckedShare(rid, r)
        /\ Part(Contexts', CheckedOn(r)', rid) = CheckedShare(rid, r)'
    BY DEF Part, Share, CheckedShare, Contexts, CheckedOn, Residents
  <1>7. /\ BookedOn(r) = SumFunctionOnSet(Contexts, Residents(r))
        /\ BookedOn(r)' = SumFunctionOnSet(Contexts', Residents(r)')
    <2> DEFINE f == [x \in Residents(r)' |-> LastSize(x)']
    <2>1. DOMAIN f = Residents(r)' /\ \A x \in Residents(r)' : f[x] = Contexts'[x]
      BY DEF Contexts, Residents
    <2>2. BookedOn(r)' = SumFunction(f)
      BY DEF BookedOn
    <2> HIDE DEF f
    <2>3. BookedOn(r)' = SumFunctionOnSet(Contexts', Residents(r)')
      BY <1>3, <2>1, <2>2, SumOfFunction
    <2> QED
      BY <2>3, BookedIsSum
  <1>8. SumFunctionOnSet(Contexts', Residents(r)')
          = SumFunctionOnSet(Contexts, Residents(r)) - Part(Contexts, Residents(r), rid)
            + Part(Contexts', Residents(r)', rid)
    <2>1. \A x \in Residents(r) \ {rid} : Contexts'[x] = Contexts[x]
      BY <1>4 DEF Residents
    <2> QED
      BY <1>1, <1>2, <1>3, <1>5, <2>1, SumChange
  <1>9. SumFunctionOnSet(Contexts', CheckedOn(r)')
          = SumFunctionOnSet(Contexts, CheckedOn(r)) - Part(Contexts, CheckedOn(r), rid)
            + Part(Contexts', CheckedOn(r)', rid)
    <2>1. \A x \in CheckedOn(r) \ {rid} : Contexts'[x] = Contexts[x]
      BY <1>2, <1>4 DEF Residents
    <2>2. /\ \A x \in CheckedOn(r) : Contexts[x] \in Int
          /\ \A x \in CheckedOn(r)' : Contexts'[x] \in Int
      BY <1>1, <1>2, <1>3
    <2> QED
      BY <1>2, <1>3, <1>5, <2>1, <2>2, SumChange
  <1> QED
    BY <1>6, <1>7, <1>8, <1>9 DEF CheckedSum

-----------------------------------------------------------------------------
(* The invariant of the books.                                             *)
BooksType ==
  /\ used \in [Replicas -> Nat]
  /\ resident \in [Rids -> Replicas \cup {NoOne}]
  /\ sizes \in [Rids -> TurnSizes]
  /\ charge \in [Rids -> Charges \cup {0}]
  /\ checked \in [Rids -> BOOLEAN] /\ shrunk \in BOOLEAN /\ declined \in BOOLEAN

ChargeInv == ~declined => \A rid \in Rids : charge[rid] >= 0

BooksInv ==
  \A r \in Replicas :
    /\ used[r] >= BookedOn(r)
    /\ ~shrunk => used[r] = BookedOn(r)
    /\ ~shrunk /\ ~declined => CheckedSum(r) <= Budget

Books == ConvType /\ BooksType /\ PlaceInv /\ ChargeInv /\ BooksInv

LEMMA FreeRoom ==
  ASSUME BooksType, NEW r \in Replicas
  PROVE  /\ Free(r) \in Int
         /\ ChargeInv /\ ~declined => used[r] + Free(r) <= Budget
  <1>1. IsFiniteSet(Residents(r)) /\ \A x \in Residents(r) : charge[x] \in Int
    <2>1. \A x \in Rids : charge[x] \in Int
      <3>1. Charges \cup {0} \subseteq Int
        <4>1. Charges \subseteq Int
          BY LedgerAssumption
        <4> QED
          BY <4>1
      <3>2. charge \in [Rids -> Charges \cup {0}]
        BY DEF BooksType
      <3>3. ASSUME NEW x \in Rids PROVE charge[x] \in Charges \cup {0}
        BY <3>2
      <3> QED
        BY <3>1, <3>3
    <2> QED
      BY <2>1, FiniteResidents DEF Residents
  <1>2. Reserve(r) \in Int
    BY <1>1, SumRemove DEF Reserve
  <1>3. ASSUME ChargeInv, ~declined PROVE Reserve(r) \in Nat
    <2>1. \A x \in Residents(r) : charge[x] \in Nat
      BY <1>1, <1>3 DEF ChargeInv, Residents
    <2> QED
      BY <1>1, <2>1, SumNonNegative DEF Reserve
  <1>4. used[r] \in Nat /\ Budget \in Nat
    BY LedgerAssumption DEF BooksType
  <1> QED
    BY <1>2, <1>3, <1>4 DEF Free

LEMMA EmptiestReplica ==
  ASSUME BooksType, NEW S, S # {}, S \subseteq Replicas
  PROVE  Emptiest(S, FreeOf) \in S
  <1>1. IsFiniteSet(S) /\ S \subseteq Nat
    BY FS_Subset, LedgerAssumption
  <1>2. \A r \in S : FreeOf[r] \in Int
    BY FreeRoom DEF FreeOf
  <1> QED
    BY <1>1, <1>2, EmptiestIsMember

(* A step of one trajectory keeps the books if it books at least what its  *)
(* shares gain, exactly so while nothing is booked smaller, and, while     *)
(* estimates are not negative either, adds a checked share only where it   *)
(* fits.                                                                   *)
LEMMA BooksKept ==
  ASSUME Measured, Measured', BooksInv, NEW rid \in Rids, OthersStay(rid),
         used \in [Replicas -> Nat], used' \in [Replicas -> Nat],
         ~shrunk' => ~shrunk, ~declined' => ~declined,
         \A r \in Replicas :
           /\ used'[r] - used[r] >= Share(rid, r)' - Share(rid, r)
           /\ ~shrunk' => used'[r] - used[r] = Share(rid, r)' - Share(rid, r)
           /\ ~shrunk' /\ ~declined' =>
                \/ CheckedShare(rid, r)' <= CheckedShare(rid, r)
                \/ used'[r] <= Budget
  PROVE  BooksInv'
  <1> SUFFICES ASSUME NEW r \in Replicas
               PROVE  /\ used'[r] >= BookedOn(r)'
                      /\ ~shrunk' => used'[r] = BookedOn(r)'
                      /\ ~shrunk' /\ ~declined' => CheckedSum(r)' <= Budget
    BY DEF BooksInv
  <1> DEFINE u == used[r]  v == used'[r]
             b == BookedOn(r)  d == BookedOn(r)'  c == CheckedSum(r)  e == CheckedSum(r)'
             p == Share(rid, r)  q == Share(rid, r)'
             k == CheckedShare(rid, r)  l == CheckedShare(rid, r)'
  <1>1. u \in Nat /\ v \in Nat /\ Budget \in Nat
    BY LedgerAssumption
  <1>2. b \in Nat /\ c \in Nat /\ c <= b /\ p \in Nat /\ k \in Nat
    BY Bounds DEF Measured, CheckedShare
  <1>3. d \in Nat /\ e \in Nat /\ e <= d /\ q \in Nat /\ l \in Nat
    <2>1. Bounded'
      BY AlwaysBounded
    <2>2. l \in Nat
      BY DEF Measured, CheckedShare
    <2> QED
      BY <2>1, <2>2 DEF Bounded
  <1>4. d = b - p + q /\ e = c - k + l
    BY BooksChange
  <1>5. u >= b /\ (~shrunk => u = b) /\ (~shrunk /\ ~declined => c <= Budget)
    BY DEF BooksInv
  <1>6. /\ v - u >= q - p
        /\ ~shrunk' => v - u = q - p
        /\ ~shrunk' /\ ~declined' => l <= k \/ v <= Budget
    OBVIOUS
  <1>7. (~shrunk' => ~shrunk) /\ (~declined' => ~declined)
    OBVIOUS
  <1> HIDE DEF u, v, b, d, c, e, p, q, k, l
  <1>8. v >= d
    BY <1>1, <1>2, <1>3, <1>4, <1>5, <1>6
  <1>9. ASSUME ~shrunk' PROVE v = d
    BY <1>1, <1>2, <1>3, <1>4, <1>5, <1>6, <1>7, <1>9
  <1>10. ASSUME ~shrunk', ~declined' PROVE e <= Budget
    <2>1. v = d /\ c <= Budget /\ (l <= k \/ v <= Budget)
      BY <1>5, <1>6, <1>7, <1>9, <1>10
    <2> QED
      BY <1>1, <1>2, <1>3, <1>4, <2>1
  <1>11. /\ v >= d
         /\ ~shrunk' => v = d
         /\ ~shrunk' /\ ~declined' => e <= Budget
    BY <1>8, <1>9, <1>10
  <1> QED
    BY <1>11 DEF v, d, e

-----------------------------------------------------------------------------
(* The record of a trajectory.                                             *)
LEMMA ConvSet ==
  ASSUME ConvType, NEW rid \in Rids, NEW c \in Conversation,
         conv' = [conv EXCEPT ![rid] = c]
  PROVE  /\ ConvType' /\ conv'[rid] = c
         /\ \A x \in Rids : x # rid => conv'[x] = conv[x]
  BY DEF ConvType

LEMMA TurnRange ==
  ASSUME ConvType, NEW rid \in Rids
  PROVE  /\ conv[rid].turn \in Nat /\ conv[rid].turn <= Turns
         /\ conv[rid].at \in {"next", "running", "done", "failed"} \cup Waiting
         /\ conv[rid].size \in Sizes \cup {0}
  BY LedgerAssumption DEF ConvType, Conversation

LEMMA DispatchConv ==
  ASSUME ConvType, NEW rid \in Rids, NEW t \in 0..Turns, NEW size \in Sizes,
         NEW source \in Replicas \cup {NoOne}, NEW fits, Dispatch(rid, t, size, source, fits)
  PROVE  /\ ConvType' /\ \A x \in Rids : x # rid => conv'[x] = conv[x]
         /\ conv'[rid].at = "running" /\ conv'[rid].turn = t /\ conv'[rid].size = size
  <1> DEFINE c == [at |-> "running", turn |-> t, size |-> size, source |-> source]
  <1>1. c \in Conversation
    BY DEF Conversation
  <1>2. conv' = [conv EXCEPT ![rid] = c]
    BY DEF Dispatch
  <1>3. c.at = "running" /\ c.turn = t /\ c.size = size
    OBVIOUS
  <1> HIDE DEF c
  <1> QED
    BY <1>1, <1>2, <1>3, ConvSet

LEMMA BetweenConv ==
  ASSUME ConvType, NEW rid \in Rids, NEW at \in {"next", "failed"}, NEW t \in 0..Turns,
         conv' = [conv EXCEPT ![rid] = Between(at, t)]
  PROVE  /\ ConvType' /\ \A x \in Rids : x # rid => conv'[x] = conv[x]
         /\ conv'[rid].at = at /\ conv'[rid].turn = t
  <1> DEFINE c == Between(at, t)
  <1>1. c \in Conversation
    BY DEF Conversation, Between
  <1>2. c.at = at /\ c.turn = t
    BY DEF Between
  <1> HIDE DEF c
  <1> QED
    BY <1>1, <1>2, ConvSet DEF c

LEMMA WaitConv ==
  ASSUME ConvType, NEW rid \in Rids, NEW at \in Waiting, NEW size \in Sizes,
         Wait(rid, at, size)
  PROVE  /\ ConvType' /\ \A x \in Rids : x # rid => conv'[x] = conv[x]
         /\ conv'[rid].at = at /\ conv'[rid].turn = conv[rid].turn /\ conv'[rid].size = size
  <1> DEFINE a == conv[rid].at  t == conv[rid].turn  z == conv[rid].size
             s == conv[rid].source
             c == [at |-> at, turn |-> t, size |-> size, source |-> s]
  <1>1. conv[rid] = [at |-> a, turn |-> t, size |-> z, source |-> s]
    BY DEF ConvType, Conversation
  <1>2. t \in 0..Turns /\ s \in Replicas \cup {NoOne}
    BY DEF ConvType, Conversation
  <1>3. conv' = [conv EXCEPT ![rid] = [conv[rid] EXCEPT !.at = at, !.size = size]]
    BY DEF Wait
  <1> HIDE DEF a, t, z, s
  <1>4. [[at |-> a, turn |-> t, size |-> z, source |-> s] EXCEPT !.at = at, !.size = size] = c
    <2>1. [[at |-> a, turn |-> t, size |-> z, source |-> s] EXCEPT !.at = at] =
            [at |-> at, turn |-> t, size |-> z, source |-> s]
      OBVIOUS
    <2>2. [[at |-> at, turn |-> t, size |-> z, source |-> s] EXCEPT !.size = size] = c
      OBVIOUS
    <2> QED
      BY <2>1, <2>2
  <1>5. conv' = [conv EXCEPT ![rid] = c]
    BY <1>1, <1>3, <1>4
  <1>6. c \in Conversation
    BY <1>2 DEF Conversation
  <1>7. c.at = at /\ c.turn = t /\ c.size = size
    OBVIOUS
  <1> HIDE DEF c
  <1> QED
    BY <1>5, <1>6, <1>7, ConvSet DEF t

LEMMA DoneConv ==
  ASSUME ConvType, NEW rid \in Rids, conv' = [conv EXCEPT ![rid].at = "done"]
  PROVE  /\ ConvType' /\ \A x \in Rids : x # rid => conv'[x] = conv[x]
         /\ conv'[rid].at = "done" /\ conv'[rid].turn = conv[rid].turn
  <1> DEFINE a == conv[rid].at  t == conv[rid].turn  z == conv[rid].size
             s == conv[rid].source
             c == [at |-> "done", turn |-> t, size |-> z, source |-> s]
  <1>1. conv[rid] = [at |-> a, turn |-> t, size |-> z, source |-> s]
    BY DEF ConvType, Conversation
  <1>2. t \in 0..Turns /\ z \in Sizes \cup {0} /\ s \in Replicas \cup {NoOne}
    BY DEF ConvType, Conversation
  <1>3. conv' = [conv EXCEPT ![rid] = [conv[rid] EXCEPT !.at = "done"]]
    OBVIOUS
  <1> HIDE DEF a, t, z, s
  <1>4. [[at |-> a, turn |-> t, size |-> z, source |-> s] EXCEPT !.at = "done"] = c
    OBVIOUS
  <1>5. conv' = [conv EXCEPT ![rid] = c]
    BY <1>1, <1>3, <1>4
  <1>6. c \in Conversation
    BY <1>2 DEF Conversation
  <1>7. c.at = "done" /\ c.turn = t
    OBVIOUS
  <1> HIDE DEF c
  <1> QED
    BY <1>5, <1>6, <1>7, ConvSet DEF t

-----------------------------------------------------------------------------
(* What a booking does to a trajectory: where it is, and its history.      *)
LEMMA HistoryType ==
  ASSUME NEW n \in 0..Turns - 1, NEW h \in [0..n -> Sizes]
  PROVE  h \in TurnSizes
  <1>1. 0..n \in SUBSET (0..Turns - 1)
    BY LedgerAssumption
  <1>2. [0..n -> Sizes] \in {[T -> Sizes] : T \in SUBSET (0..Turns - 1)}
    BY <1>1
  <1> QED
    BY <1>2 DEF TurnSizes

LEMMA NoHistoryType ==
  <<>> \in TurnSizes
  <1>1. <<>> \in [{} -> Sizes]
    OBVIOUS
  <1>2. [{} -> Sizes] \in {[T -> Sizes] : T \in SUBSET (0..Turns - 1)}
    OBVIOUS
  <1> QED
    BY <1>1, <1>2 DEF TurnSizes

(* A turn is written over, or after, the turns so far.                     *)
LEMMA TurnWritten ==
  ASSUME BooksType, ChargeInv, NEW rid \in Rids, NEW t \in 0..Turns - 1, NEW size \in Sizes,
         WriteTurn(rid, t, size),
         \/ t = 0 /\ sizes[rid] = <<>>
         \/ t > 0 /\ sizes[rid] \in [0..t - 1 -> Sizes]
         \/ sizes[rid] \in [0..t -> Sizes]
  PROVE  /\ sizes' \in [Rids -> TurnSizes]
         /\ sizes'[rid] \in [0..t -> Sizes] /\ sizes'[rid][t] = size
         /\ \A x \in Rids : x # rid => sizes'[x] = sizes[x]
         /\ charge' \in [Rids -> Charges \cup {0}]
         /\ ~declined => \A x \in Rids : charge'[x] >= 0
  <1> DEFINE h == [n \in DOMAIN sizes[rid] \cup {t} |-> IF n = t THEN size ELSE sizes[rid][n]]
  <1>0. t \in Nat /\ Turns \in Nat
    BY LedgerAssumption
  <1>1. sizes' = [sizes EXCEPT ![rid] = h]
    BY DEF WriteTurn
  <1>2. h \in [0..t -> Sizes] /\ h[t] = size
    <2>1. CASE t = 0 /\ sizes[rid] = <<>>
      <3>1. DOMAIN sizes[rid] = {} /\ {} \cup {0} = 0..0
        BY <2>1
      <3> QED
        BY <2>1, <3>1
    <2>2. CASE t > 0 /\ sizes[rid] \in [0..t - 1 -> Sizes]
      <3>1. DOMAIN sizes[rid] = 0..t - 1 /\ (0..t - 1) \cup {t} = 0..t
        BY <1>0, <2>2
      <3> QED
        BY <2>2, <3>1
    <2>3. CASE sizes[rid] \in [0..t -> Sizes]
      <3>1. DOMAIN sizes[rid] = 0..t /\ (0..t) \cup {t} = 0..t
        BY <1>0, <2>3
      <3> QED
        BY <2>3, <3>1
    <2> QED
      BY <2>1, <2>2, <2>3
  <1>3. h \in TurnSizes
    BY <1>2, HistoryType
  <1> HIDE DEF h
  <1>4. sizes' \in [Rids -> TurnSizes] /\ sizes'[rid] = h
        /\ \A x \in Rids : x # rid => sizes'[x] = sizes[x]
    BY <1>1, <1>3 DEF BooksType
  <1>5. PICK c \in Estimates : charge' = [charge EXCEPT ![rid] = c]
    BY DEF WriteTurn
  <1>6. c \in Charges /\ (c >= 0 \/ declined)
    BY <1>5 DEF Estimates
  <1>7. charge' \in [Rids -> Charges \cup {0}] /\ charge'[rid] = c
        /\ \A x \in Rids : x # rid => charge'[x] = charge[x]
    BY <1>5, <1>6 DEF BooksType
  <1>8. ASSUME ~declined, NEW x \in Rids PROVE charge'[x] >= 0
    BY <1>6, <1>7, <1>8 DEF ChargeInv
  <1> QED
    BY <1>2, <1>4, <1>7, <1>8

LEMMA AlwaysMeasured ==
  /\ ConvType /\ PlaceInv => Measured
  /\ ConvType' /\ PlaceInv' => Measured'
  <1>1. ConvType /\ PlaceInv => Measured
    BY PlacedAreMeasured
  <1>2. (ConvType /\ PlaceInv => Measured)'
    BY <1>1, PTL
  <1> QED
    BY <1>1, <1>2

(* What is where once a trajectory runs, or has run a turn.                *)
LEMMA PlaceKept ==
  ASSUME PlaceInv, NEW rid \in Rids,
         \A x \in Rids : x # rid => conv'[x] = conv[x] /\ resident'[x] = resident[x]
                                    /\ sizes'[x] = sizes[x],
         NEW t \in 0..Turns - 1, resident'[rid] \in Replicas, sizes'[rid] \in [0..t -> Sizes],
         \/ conv'[rid].at = "running" /\ conv'[rid].turn = t /\ sizes'[rid][t] = conv'[rid].size
         \/ conv'[rid].at = "failed" /\ conv'[rid].turn = t
         \/ conv'[rid].at = "next" /\ conv'[rid].turn = t + 1
  PROVE  PlaceInv'
  <1>1. t \in Nat /\ Turns \in Nat /\ t < Turns /\ t + 1 > 0 /\ t + 1 # 0 /\ t + 1 - 1 = t
    BY LedgerAssumption
  <1> SUFFICES ASSUME NEW x \in Rids
               PROVE  LET c == conv'[x]
                      IN /\ c.at \in Waiting => c.turn = 0 /\ c.size \in Sizes
                         /\ c.at \in Waiting \cup {"done"} => Resting(x)'
                         /\ c.at = "next" /\ c.turn = 0 => Resting(x)'
                         /\ c.at = "next" /\ c.turn > 0 =>
                              resident'[x] \in Replicas /\ sizes'[x] \in [0..c.turn - 1 -> Sizes]
                         /\ c.at \in {"running", "failed"} =>
                              /\ c.turn < Turns
                              /\ resident'[x] \in Replicas /\ sizes'[x] \in [0..c.turn -> Sizes]
                         /\ c.at = "running" => sizes'[x][c.turn] = c.size
    BY DEF PlaceInv, Settled
  <1>2. CASE x = rid
    <2>1. CASE conv'[rid].at = "running"
      BY <1>1, <1>2, <2>1 DEF Waiting
    <2>2. CASE conv'[rid].at = "failed"
      BY <1>1, <1>2, <2>2 DEF Waiting
    <2>3. CASE conv'[rid].at = "next"
      BY <1>1, <1>2, <2>3 DEF Waiting
    <2> QED
      BY <2>1, <2>2, <2>3
  <1>3. CASE x # rid
    BY <1>3 DEF PlaceInv, Settled, Resting
  <1> QED
    BY <1>2, <1>3

LEMMA RestKept ==
  ASSUME PlaceInv, NEW rid \in Rids,
         \A x \in Rids : x # rid => conv'[x] = conv[x] /\ resident'[x] = resident[x]
                                    /\ sizes'[x] = sizes[x],
         resident'[rid] = NoOne, sizes'[rid] = <<>>,
         \/ conv'[rid].at = "done"
         \/ conv'[rid].at \in Waiting /\ conv'[rid].turn = 0 /\ conv'[rid].size \in Sizes
  PROVE  PlaceInv'
  <1> SUFFICES ASSUME NEW x \in Rids
               PROVE  LET c == conv'[x]
                      IN /\ c.at \in Waiting => c.turn = 0 /\ c.size \in Sizes
                         /\ c.at \in Waiting \cup {"done"} => Resting(x)'
                         /\ c.at = "next" /\ c.turn = 0 => Resting(x)'
                         /\ c.at = "next" /\ c.turn > 0 =>
                              resident'[x] \in Replicas /\ sizes'[x] \in [0..c.turn - 1 -> Sizes]
                         /\ c.at \in {"running", "failed"} =>
                              /\ c.turn < Turns
                              /\ resident'[x] \in Replicas /\ sizes'[x] \in [0..c.turn -> Sizes]
                         /\ c.at = "running" => sizes'[x][c.turn] = c.size
    BY DEF PlaceInv, Settled
  <1>1. CASE x = rid
    BY <1>1 DEF Waiting, Resting
  <1>2. CASE x # rid
    BY <1>2 DEF PlaceInv, Settled, Resting
  <1> QED
    BY <1>1, <1>2

-----------------------------------------------------------------------------
(* Turn 0 is booked on a replica: with fits, only where there is room.     *)
LEMMA PlaceStep ==
  ASSUME Books, NEW rid \in Rids, NEW r \in Replicas, NEW size \in Sizes,
         NEW source \in Replicas \cup {NoOne}, NEW fits \in BOOLEAN,
         Place(rid, r, size, source, fits), Resting(rid), fits => Free(r) >= size,
         shrunk' = shrunk, declined' = declined
  PROVE  /\ Books' /\ conv'[rid].at = "running"
         /\ \A x \in Rids : x # rid => conv'[x] = conv[x]
  <1>0. /\ ConvType /\ BooksType /\ PlaceInv /\ ChargeInv /\ BooksInv
        /\ 0 \in 0..Turns - 1 /\ 0 \in 0..Turns /\ size \in Nat /\ size > 0
    BY LedgerAssumption DEF Books
  <1>1. resident[rid] = NoOne /\ NoOne \notin Replicas /\ sizes[rid] = <<>>
    BY LedgerAssumption DEF Resting
  <1>2. used' = [used EXCEPT ![r] = @ + size]
    BY <1>1 DEF Place, Book, Booked
  <1>3. /\ ConvType' /\ \A x \in Rids : x # rid => conv'[x] = conv[x]
        /\ conv'[rid].at = "running" /\ conv'[rid].turn = 0 /\ conv'[rid].size = size
    BY <1>0, DispatchConv DEF Place
  <1>4. /\ sizes' \in [Rids -> TurnSizes]
        /\ sizes'[rid] \in [0..0 -> Sizes] /\ sizes'[rid][0] = size
        /\ \A x \in Rids : x # rid => sizes'[x] = sizes[x]
        /\ charge' \in [Rids -> Charges \cup {0}]
        /\ ~declined => \A x \in Rids : charge'[x] >= 0
    BY <1>0, <1>1, TurnWritten DEF Place, Book
  <1>5. /\ resident' \in [Rids -> Replicas \cup {NoOne}] /\ resident'[rid] = r
        /\ \A x \in Rids : x # rid => resident'[x] = resident[x]
    BY <1>0 DEF Place, Book, BooksType
  <1>6. /\ checked' \in [Rids -> BOOLEAN] /\ checked'[rid] = fits
        /\ \A x \in Rids : x # rid => checked'[x] = checked[x]
    BY <1>0 DEF Place, Dispatch, BooksType
  <1>7. PlaceInv'
    BY <1>0, <1>3, <1>4, <1>5, PlaceKept
  <1>8. /\ used \in [Replicas -> Nat] /\ used' \in [Replicas -> Nat]
        /\ \A q \in Replicas : used'[q] = used[q] + IF q = r THEN size ELSE 0
    BY <1>0, <1>2 DEF BooksType
  <1>9. BooksType' /\ ChargeInv'
    BY <1>0, <1>4, <1>5, <1>6, <1>8 DEF BooksType, ChargeInv
  <1>10. OthersStay(rid)
    BY <1>4, <1>5, <1>6 DEF OthersStay
  <1>11. Measured /\ Measured'
    BY <1>0, <1>3, <1>7, AlwaysMeasured
  <1>12. LastSize(rid)' = size
    BY <1>4, LastOf DEF LastSize
  <1>13. ASSUME NEW q \in Replicas
         PROVE  /\ used'[q] - used[q] >= Share(rid, q)' - Share(rid, q)
                /\ ~shrunk' => used'[q] - used[q] = Share(rid, q)' - Share(rid, q)
                /\ ~shrunk' /\ ~declined' =>
                     \/ CheckedShare(rid, q)' <= CheckedShare(rid, q)
                     \/ used'[q] <= Budget
    <2>1. Share(rid, q) = 0 /\ CheckedShare(rid, q) = 0
      BY <1>1 DEF Share, CheckedShare
    <2>2. used[q] \in Nat
      BY <1>8
    <2>3. CASE q = r
      <3>1. Share(rid, q)' = size /\ CheckedShare(rid, q)' = IF fits THEN size ELSE 0
        BY <1>5, <1>6, <1>12, <2>3 DEF Share, CheckedShare
      <3>2. used'[q] = used[q] + size
        BY <1>8, <2>3
      <3>3. ASSUME ~declined', fits PROVE used[q] + size <= Budget
        <4>1. Free(q) \in Int /\ used[q] + Free(q) <= Budget /\ Free(q) >= size
          BY <1>0, <2>3, <3>3, FreeRoom
        <4>2. Budget \in Nat
          BY LedgerAssumption
        <4> QED
          BY <1>0, <2>2, <4>1, <4>2
      <3> QED
        BY <1>0, <2>1, <2>2, <3>1, <3>2, <3>3
    <2>4. CASE q # r
      <3>1. Share(rid, q)' = 0 /\ CheckedShare(rid, q)' = 0
        BY <1>5, <2>4 DEF Share, CheckedShare
      <3>2. used'[q] = used[q]
        BY <1>8, <2>2, <2>4
      <3> QED
        BY <2>1, <2>2, <3>1, <3>2
    <2> QED
      BY <2>3, <2>4
  <1>14. BooksInv'
    BY <1>0, <1>8, <1>10, <1>11, <1>13, BooksKept
  <1> QED
    BY <1>3, <1>7, <1>9, <1>14 DEF Books

(* A trajectory waits: nothing is booked.                                  *)
LEMMA WaitStep ==
  ASSUME Books, NEW rid \in Rids, NEW at \in Waiting, NEW size \in Sizes,
         Wait(rid, at, size), Resting(rid), conv[rid].turn = 0, shrunk' = shrunk,
         declined' = declined
  PROVE  /\ Books' /\ conv'[rid].at = at
         /\ \A x \in Rids : x # rid => conv'[x] = conv[x]
  <1>0. ConvType /\ BooksType /\ PlaceInv /\ ChargeInv /\ BooksInv
    BY DEF Books
  <1>1. /\ ConvType' /\ \A x \in Rids : x # rid => conv'[x] = conv[x]
        /\ conv'[rid].at = at /\ conv'[rid].turn = 0 /\ conv'[rid].size = size
    BY <1>0, WaitConv
  <1>2. UNCHANGED <<used, resident, sizes, charge, checked, shrunk, declined>>
    BY DEF Wait, books
  <1>3. PlaceInv'
    BY <1>0, <1>1, <1>2, RestKept DEF Resting
  <1>4. BooksType' /\ ChargeInv'
    BY <1>0, <1>2 DEF BooksType, ChargeInv
  <1>5. BooksInv'
    <2>1. OthersStay(rid) /\ Measured /\ Measured'
      BY <1>0, <1>1, <1>2, <1>3, AlwaysMeasured DEF OthersStay
    <2>2. used \in [Replicas -> Nat] /\ used' = used
      BY <1>0, <1>2 DEF BooksType
    <2>3. ASSUME NEW r \in Replicas
          PROVE  /\ Share(rid, r)' = Share(rid, r) /\ Share(rid, r) \in Nat
                 /\ CheckedShare(rid, r)' = CheckedShare(rid, r) /\ CheckedShare(rid, r) \in Nat
      BY <1>2, <2>1 DEF Share, CheckedShare, LastSize, Measured
    <2>4. ASSUME NEW r \in Replicas
          PROVE  /\ used'[r] - used[r] = Share(rid, r)' - Share(rid, r)
                 /\ used'[r] - used[r] >= Share(rid, r)' - Share(rid, r)
                 /\ CheckedShare(rid, r)' <= CheckedShare(rid, r)
      BY <2>2, <2>3
    <2> QED
      BY <1>0, <1>2, <2>1, <2>2, <2>4, BooksKept
  <1> QED
    BY <1>1, <1>3, <1>4, <1>5 DEF Books

-----------------------------------------------------------------------------
(* A later turn stays, and is charged what it grew by, or moves to another *)
(* replica that has room for all of it.                                    *)
Stays(rid, size) ==
  LET home == resident[rid]
      need == Positive(size - LastSize(rid))
  IN \E fits \in BOOLEAN :
       /\ used' = [used EXCEPT ![home] = @ + need]
       /\ resident' = resident
       /\ checked' = [checked EXCEPT ![rid] = fits]
       /\ fits => Free(home) >= need

Moves(rid, size) ==
  LET home == resident[rid]
  IN \E cand \in Others(home) :
       /\ used' = [[used EXCEPT ![home] = Positive(@ - LastSize(rid))] EXCEPT ![cand] = @ + size]
       /\ resident' = [resident EXCEPT ![rid] = cand]
       /\ checked' = [checked EXCEPT ![rid] = TRUE]
       /\ Free(cand) >= size

LEMMA ContinueKinds ==
  ASSUME Books, NEW rid \in Rids, NEW size \in Sizes, Continue(rid, size)
  PROVE  /\ conv[rid].turn \in 1..Turns - 1 /\ Settled(rid, conv[rid].turn - 1)
         /\ LastSize(rid) \in Nat \ {0}
         /\ WriteTurn(rid, conv[rid].turn, size)
         /\ \E source \in Replicas \cup {NoOne} : \E fits :
              Dispatch(rid, conv[rid].turn, size, source, fits)
         /\ shrunk' = (shrunk \/ size < LastSize(rid)) /\ declined' = declined
         /\ Stays(rid, size) \/ Moves(rid, size)
         /\ UNCHANGED <<option, admitted, stagger, lpt, failures>>
  <1> DEFINE t == conv[rid].turn
             home == resident[rid]
             need == Positive(size - sizes[rid][t - 1])
             fits == Free(home) >= need
             cand == Emptiest(Others(home), FreeOf)
  <1>0. ConvType /\ BooksType /\ PlaceInv
    BY DEF Books
  <1>1. t \in 1..Turns - 1 /\ t \in Nat /\ t > 0 /\ t - 1 \in Nat /\ conv[rid].at = "next"
    BY LedgerAssumption DEF Continue
  <1>2. Settled(rid, t - 1)
    BY <1>0, <1>1 DEF PlaceInv
  <1>3. home \in Replicas /\ sizes[rid] \in [0..t - 1 -> Sizes] /\ t - 1 \in DOMAIN sizes[rid]
    <2>1. t - 1 \in 0..t - 1
      BY <1>1
    <2> HIDE DEF t
    <2> QED
      BY <1>2, <2>1 DEF Settled
  <1>4. LastSize(rid) = sizes[rid][t - 1] /\ LastSize(rid) \in Nat \ {0}
    <2> HIDE DEF t
    <2> QED
      BY <1>1, <1>3, LastOfHistory
  <1>5. /\ shrunk' = (shrunk \/ size < LastSize(rid)) /\ declined' = declined
        /\ UNCHANGED <<option, admitted, stagger, lpt, failures>>
    BY <1>4 DEF Continue
  <1>6. CASE /\ MayRebalance(rid, size) \/ (~fits /\ MayMigrate(rid, size, need))
             /\ Book(Released(used, rid, t - 1), rid, cand, t, size)
             /\ Dispatch(rid, t, size, IF option.p2p THEN home ELSE NoOne, TRUE)
    <2>1. Others(home) # {} /\ Free(cand) >= size
      BY <1>6 DEF MayRebalance, MayMigrate
    <2>2. cand \in Others(home)
      BY <1>0, <2>1, EmptiestReplica DEF Others
    <2> HIDE DEF cand, need, fits, t
    <2>3. Released(used, rid, t - 1) = [used EXCEPT ![home] = Positive(@ - LastSize(rid))]
      BY <1>3, <1>4 DEF Released
    <2>4. cand # home
      BY <2>2 DEF Others
    <2>5. used' = [Released(used, rid, t - 1) EXCEPT ![cand] = @ + size]
      BY <1>6, <2>4 DEF Book, Booked
    <2>6. Moves(rid, size)
      BY <1>6, <2>1, <2>2, <2>3, <2>5 DEF Moves, Book, Dispatch
    <2>7. WriteTurn(rid, t, size)
      BY <1>6 DEF Book
    <2>8. \E source \in Replicas \cup {NoOne} : \E f : Dispatch(rid, t, size, source, f)
      BY <1>3, <1>6
    <2> QED
      BY <1>1, <1>2, <1>4, <1>5, <2>6, <2>7, <2>8 DEF t
  <1>7. CASE /\ Book(used, rid, home, t, size)
             /\ Dispatch(rid, t, size, NoOne, fits)
    <2>1. fits \in BOOLEAN /\ (fits => Free(home) >= need) /\ need = Positive(size - LastSize(rid))
      BY <1>4
    <2> HIDE DEF cand, need, fits, t
    <2>2. used' = [used EXCEPT ![home] = @ + need]
      BY <1>3, <1>4, <1>7, <2>1 DEF Book, Booked
    <2>3. resident' = resident
      BY <1>0, <1>7 DEF Book, BooksType
    <2>4. Stays(rid, size)
      BY <1>7, <2>1, <2>2, <2>3 DEF Stays, Dispatch
    <2>5. WriteTurn(rid, t, size)
      BY <1>7 DEF Book
    <2>6. \E source \in Replicas \cup {NoOne} : \E f : Dispatch(rid, t, size, source, f)
      BY <1>7
    <2> QED
      BY <1>1, <1>2, <1>4, <1>5, <2>4, <2>5, <2>6 DEF t
  <1> QED
    BY <1>6, <1>7 DEF Continue

LEMMA ContinueStep ==
  ASSUME Books, NEW rid \in Rids, NEW size \in Sizes, Continue(rid, size)
  PROVE  /\ Books' /\ conv'[rid].at = "running"
         /\ \A x \in Rids : x # rid => conv'[x] = conv[x]
  <1> DEFINE t == conv[rid].turn
             home == resident[rid]
             p == LastSize(rid)
  <1>0. /\ ConvType /\ BooksType /\ PlaceInv /\ ChargeInv /\ BooksInv
        /\ size \in Nat /\ Budget \in Nat /\ NoOne \notin Replicas
    BY LedgerAssumption DEF Books
  <1>1. /\ t \in 1..Turns - 1 /\ Settled(rid, t - 1) /\ p \in Nat
        /\ WriteTurn(rid, t, size)
        /\ \E source \in Replicas \cup {NoOne} : \E fits : Dispatch(rid, t, size, source, fits)
        /\ shrunk' = (shrunk \/ size < p) /\ declined' = declined
        /\ Stays(rid, size) \/ Moves(rid, size)
    BY ContinueKinds
  <1>2. t \in 0..Turns - 1 /\ t \in 0..Turns /\ t > 0
    BY <1>1, LedgerAssumption
  <1>3. home \in Replicas /\ sizes[rid] \in [0..t - 1 -> Sizes]
    BY <1>1 DEF Settled
  <1> HIDE DEF t, home, p
  <1>4. /\ ConvType' /\ \A x \in Rids : x # rid => conv'[x] = conv[x]
        /\ conv'[rid].at = "running" /\ conv'[rid].turn = t /\ conv'[rid].size = size
    BY <1>0, <1>1, <1>2, DispatchConv
  <1>5. /\ sizes' \in [Rids -> TurnSizes]
        /\ sizes'[rid] \in [0..t -> Sizes] /\ sizes'[rid][t] = size
        /\ \A x \in Rids : x # rid => sizes'[x] = sizes[x]
        /\ charge' \in [Rids -> Charges \cup {0}]
        /\ ~declined => \A x \in Rids : charge'[x] >= 0
    BY <1>0, <1>1, <1>2, <1>3, TurnWritten
  <1>6. LastSize(rid)' = size
    <2>1. t \in Nat
      BY <1>2
    <2> QED
      BY <1>5, <2>1, LastOf DEF LastSize
  <1>7. /\ shrunk \in BOOLEAN /\ shrunk' \in BOOLEAN /\ (~shrunk' => ~shrunk /\ size >= p)
        /\ declined' = declined /\ declined \in BOOLEAN
    <2>1. shrunk \in BOOLEAN /\ declined' = declined /\ declined \in BOOLEAN
      BY <1>0, <1>1 DEF BooksType
    <2>2. CASE size < p
      <3>1. shrunk' = TRUE
        BY <1>1, <2>1, <2>2
      <3> QED
        BY <2>1, <3>1
    <2>3. CASE ~ (size < p)
      <3>1. shrunk' = shrunk /\ size >= p
        BY <1>0, <1>1, <2>1, <2>3
      <3> QED
        BY <2>1, <3>1
    <2> QED
      BY <2>2, <2>3
  <1>8. used \in [Replicas -> Nat] /\ checked \in [Rids -> BOOLEAN]
    BY <1>0 DEF BooksType
  <1>9. \A q \in Replicas : used[q] \in Nat /\ used[q] >= Share(rid, q) /\ Share(rid, q) \in Nat
    <2>1. Measured
      BY <1>0, AlwaysMeasured
    <2> TAKE q \in Replicas
    <2>2. used[q] >= BookedOn(q) /\ BookedOn(q) \in Nat /\ Share(rid, q) <= BookedOn(q)
          /\ used[q] \in Nat /\ Share(rid, q) \in Nat
      BY <1>0, <1>8, <2>1, Bounds DEF BooksInv
    <2> QED
      BY <2>2
  <1>10. Share(rid, home) = p /\ \A q \in Replicas : q # home => Share(rid, q) = 0
    BY <1>3 DEF Share, home, p
  <1>11. used[home] - p >= 0
    BY <1>1, <1>3, <1>9, <1>10
  <1>12. \A q \in Replicas :
           q # home => CheckedShare(rid, q) = 0
    BY DEF CheckedShare, home
  <1>13. CheckedShare(rid, home) \in {0, p}
    BY DEF CheckedShare, home, p
  <1>14. CASE Stays(rid, size)
    <2> DEFINE need == Positive(size - p)
    <2>1. PICK fits \in BOOLEAN :
            /\ used' = [used EXCEPT ![home] = @ + need]
            /\ resident' = resident
            /\ checked' = [checked EXCEPT ![rid] = fits]
            /\ fits => Free(home) >= need
      BY <1>14 DEF Stays, home, p
    <2>2. need \in Nat /\ need >= size - p /\ (~shrunk' => need = size - p)
      BY <1>0, <1>1, <1>7 DEF Positive
    <2> HIDE DEF need
    <2>3. /\ used' \in [Replicas -> Nat] /\ used'[home] = used[home] + need
          /\ \A q \in Replicas : q # home => used'[q] = used[q]
      BY <1>3, <1>8, <2>1, <2>2
    <2>4. /\ checked' \in [Rids -> BOOLEAN] /\ checked'[rid] = fits
          /\ \A x \in Rids : x # rid => checked'[x] = checked[x]
      BY <1>8, <2>1
    <2>5. PlaceInv'
      <3>1. resident'[rid] \in Replicas /\ \A x \in Rids : resident'[x] = resident[x]
        BY <1>3, <2>1 DEF home
      <3> QED
        BY <1>0, <1>2, <1>4, <1>5, <3>1, PlaceKept
    <2>6. BooksType' /\ ChargeInv'
      BY <1>0, <1>5, <1>7, <2>1, <2>3, <2>4 DEF BooksType, ChargeInv
    <2>7. OthersStay(rid) /\ Measured /\ Measured'
      BY <1>0, <1>4, <1>5, <2>1, <2>4, <2>5, AlwaysMeasured DEF OthersStay
    <2>8. /\ resident'[rid] = home
          /\ \A q \in Replicas : Share(rid, q)' = IF q = home THEN size ELSE 0
          /\ \A q \in Replicas : q # home => CheckedShare(rid, q)' = 0
          /\ \A q \in Replicas : ~fits => CheckedShare(rid, q)' = 0
      <3>1. resident'[rid] = home
        BY <2>1 DEF home
      <3>2. ASSUME NEW q \in Replicas PROVE Share(rid, q)' = IF q = home THEN size ELSE 0
        BY <1>6, <3>1 DEF Share
      <3>3. ASSUME NEW q \in Replicas, q # home PROVE CheckedShare(rid, q)' = 0
        BY <3>1, <3>3 DEF CheckedShare
      <3>4. ASSUME NEW q \in Replicas, ~fits PROVE CheckedShare(rid, q)' = 0
        BY <2>4, <3>4 DEF CheckedShare
      <3> QED
        BY <3>1, <3>2, <3>3, <3>4
    <2>9. ASSUME NEW q \in Replicas
          PROVE  /\ used'[q] - used[q] >= Share(rid, q)' - Share(rid, q)
                 /\ ~shrunk' => used'[q] - used[q] = Share(rid, q)' - Share(rid, q)
                 /\ ~shrunk' /\ ~declined' =>
                      \/ CheckedShare(rid, q)' <= CheckedShare(rid, q)
                      \/ used'[q] <= Budget
      <3>1. CASE q # home
        BY <1>9, <1>10, <1>12, <2>3, <2>8, <3>1
      <3>2. CASE q = home
        <4>1. used'[q] = used[q] + need /\ Share(rid, q)' = size /\ Share(rid, q) = p
              /\ used[q] \in Nat
          BY <1>9, <1>10, <2>3, <2>8, <3>2
        <4>2. ASSUME ~fits PROVE CheckedShare(rid, q)' <= CheckedShare(rid, q)
          BY <1>1, <1>13, <2>8, <3>2, <4>2
        <4>3. ASSUME ~declined', fits PROVE used'[q] <= Budget
          <5>1. Free(q) \in Int /\ used[q] + Free(q) <= Budget /\ Free(q) >= need
            BY <1>0, <1>7, <2>1, <3>2, <4>3, FreeRoom
          <5> QED
            BY <1>0, <2>2, <4>1, <5>1
        <4> QED
          BY <1>0, <1>1, <2>2, <4>1, <4>2, <4>3
      <3> QED
        BY <3>1, <3>2
    <2>10. BooksInv'
      BY <1>0, <1>7, <1>8, <2>3, <2>7, <2>9, BooksKept
    <2> QED
      BY <1>4, <2>5, <2>6, <2>10 DEF Books
  <1>15. CASE Moves(rid, size)
    <2>1. PICK cand \in Others(home) :
            /\ used' = [[used EXCEPT ![home] = Positive(@ - p)] EXCEPT ![cand] = @ + size]
            /\ resident' = [resident EXCEPT ![rid] = cand]
            /\ checked' = [checked EXCEPT ![rid] = TRUE]
            /\ Free(cand) >= size
      BY <1>15 DEF Moves, home, p
    <2>2. cand \in Replicas /\ cand # home
      BY DEF Others
    <2> DEFINE rest == Positive(used[home] - p)
    <2>3. rest \in Nat /\ rest = used[home] - p
      BY <1>1, <1>3, <1>9, <1>11 DEF Positive
    <2>4. used' = [[used EXCEPT ![home] = rest] EXCEPT ![cand] = @ + size]
      BY <1>3, <1>8, <2>1
    <2> HIDE DEF rest
    <2>5. /\ used' \in [Replicas -> Nat] /\ used'[home] = rest /\ used'[cand] = used[cand] + size
          /\ \A q \in Replicas : q # home /\ q # cand => used'[q] = used[q]
      BY <1>0, <1>3, <1>8, <2>2, <2>3, <2>4
    <2>6. /\ checked' \in [Rids -> BOOLEAN] /\ checked'[rid] = TRUE
          /\ \A x \in Rids : x # rid => checked'[x] = checked[x]
      BY <1>8, <2>1
    <2>7. /\ resident' \in [Rids -> Replicas \cup {NoOne}] /\ resident'[rid] = cand
          /\ \A x \in Rids : x # rid => resident'[x] = resident[x]
      BY <1>0, <2>1, <2>2 DEF BooksType
    <2>8. PlaceInv'
      BY <1>0, <1>2, <1>4, <1>5, <2>2, <2>7, PlaceKept
    <2>9. BooksType' /\ ChargeInv'
      BY <1>0, <1>5, <1>7, <2>5, <2>6, <2>7 DEF BooksType, ChargeInv
    <2>10. OthersStay(rid) /\ Measured /\ Measured'
      BY <1>0, <1>4, <1>5, <2>6, <2>7, <2>8, AlwaysMeasured DEF OthersStay
    <2>11. /\ Share(rid, cand)' = size /\ \A q \in Replicas : q # cand => Share(rid, q)' = 0
           /\ \A q \in Replicas : q # cand => CheckedShare(rid, q)' = 0
      BY <1>6, <2>7 DEF Share, CheckedShare
    <2>12. ASSUME NEW q \in Replicas
           PROVE  /\ used'[q] - used[q] >= Share(rid, q)' - Share(rid, q)
                  /\ ~shrunk' => used'[q] - used[q] = Share(rid, q)' - Share(rid, q)
                  /\ ~shrunk' /\ ~declined' =>
                       \/ CheckedShare(rid, q)' <= CheckedShare(rid, q)
                       \/ used'[q] <= Budget
      <3>1. CASE q = home
        BY <1>1, <1>9, <1>10, <1>13, <2>2, <2>3, <2>5, <2>11, <3>1
      <3>2. CASE q = cand
        <4>1. used'[q] = used[q] + size /\ Share(rid, q)' = size /\ Share(rid, q) = 0
              /\ used[q] \in Nat
          BY <1>9, <1>10, <2>2, <2>5, <2>11, <3>2
        <4>2. ASSUME ~declined' PROVE used'[q] <= Budget
          <5>1. Free(q) \in Int /\ used[q] + Free(q) <= Budget /\ Free(q) >= size
            BY <1>0, <1>7, <2>1, <3>2, <4>2, FreeRoom
          <5> QED
            BY <1>0, <4>1, <5>1
        <4> QED
          BY <1>0, <4>1, <4>2
      <3>3. CASE q # home /\ q # cand
        BY <1>9, <1>10, <1>12, <2>5, <2>11, <3>3
      <3> QED
        BY <3>1, <3>2, <3>3
    <2>13. BooksInv'
      BY <1>0, <1>7, <1>8, <2>5, <2>10, <2>12, BooksKept
    <2> QED
      BY <1>4, <2>8, <2>9, <2>13 DEF Books
  <1> QED
    BY <1>1, <1>14, <1>15

-----------------------------------------------------------------------------
(* The measured context takes the place of the booked one.                 *)
LEMMA RecordStep ==
  ASSUME Books, NEW rid \in Rids, NEW size \in Sizes, conv[rid].at = "running",
         RecordTurn(rid, size), shrunk' = shrunk, declined' = declined,
         \/ conv' = [conv EXCEPT ![rid] = Between("next", @.turn + 1)]
         \/ conv' = [conv EXCEPT ![rid] = Between("failed", @.turn)]
  PROVE  /\ Books'
         /\ (conv'[rid].at = "next" /\ conv'[rid].turn > 0) \/ conv'[rid].at = "failed"
         /\ \A x \in Rids : x # rid => conv'[x] = conv[x]
  <1>0. /\ ConvType /\ BooksType /\ PlaceInv /\ ChargeInv /\ BooksInv
        /\ size \in Nat /\ Budget \in Nat /\ NoOne \notin Replicas
    BY LedgerAssumption DEF Books
  <1>1. PICK t : t = conv[rid].turn
    OBVIOUS
  <1>2. PICK home : home = resident[rid]
    OBVIOUS
  <1>3. PICK b : b = sizes[rid][t]
    OBVIOUS
  <1>4. /\ t < Turns /\ t \in Nat /\ home \in Replicas /\ sizes[rid] \in [0..t -> Sizes]
        /\ conv[rid].size = b
    BY <1>0, <1>1, <1>2, <1>3, TurnRange DEF PlaceInv, Settled
  <1>5. t \in 0..Turns - 1 /\ t \in 0..Turns /\ t + 1 \in 0..Turns /\ t + 1 > 0
    BY <1>4, LedgerAssumption
  <1>6. LastSize(rid) = b /\ b \in Nat
    BY <1>3, <1>4, LastOfHistory
  <1>7. /\ ConvType' /\ \A x \in Rids : x # rid => conv'[x] = conv[x]
        /\ \/ conv'[rid].at = "next" /\ conv'[rid].turn = t + 1
           \/ conv'[rid].at = "failed" /\ conv'[rid].turn = t
    <2>1. \/ conv' = [conv EXCEPT ![rid] = Between("next", t + 1)]
          \/ conv' = [conv EXCEPT ![rid] = Between("failed", t)]
      BY <1>0, <1>1 DEF ConvType
    <2> QED
      BY <1>0, <1>5, <2>1, BetweenConv
  <1>8. /\ sizes' \in [Rids -> TurnSizes]
        /\ sizes'[rid] \in [0..t -> Sizes] /\ sizes'[rid][t] = size
        /\ \A x \in Rids : x # rid => sizes'[x] = sizes[x]
        /\ charge' \in [Rids -> Charges \cup {0}]
        /\ ~declined => \A x \in Rids : charge'[x] >= 0
    <2>1. WriteTurn(rid, t, size)
      BY <1>1 DEF RecordTurn
    <2> QED
      BY <1>0, <1>4, <1>5, <2>1, TurnWritten
  <1>9. LastSize(rid)' = size
    BY <1>4, <1>8, LastOf DEF LastSize
  <1>10. resident' = resident
    BY DEF RecordTurn
  <1>11. /\ used \in [Replicas -> Nat] /\ checked \in [Rids -> BOOLEAN]
         /\ shrunk \in BOOLEAN /\ declined \in BOOLEAN
    BY <1>0 DEF BooksType
  <1>12. PICK fits \in BOOLEAN : /\ fits = (checked[rid] /\ size <= b)
                                 /\ checked' = [checked EXCEPT ![rid] = fits]
    <2>1. checked' = [checked EXCEPT ![rid] = @ /\ size <= conv[rid].size]
      BY DEF RecordTurn
    <2>2. checked' = [checked EXCEPT ![rid] = checked[rid] /\ size <= b]
      BY <1>4, <1>11, <2>1
    <2>3. (checked[rid] /\ size <= b) \in BOOLEAN
      OBVIOUS
    <2> QED
      BY <2>2, <2>3
  <1>13. /\ checked' \in [Rids -> BOOLEAN] /\ checked'[rid] = fits
         /\ \A x \in Rids : x # rid => checked'[x] = checked[x]
    BY <1>11, <1>12
  <1>14. \A q \in Replicas : used[q] \in Nat /\ used[q] >= Share(rid, q) /\ Share(rid, q) \in Nat
    <2>1. Measured
      BY <1>0, AlwaysMeasured
    <2> TAKE q \in Replicas
    <2>2. used[q] >= BookedOn(q) /\ BookedOn(q) \in Nat /\ Share(rid, q) <= BookedOn(q)
          /\ used[q] \in Nat /\ Share(rid, q) \in Nat
      BY <1>0, <1>11, <2>1, Bounds DEF BooksInv
    <2> QED
      BY <2>2
  <1>15. \A q \in Replicas : Share(rid, q) = IF q = home THEN b ELSE 0
    BY <1>2, <1>6 DEF Share
  <1>16. PICK v : v = used[home] + size - b
    OBVIOUS
  <1>17. v \in Nat /\ used' = [used EXCEPT ![home] = v]
    <2>1. used[home] \in Nat /\ used[home] >= b
      BY <1>4, <1>14, <1>15
    <2>2. used' = [used EXCEPT ![home] = @ + size - b]
      BY <1>1, <1>2, <1>3 DEF RecordTurn
    <2>3. v \in Nat
      BY <1>0, <1>6, <1>16, <2>1
    <2>4. used' = [used EXCEPT ![home] = used[home] + size - b]
      BY <1>4, <1>11, <2>2
    <2> QED
      BY <1>16, <2>3, <2>4
  <1>18. /\ used' \in [Replicas -> Nat] /\ used'[home] = v
         /\ \A q \in Replicas : q # home => used'[q] = used[q]
    BY <1>4, <1>11, <1>17
  <1>19. PlaceInv'
    <2>1. resident'[rid] \in Replicas /\ \A x \in Rids : resident'[x] = resident[x]
      BY <1>2, <1>4, <1>10
    <2> QED
      BY <1>0, <1>5, <1>7, <1>8, <2>1, PlaceKept
  <1>20. BooksType' /\ ChargeInv'
    BY <1>0, <1>8, <1>10, <1>11, <1>13, <1>18 DEF BooksType, ChargeInv
  <1>21. OthersStay(rid) /\ Measured /\ Measured'
    BY <1>0, <1>7, <1>8, <1>10, <1>13, <1>19, AlwaysMeasured DEF OthersStay
  <1>22. \A q \in Replicas : Share(rid, q)' = IF q = home THEN size ELSE 0
    BY <1>2, <1>9, <1>10 DEF Share
  <1>23. ASSUME NEW q \in Replicas PROVE CheckedShare(rid, q)' <= CheckedShare(rid, q)
    <2>1. CheckedShare(rid, q) = IF q = home /\ checked[rid] THEN b ELSE 0
      BY <1>2, <1>6 DEF CheckedShare
    <2>2. CheckedShare(rid, q)' = IF q = home /\ fits THEN size ELSE 0
      BY <1>2, <1>9, <1>10, <1>13 DEF CheckedShare
    <2>3. CASE q = home /\ fits
      <3>1. checked[rid] /\ size <= b
        BY <1>12, <2>3
      <3> QED
        BY <2>1, <2>2, <2>3, <3>1
    <2>4. CASE ~ (q = home /\ fits)
      BY <1>6, <2>1, <2>2, <2>4
    <2> QED
      BY <2>3, <2>4
  <1>24. ASSUME NEW q \in Replicas
         PROVE  /\ used'[q] - used[q] = Share(rid, q)' - Share(rid, q)
                /\ used'[q] - used[q] >= Share(rid, q)' - Share(rid, q)
    <2>1. CASE q = home
      BY <1>0, <1>4, <1>6, <1>14, <1>15, <1>16, <1>18, <1>22, <2>1
    <2>2. CASE q # home
      BY <1>14, <1>15, <1>18, <1>22, <2>2
    <2> QED
      BY <2>1, <2>2
  <1>25. BooksInv'
    BY <1>0, <1>11, <1>18, <1>21, <1>23, <1>24, BooksKept
  <1>26. t + 1 > 0
    BY <1>4
  <1> QED
    BY <1>7, <1>19, <1>20, <1>25, <1>26 DEF Books

(* A trajectory that has ended leaves the books.                           *)
LEMMA EndStep ==
  ASSUME Books, NEW rid \in Rids, TrajectoryDone(rid)
  PROVE  /\ Books' /\ conv'[rid].at = "done"
         /\ \A x \in Rids : x # rid => conv'[x] = conv[x]
  <1>0. /\ ConvType /\ BooksType /\ PlaceInv /\ ChargeInv /\ BooksInv
        /\ NoOne \notin Replicas
    BY LedgerAssumption DEF Books
  <1>1. PICK home : home = resident[rid]
    OBVIOUS
  <1>2. PICK p : p = LastSize(rid)
    OBVIOUS
  <1>3. home \in Replicas /\ p \in Nat
    <2>1. conv[rid].at = "next" /\ conv[rid].turn > 0 /\ conv[rid].turn \in Nat
      BY <1>0, TurnRange DEF TrajectoryDone
    <2>2. resident[rid] \in Replicas /\ sizes[rid] \in [0..conv[rid].turn - 1 -> Sizes]
      BY <1>0, <2>1 DEF PlaceInv, Settled
    <2>3. conv[rid].turn - 1 \in Nat
      BY <2>1
    <2> QED
      BY <1>1, <1>2, <2>2, <2>3, LastOfHistory
  <1>4. /\ ConvType' /\ \A x \in Rids : x # rid => conv'[x] = conv[x]
        /\ conv'[rid].at = "done"
    BY <1>0, DoneConv DEF TrajectoryDone
  <1>5. /\ sizes' \in [Rids -> TurnSizes] /\ sizes'[rid] = <<>>
        /\ \A x \in Rids : x # rid => sizes'[x] = sizes[x]
    <2>1. sizes' = [sizes EXCEPT ![rid] = <<>>]
      BY DEF TrajectoryDone
    <2> QED
      BY <1>0, <2>1, NoHistoryType DEF BooksType
  <1>6. /\ resident' \in [Rids -> Replicas \cup {NoOne}] /\ resident'[rid] = NoOne
        /\ \A x \in Rids : x # rid => resident'[x] = resident[x]
    BY <1>0 DEF TrajectoryDone, BooksType
  <1>7. /\ charge' \in [Rids -> Charges \cup {0}] /\ charge'[rid] = 0
        /\ \A x \in Rids : x # rid => charge'[x] = charge[x]
    BY <1>0 DEF TrajectoryDone, BooksType
  <1>8. /\ checked' \in [Rids -> BOOLEAN] /\ shrunk' = shrunk /\ shrunk \in BOOLEAN
        /\ declined \in BOOLEAN /\ declined' \in BOOLEAN /\ (~declined' => ~declined)
        /\ \A x \in Rids : x # rid => checked'[x] = checked[x]
    BY <1>0 DEF TrajectoryDone, BooksType
  <1>9. used \in [Replicas -> Nat]
    BY <1>0 DEF BooksType
  <1>10. \A q \in Replicas : /\ used[q] \in Nat /\ used[q] >= Share(rid, q)
                             /\ Share(rid, q) \in Nat /\ CheckedShare(rid, q) \in Nat
    <2>1. Measured
      BY <1>0, AlwaysMeasured
    <2> TAKE q \in Replicas
    <2>2. used[q] >= BookedOn(q) /\ BookedOn(q) \in Nat /\ Share(rid, q) <= BookedOn(q)
          /\ used[q] \in Nat /\ Share(rid, q) \in Nat
      BY <1>0, <1>9, <2>1, Bounds DEF BooksInv
    <2>3. CheckedShare(rid, q) \in Nat
      BY <1>2, <1>3 DEF CheckedShare
    <2> QED
      BY <2>2, <2>3
  <1>11. \A q \in Replicas : Share(rid, q) = IF q = home THEN p ELSE 0
    BY <1>1, <1>2 DEF Share
  <1>12. PICK v : v = Positive(used[home] - p)
    OBVIOUS
  <1>13. v \in Nat /\ v = used[home] - p
    <2>1. used[home] \in Nat /\ used[home] >= p
      BY <1>3, <1>10, <1>11
    <2> QED
      BY <1>3, <1>12, <2>1 DEF Positive
  <1>14. used' = [used EXCEPT ![home] = v]
    BY <1>1, <1>2, <1>3, <1>9, <1>12 DEF TrajectoryDone, ReleaseAll
  <1>15. /\ used' \in [Replicas -> Nat] /\ used'[home] = v
         /\ \A q \in Replicas : q # home => used'[q] = used[q]
    BY <1>3, <1>9, <1>13, <1>14
  <1>16. PlaceInv'
    BY <1>0, <1>4, <1>5, <1>6, RestKept
  <1>17. BooksType' /\ ChargeInv'
    <2>1. ChargeInv'
      <3> SUFFICES ASSUME ~declined, NEW x \in Rids PROVE charge'[x] >= 0
        BY <1>8 DEF ChargeInv
      <3> QED
        BY <1>0, <1>7 DEF ChargeInv
    <2> QED
      BY <1>5, <1>6, <1>7, <1>8, <1>15, <2>1 DEF BooksType
  <1>18. OthersStay(rid) /\ Measured /\ Measured'
    BY <1>0, <1>4, <1>5, <1>6, <1>8, <1>16, AlwaysMeasured DEF OthersStay
  <1>19. \A q \in Replicas : Share(rid, q)' = 0 /\ CheckedShare(rid, q)' = 0
    BY <1>0, <1>6 DEF Share, CheckedShare
  <1>20. ASSUME NEW q \in Replicas
         PROVE  /\ used'[q] - used[q] = Share(rid, q)' - Share(rid, q)
                /\ used'[q] - used[q] >= Share(rid, q)' - Share(rid, q)
                /\ CheckedShare(rid, q)' <= CheckedShare(rid, q)
    <2>1. CASE q = home
      BY <1>3, <1>10, <1>11, <1>13, <1>15, <1>19, <2>1
    <2>2. CASE q # home
      BY <1>10, <1>11, <1>15, <1>19, <2>2
    <2> QED
      BY <2>1, <2>2
  <1>21. BooksInv'
    BY <1>0, <1>8, <1>9, <1>15, <1>18, <1>20, BooksKept
  <1> QED
    BY <1>4, <1>16, <1>17, <1>21 DEF Books

-----------------------------------------------------------------------------
(* Around the books: who has passed the gate, and the placement window.    *)
Past == {rid \in Rids : ~ (\/ conv[rid].at = "follower"
                           \/ conv[rid].at = "next" /\ conv[rid].turn = 0)}

CountInv == admitted \in Nat /\ admitted <= Cardinality(Past)

Opening(rid) == conv[rid].at = "opener"

WindowInv ==
  /\ pending \subseteq Entry /\ IsFiniteSet(pending)
  /\ planned \in [Rids -> Replicas \cup {NoOne}]
  /\ window \in {"unopened", "open", "closed"}
  /\ \A rid \in Rids : Opening(rid) => window = "open" /\ \E e \in pending : e.rid = rid
  /\ \A x, y \in Rids : Opening(x) /\ Opening(y) => x = y

StaggerType ==
  /\ leader \in [Groups -> Replicas \cup {NoOne}]
  /\ leaderRid \in [Groups -> Rids \cup {NoOne}]
  /\ ready \subseteq Groups

OptionType == option \in Options /\ failures \in 0..MaxFailures

LInv == Books /\ CountInv /\ WindowInv /\ StaggerType /\ OptionType

OthersWait(rid) == \A x \in Rids : x # rid => conv'[x] = conv[x]

LEMMA CountKept ==
  ASSUME CountInv, NEW rid \in Rids, OthersWait(rid), rid \in Past => rid \in Past',
         \/ admitted' = admitted
         \/ admitted' = admitted + 1 /\ rid \notin Past /\ rid \in Past'
  PROVE  CountInv'
  <1>1. IsFiniteSet(Past) /\ IsFiniteSet(Past')
    BY FS_Subset, LedgerAssumption DEF Past
  <1>2. \A x \in Past : x \in Past'
    BY DEF Past, OthersWait
  <1>3. Cardinality(Past) \in Nat /\ Cardinality(Past') \in Nat
    BY <1>1, FS_CardinalityType
  <1>4. CASE admitted' = admitted
    <2>1. Cardinality(Past) <= Cardinality(Past')
      BY <1>1, <1>2, FS_Subset
    <2> QED
      BY <1>3, <1>4, <2>1 DEF CountInv
  <1>5. CASE admitted' = admitted + 1 /\ rid \notin Past /\ rid \in Past'
    <2>1. /\ IsFiniteSet(Past \cup {rid})
          /\ Cardinality(Past \cup {rid}) = Cardinality(Past) + 1
      BY <1>1, <1>5, FS_AddElement
    <2>2. Past \cup {rid} \in SUBSET Past'
      BY <1>2, <1>5
    <2>3. Cardinality(Past \cup {rid}) <= Cardinality(Past')
      BY <1>1, <2>2, FS_Subset
    <2> QED
      BY <1>3, <1>5, <2>1, <2>3 DEF CountInv
  <1> QED
    BY <1>4, <1>5

LEMMA WindowKept ==
  ASSUME WindowInv, NEW rid \in Rids, OthersWait(rid), ~ Opening(rid)',
         UNCHANGED <<pending, window>>, planned' \in [Rids -> Replicas \cup {NoOne}]
  PROVE  WindowInv'
  BY DEF WindowInv, OthersWait, Opening

LEMMA WindowJoined ==
  ASSUME WindowInv, NEW rid \in Rids, OthersWait(rid), NEW w \in Works, window # "closed",
         pending' = pending \cup {[work |-> w, rid |-> rid]}, window' = "open",
         planned' = planned, Opening(rid)' => window = "unopened"
  PROVE  WindowInv'
  <1> DEFINE e == [work |-> w, rid |-> rid]
  <1>1. e \in Entry /\ e.rid = rid
    BY DEF Entry
  <1> HIDE DEF e
  <1>2. pending' = pending \cup {e}
    BY DEF e
  <1>3. pending' \subseteq Entry /\ IsFiniteSet(pending')
    BY <1>1, <1>2, FS_AddElement DEF WindowInv
  <1>4. ASSUME NEW x \in Rids, Opening(x)' PROVE \E d \in pending' : d.rid = x
    <2>1. CASE x = rid
      BY <1>1, <1>2, <2>1
    <2>2. CASE x # rid
      <3>1. \E d \in pending : d.rid = x
        BY <1>4, <2>2 DEF WindowInv, OthersWait, Opening
      <3> QED
        BY <1>2, <3>1
    <2> QED
      BY <2>1, <2>2
  <1>5. ASSUME NEW x \in Rids, NEW y \in Rids, Opening(x)', Opening(y)' PROVE x = y
    <2>1. \A z \in Rids : z # rid /\ Opening(z)' => Opening(z) /\ window = "open"
      BY DEF WindowInv, OthersWait, Opening
    <2> QED
      BY <1>5, <2>1 DEF WindowInv
  <1> QED
    BY <1>3, <1>4, <1>5 DEF WindowInv

-----------------------------------------------------------------------------
(* Turn 0, placed alone or as a follower.                                  *)
LEMMA LeastLoadedReplica ==
  ASSUME Books
  PROVE  LeastLoaded \in Replicas
  BY EmptiestReplica, LedgerAssumption DEF Books, LeastLoaded

Starts(rid, size) ==
  /\ Resting(rid) /\ conv[rid].turn = 0 /\ size \in Sizes /\ rid \notin Past
  /\ UNCHANGED <<option, failures, shrunk, declined>>

Started(rid) == Books' /\ CountInv' /\ WindowInv'

LEMMA PlacedStarted ==
  ASSUME LInv, NEW rid \in Rids, NEW size, Starts(rid, size), NEW r \in Replicas,
         NEW source \in Replicas \cup {NoOne}, NEW fits \in BOOLEAN,
         Place(rid, r, size, source, fits), fits => Free(r) >= size,
         admitted' = admitted \/ admitted' = admitted + 1,
         UNCHANGED <<pending, window>>, planned' \in [Rids -> Replicas \cup {NoOne}]
  PROVE  Started(rid)
  <1>1. Books' /\ conv'[rid].at = "running" /\ OthersWait(rid)
    BY PlaceStep DEF LInv, Starts, OthersWait
  <1>2. rid \in Past' /\ ~ Opening(rid)'
    BY <1>1 DEF Past, Opening
  <1>3. CountInv'
    BY <1>1, <1>2, CountKept DEF LInv, Starts
  <1>4. WindowInv'
    BY <1>1, <1>2, WindowKept DEF LInv
  <1> QED
    BY <1>1, <1>3, <1>4 DEF Started

LEMMA AloneStarted ==
  ASSUME LInv, NEW rid \in Rids, NEW size, Starts(rid, size), PlaceAlone(rid, size)
  PROVE  Started(rid)
  <1>0. LeastLoaded \in Replicas /\ NoOne \in Replicas \cup {NoOne} /\ size \in Sizes
    BY LeastLoadedReplica DEF LInv, Starts
  <1>1. planned \in [Rids -> Replicas \cup {NoOne}]
    BY DEF LInv, WindowInv
  <1>2. CASE option.lpt /\ window = "closed"
    <2>1. /\ Place(rid, LeastLoaded, size, NoOne, FALSE)
          /\ UNCHANGED <<pending, window, planned, admitted>>
      BY <1>2 DEF PlaceAlone, JoinWindow
    <2> QED
      BY <1>0, <1>1, <2>1, PlacedStarted
  <1>3. CASE option.lpt /\ window # "closed"
    <2>1. PICK w \in Works : pending' = pending \cup {[work |-> w, rid |-> rid]}
      BY <1>3 DEF PlaceAlone, JoinWindow
    <2>2. PICK at \in {"opener", "window"} :
            Wait(rid, at, size) /\ (at = "opener" => window = "unopened")
      BY <1>3 DEF PlaceAlone, JoinWindow
    <2>3. window' = "open" /\ planned' = planned /\ admitted' = admitted
      BY <1>3 DEF PlaceAlone, JoinWindow
    <2>4. Books' /\ conv'[rid].at = at /\ OthersWait(rid)
      BY <1>0, <2>2, WaitStep DEF LInv, Starts, OthersWait, Waiting
    <2>5. rid \in Past' /\ (Opening(rid)' => window = "unopened")
      BY <2>2, <2>4 DEF Past, Opening
    <2>6. CountInv'
      BY <2>3, <2>4, <2>5, CountKept DEF LInv
    <2>7. WindowInv'
      BY <1>3, <2>1, <2>3, <2>4, <2>5, WindowJoined DEF LInv
    <2> QED
      BY <2>4, <2>6, <2>7 DEF Started
  <1>4. CASE ~ option.lpt
    <2>1. /\ admitted' = admitted + 1 /\ UNCHANGED <<pending, window, planned>>
          /\ admitted \in Nat /\ Wave1 \in Nat
      BY <1>4, LedgerAssumption DEF PlaceAlone, Gate, lpt, LInv, CountInv
    <2>2. CASE /\ admitted' <= Wave1 \/ Fits(size)
               /\ Place(rid, LeastLoaded, size, NoOne, admitted' > Wave1)
      <3>1. admitted' \in Nat
        BY <2>1
      <3>2. CASE admitted' > Wave1
        <4>1. Free(LeastLoaded) >= size
          BY <2>1, <2>2, <3>1, <3>2 DEF Fits
        <4>2. (admitted' > Wave1) = TRUE
          BY <3>2
        <4>3. Place(rid, LeastLoaded, size, NoOne, TRUE)
          BY <2>2, <4>2 DEF Place, Dispatch
        <4> QED
          BY <1>0, <1>1, <2>1, <4>1, <4>3, PlacedStarted
      <3>3. CASE ~ (admitted' > Wave1)
        <4>1. (admitted' > Wave1) = FALSE
          BY <3>3
        <4>2. Place(rid, LeastLoaded, size, NoOne, FALSE)
          BY <2>2, <4>1 DEF Place, Dispatch
        <4> QED
          BY <1>0, <1>1, <2>1, <4>2, PlacedStarted
      <3> QED
        BY <3>2, <3>3
    <2>3. CASE Wait(rid, "polling", size)
      <3>1. Books' /\ conv'[rid].at = "polling" /\ OthersWait(rid)
        BY <1>0, <2>3, WaitStep DEF LInv, Starts, OthersWait, Waiting
      <3>2. rid \in Past' /\ ~ Opening(rid)'
        BY <3>1 DEF Past, Opening
      <3>3. CountInv'
        BY <2>1, <3>1, <3>2, CountKept DEF LInv, Starts
      <3>4. WindowInv'
        BY <1>1, <2>1, <3>1, <3>2, WindowKept DEF LInv
      <3> QED
        BY <3>1, <3>3, <3>4 DEF Started
    <2> QED
      BY <1>4, <2>2, <2>3 DEF PlaceAlone, Gate
  <1> QED
    BY <1>2, <1>3, <1>4

LEMMA FollowStarted ==
  ASSUME LInv, NEW rid \in Rids, NEW size, Starts(rid, size), Follow(rid, size)
  PROVE  Started(rid)
  <1>1. CASE Others(leader[GroupOf[rid]]) = {}
    <2>1. PlaceAlone(rid, size)
      BY <1>1 DEF Follow
    <2> QED
      BY <2>1, AloneStarted
  <1>2. CASE Others(leader[GroupOf[rid]]) # {}
    <2>1. PICK lead : lead = leader[GroupOf[rid]]
      OBVIOUS
    <2>2. lead \in Replicas \cup {NoOne}
      BY <2>1, LedgerAssumption DEF LInv, StaggerType
    <2>3. PICK r : r = Emptiest(Others(lead), FreeOf)
      OBVIOUS
    <2>4. r \in Replicas
      <3>1. Others(lead) # {} /\ Others(lead) \subseteq Replicas /\ BooksType
        BY <1>2, <2>1 DEF Others, LInv, Books
      <3> QED
        BY <2>3, <3>1, EmptiestReplica
    <2>5. PICK source \in Replicas \cup {NoOne} : Place(rid, r, size, source, FALSE)
      BY <1>2, <2>1, <2>2, <2>3 DEF Follow
    <2>6. UNCHANGED <<admitted, pending, window, planned>>
      BY <1>2 DEF Follow, lpt
    <2>7. planned \in [Rids -> Replicas \cup {NoOne}]
      BY DEF LInv, WindowInv
    <2> QED
      BY <2>4, <2>5, <2>6, <2>7, PlacedStarted
  <1> QED
    BY <1>1, <1>2

-----------------------------------------------------------------------------
(* Who waits has not started; a follower has not passed the gate.          *)
LEMMA WaitersRest ==
  ASSUME LInv, NEW rid \in Rids, conv[rid].at \in Waiting
  PROVE  Resting(rid) /\ conv[rid].turn = 0 /\ conv[rid].size \in Sizes
  BY DEF LInv, Books, PlaceInv

LEMMA AcquireInv ==
  ASSUME LInv, NEW rid \in Rids, NEW size \in Sizes, Acquire(rid, size)
  PROVE  LInv'
  <1> DEFINE g == GroupOf[rid]
  <1>0. g \in Groups /\ LeastLoaded \in Replicas /\ NoOne \in Replicas \cup {NoOne}
    BY LedgerAssumption, LeastLoadedReplica DEF LInv
  <1>1. /\ conv[rid].at = "next" /\ conv[rid].turn = 0
        /\ UNCHANGED <<option, failures, shrunk, declined>>
    BY DEF Acquire
  <1>2. Resting(rid) /\ rid \notin Past
    BY <1>1 DEF LInv, Books, PlaceInv, Past
  <1>3. Starts(rid, size)
    BY <1>1, <1>2 DEF Starts
  <1>4. OptionType'
    BY <1>1 DEF LInv, OptionType
  <1>5. CASE PlaceAlone(rid, size) /\ UNCHANGED stagger
    BY <1>3, <1>4, <1>5, AloneStarted DEF stagger, LInv, StaggerType, Started
  <1>6. CASE /\ leader' = [leader EXCEPT ![g] = LeastLoaded]
             /\ leaderRid' = [leaderRid EXCEPT ![g] = rid]
             /\ Place(rid, LeastLoaded, size, NoOne, FALSE)
             /\ UNCHANGED <<ready, admitted, lpt>>
    <2>1. planned \in [Rids -> Replicas \cup {NoOne}]
      BY DEF LInv, WindowInv
    <2>2. Started(rid)
      BY <1>0, <1>3, <1>6, <2>1, PlacedStarted DEF lpt
    <2>3. StaggerType'
      BY <1>0, <1>6 DEF LInv, StaggerType
    <2> QED
      BY <1>4, <2>2, <2>3 DEF LInv, Started
  <1>7. CASE Follow(rid, size) /\ UNCHANGED stagger
    BY <1>3, <1>4, <1>7, FollowStarted DEF stagger, LInv, StaggerType, Started
  <1>8. CASE /\ Wait(rid, "follower", size) /\ UNCHANGED <<admitted, lpt>>
             /\ UNCHANGED stagger
    <2>1. Books' /\ conv'[rid].at = "follower" /\ OthersWait(rid)
      BY <1>3, <1>8, WaitStep DEF LInv, Starts, OthersWait, Waiting
    <2>2. CountInv'
      BY <1>2, <1>8, <2>1, CountKept DEF LInv
    <2>3. WindowInv'
      <3>1. planned' \in [Rids -> Replicas \cup {NoOne}] /\ UNCHANGED <<pending, window>>
        BY <1>8 DEF LInv, WindowInv, lpt
      <3>2. ~ Opening(rid)'
        BY <2>1 DEF Opening
      <3> QED
        BY <2>1, <3>1, <3>2, WindowKept DEF LInv
    <2> QED
      BY <1>4, <1>8, <2>1, <2>2, <2>3 DEF LInv, StaggerType, stagger
  <1> QED
    BY <1>5, <1>6, <1>7, <1>8 DEF Acquire

(* A trajectory that waits is placed.                                      *)
LEMMA WaiterPlaced ==
  ASSUME LInv, NEW rid \in Rids, conv[rid].at \in Waiting, NEW r \in Replicas,
         NEW fits \in BOOLEAN, Place(rid, r, conv[rid].size, NoOne, fits),
         fits => Free(r) >= conv[rid].size, UNCHANGED <<option, failures, shrunk, declined>>
  PROVE  Books' /\ conv'[rid].at = "running" /\ OthersWait(rid) /\ rid \in Past'
  <1>1. Resting(rid) /\ conv[rid].size \in Sizes
    BY WaitersRest
  <1>2. Books' /\ conv'[rid].at = "running" /\ OthersWait(rid)
    <2>1. NoOne \in Replicas \cup {NoOne} /\ shrunk' = shrunk /\ declined' = declined /\ Books
      BY DEF LInv
    <2> QED
      BY <1>1, <2>1, PlaceStep DEF OthersWait
  <1> QED
    BY <1>2 DEF Past

LEMMA WaiterInv ==
  ASSUME LInv, NEW rid \in Rids, conv[rid].at \in Waiting, NEW r \in Replicas,
         NEW fits \in BOOLEAN, Place(rid, r, conv[rid].size, NoOne, fits),
         fits => Free(r) >= conv[rid].size, UNCHANGED <<option, failures, shrunk, declined>>,
         UNCHANGED <<admitted, stagger, pending, window>>,
         planned' \in [Rids -> Replicas \cup {NoOne}]
  PROVE  LInv'
  <1>1. Books' /\ conv'[rid].at = "running" /\ OthersWait(rid) /\ rid \in Past'
    BY WaiterPlaced
  <1>2. CountInv'
    BY <1>1, CountKept DEF LInv
  <1>3. WindowInv'
    BY <1>1, WindowKept DEF LInv, Opening
  <1> QED
    BY <1>1, <1>2, <1>3 DEF LInv, StaggerType, OptionType, stagger

(* The window that is closed held the session of the one that closes it.   *)
LEMMA BatchCovers ==
  ASSUME NEW P, IsFiniteSet(P), NEW batch \in SetToSeqs(P), NEW e \in P
  PROVE  DOMAIN batch = 1..Cardinality(P) /\ \E i \in DOMAIN batch : batch[i] = e
  <1> DEFINE D == 1..Cardinality(P)
  <1>1. batch \in [D -> P] /\ \A i, j \in D : i # j => batch[i] # batch[j]
    BY DEF SetToSeqs
  <1>2. IsFiniteSet(D) /\ Cardinality(D) = Cardinality(P)
    <2>1. Cardinality(P) \in Nat
      BY FS_CardinalityType
    <2> QED
      BY <2>1, FS_Interval
  <1> HIDE DEF D
  <1>3. batch \in Injection(D, P)
    BY <1>1 DEF Injection, IsInjective
  <1>4. batch \in Surjection(D, P)
    BY <1>2, <1>3, FS_Injection
  <1> QED
    BY <1>1, <1>4 DEF Surjection, D

LEMMA CloseInv ==
  ASSUME LInv, NEW rid \in Rids, CloseWindow(rid)
  PROVE  LInv'
  <1>0. /\ WindowInv /\ conv[rid].at = "opener" /\ conv[rid].at \in Waiting
        /\ UNCHANGED <<option, admitted, stagger, failures, shrunk, declined>>
        /\ pending' = {} /\ window' = "closed"
    BY DEF CloseWindow, LInv, Waiting
  <1>1. PICK batch \in Batches, to \in [1..Cardinality(pending) -> Replicas] :
          LET rids == {entry.rid : entry \in pending}
              Result(x) == to[CHOOSE i \in DOMAIN batch : batch[i].rid = x]
          IN /\ planned' = [x \in Rids |-> IF x \in rids \ {rid} THEN Result(x) ELSE planned[x]]
             /\ Place(rid, Result(rid), conv[rid].size, NoOne, FALSE)
    BY DEF CloseWindow
  <1> DEFINE rids == {entry.rid : entry \in pending}
             Result(x) == to[CHOOSE i \in DOMAIN batch : batch[i].rid = x]
  <1>2. ASSUME NEW x \in rids PROVE Result(x) \in Replicas
    <2>1. PICK e \in pending : e.rid = x
      OBVIOUS
    <2>2. batch \in SetToSeqs(pending) /\ IsFiniteSet(pending)
      BY <1>0 DEF Batches, WindowInv
    <2>3. DOMAIN batch = 1..Cardinality(pending) /\ \E i \in DOMAIN batch : batch[i] = e
      BY <2>1, <2>2, BatchCovers
    <2>4. \E i \in DOMAIN batch : batch[i].rid = x
      BY <2>1, <2>3
    <2>5. (CHOOSE i \in DOMAIN batch : batch[i].rid = x) \in DOMAIN batch
      BY <2>4
    <2> QED
      BY <2>3, <2>5
  <1>3. rid \in rids
    <2>1. \E e \in pending : e.rid = rid
      BY <1>0 DEF WindowInv, Opening
    <2> QED
      BY <2>1
  <1>4. planned' \in [Rids -> Replicas \cup {NoOne}]
    <2>1. planned \in [Rids -> Replicas \cup {NoOne}]
      BY <1>0 DEF WindowInv
    <2>2. planned' = [x \in Rids |-> IF x \in rids \ {rid} THEN Result(x) ELSE planned[x]]
      BY <1>1
    <2> HIDE DEF rids, Result
    <2> QED
      BY <1>2, <2>1, <2>2
  <1>5. Place(rid, Result(rid), conv[rid].size, NoOne, FALSE) /\ Result(rid) \in Replicas
    BY <1>1, <1>2, <1>3
  <1> HIDE DEF rids, Result
  <1>6. PICK r \in Replicas : Place(rid, r, conv[rid].size, NoOne, FALSE)
    BY <1>5
  <1>7. Books' /\ conv'[rid].at = "running" /\ OthersWait(rid) /\ rid \in Past'
    BY <1>0, <1>6, WaiterPlaced
  <1>8. CountInv'
    BY <1>0, <1>7, CountKept DEF LInv
  <1>9. WindowInv'
    <2>1. \A x \in Rids : ~ Opening(x)'
      BY <1>0, <1>7 DEF WindowInv, Opening, OthersWait
    <2>2. pending' \subseteq Entry /\ IsFiniteSet(pending')
      BY <1>0, FS_EmptySet
    <2> QED
      BY <1>0, <1>4, <2>1, <2>2 DEF WindowInv
  <1> QED
    BY <1>0, <1>7, <1>8, <1>9 DEF LInv, StaggerType, OptionType, stagger

LEMMA WakesInv ==
  ASSUME LInv, NEW rid \in Rids, Wakes(rid)
  PROVE  LInv'
  <1>0. LeastLoaded \in Replicas /\ planned \in [Rids -> Replicas \cup {NoOne}]
    BY LeastLoadedReplica DEF LInv, WindowInv
  <1>1. conv[rid].at \in Waiting
    BY DEF Wakes, Poll, ForceAdmission, LeaderReady, StaggerTimeout, CloseWindow, WindowSet,
           WindowTimeout, Waiting
  <1>2. CASE Poll(rid)
    <2>1. Free(LeastLoaded) >= conv[rid].size
      BY <1>2 DEF Poll, Fits
    <2> QED
      BY <1>0, <1>1, <1>2, <2>1, WaiterInv DEF Poll, lpt
  <1>3. CASE ForceAdmission(rid) \/ WindowTimeout(rid)
    BY <1>0, <1>1, <1>3, WaiterInv DEF ForceAdmission, WindowTimeout, lpt
  <1>4. CASE WindowSet(rid)
    <2>1. PICK r : r = IF planned[rid] = NoOne THEN LeastLoaded ELSE planned[rid]
      OBVIOUS
    <2>2. r \in Replicas
      BY <1>0, <2>1
    <2>3. planned' \in [Rids -> Replicas \cup {NoOne}]
      BY <1>0, <1>4 DEF WindowSet
    <2>4. /\ Place(rid, r, conv[rid].size, NoOne, FALSE)
          /\ UNCHANGED <<option, admitted, stagger, pending, window, failures, shrunk, declined>>
      BY <1>4, <2>1 DEF WindowSet
    <2> QED
      BY <1>1, <2>2, <2>3, <2>4, WaiterInv
  <1>5. CASE LeaderReady(rid) \/ StaggerTimeout(rid)
    <2>1. /\ conv[rid].at = "follower" /\ UNCHANGED <<option, stagger, failures, shrunk, declined>>
          /\ Follow(rid, conv[rid].size) \/ PlaceAlone(rid, conv[rid].size)
      BY <1>5 DEF LeaderReady, StaggerTimeout
    <2>2. Starts(rid, conv[rid].size)
      BY <1>1, <2>1, WaitersRest DEF Starts, Past
    <2>3. Started(rid)
      BY <2>1, <2>2, AloneStarted, FollowStarted
    <2> QED
      BY <2>1, <2>3 DEF LInv, Started, StaggerType, OptionType, stagger
  <1>6. CASE CloseWindow(rid)
    BY <1>6, CloseInv
  <1> QED
    BY <1>2, <1>3, <1>4, <1>5, <1>6 DEF Wakes

-----------------------------------------------------------------------------
(* Steps of a trajectory that is past its turn 0.                          *)
LEMMA PastKept ==
  ASSUME LInv, NEW rid \in Rids, OthersWait(rid), ~ Opening(rid)', rid \in Past',
         UNCHANGED <<admitted, lpt>>
  PROVE  CountInv' /\ WindowInv'
  <1>1. CountInv'
    BY CountKept DEF LInv
  <1>2. planned' \in [Rids -> Replicas \cup {NoOne}] /\ UNCHANGED <<pending, window>>
    BY DEF lpt, LInv, WindowInv
  <1>3. WindowInv'
    BY <1>2, WindowKept DEF LInv
  <1> QED
    BY <1>1, <1>3

LEMMA ContinueInv ==
  ASSUME LInv, NEW rid \in Rids, NEW size \in Sizes, Continue(rid, size)
  PROVE  LInv'
  <1>1. Books' /\ conv'[rid].at = "running" /\ OthersWait(rid)
    BY ContinueStep DEF LInv, OthersWait
  <1>2. UNCHANGED <<option, admitted, stagger, lpt, failures>>
    BY ContinueKinds DEF LInv
  <1>3. rid \in Past' /\ ~ Opening(rid)'
    BY <1>1 DEF Past, Opening
  <1>4. CountInv' /\ WindowInv'
    BY <1>1, <1>2, <1>3, PastKept
  <1> QED
    BY <1>1, <1>2, <1>4 DEF LInv, StaggerType, OptionType, stagger

LEMMA TurnInv ==
  ASSUME LInv, NEW rid \in Rids, NEW size \in Sizes,
         TurnDone(rid, size) \/ TurnFails(rid, size)
  PROVE  LInv'
  <1>1. /\ conv[rid].at = "running" /\ RecordTurn(rid, size)
        /\ shrunk' = shrunk /\ declined' = declined
        /\ \/ conv' = [conv EXCEPT ![rid] = Between("next", @.turn + 1)]
           \/ conv' = [conv EXCEPT ![rid] = Between("failed", @.turn)]
        /\ UNCHANGED <<option, admitted, lpt>>
    BY DEF TurnDone, TurnFails
  <1>2. /\ Books' /\ OthersWait(rid)
        /\ (conv'[rid].at = "next" /\ conv'[rid].turn > 0) \/ conv'[rid].at = "failed"
    BY <1>1, RecordStep DEF LInv, OthersWait
  <1>3. rid \in Past' /\ ~ Opening(rid)'
    BY <1>2 DEF Past, Opening
  <1>4. CountInv' /\ WindowInv'
    BY <1>1, <1>2, <1>3, PastKept
  <1>5. StaggerType'
    BY <1>1 DEF RecordTurn, MarkReady, LInv, StaggerType
  <1>6. failures' \in 0..MaxFailures
    <2>1. failures \in 0..MaxFailures /\ MaxFailures \in Nat
      BY LedgerAssumption DEF LInv, OptionType
    <2>2. failures' = failures \/ (failures < MaxFailures /\ failures' = failures + 1)
      BY DEF TurnDone, TurnFails
    <2> QED
      BY <2>1, <2>2
  <1> QED
    BY <1>1, <1>2, <1>4, <1>5, <1>6 DEF LInv, OptionType

LEMMA EndInv ==
  ASSUME LInv, NEW rid \in Rids, TrajectoryDone(rid)
  PROVE  LInv'
  <1>1. Books' /\ conv'[rid].at = "done" /\ OthersWait(rid)
    BY EndStep DEF LInv, OthersWait
  <1>2. UNCHANGED <<option, admitted, stagger, lpt, failures>>
    BY DEF TrajectoryDone
  <1>3. rid \in Past' /\ ~ Opening(rid)'
    BY <1>1 DEF Past, Opening
  <1>4. CountInv' /\ WindowInv'
    BY <1>1, <1>2, <1>3, PastKept
  <1> QED
    BY <1>1, <1>2, <1>4 DEF LInv, StaggerType, OptionType, stagger

LEMMA LedgerStarts == Init => LInv
  <1> SUFFICES ASSUME Init PROVE LInv
    OBVIOUS
  <1>1. \A rid \in Rids : /\ conv[rid] = Between("next", 0)
                          /\ conv[rid].at = "next" /\ conv[rid].turn = 0
                          /\ resident[rid] = NoOne /\ sizes[rid] = <<>>
    BY DEF Init, Between
  <1>2. ConvType
    <2>1. Between("next", 0) \in Conversation
      BY LedgerAssumption DEF Between, Conversation
    <2> QED
      BY <2>1 DEF Init, ConvType
  <1>3. BooksType
    BY NoHistoryType DEF Init, BooksType
  <1>4. PlaceInv
    BY <1>1 DEF PlaceInv, Resting, Waiting
  <1>5. ChargeInv
    BY DEF Init, ChargeInv
  <1>6. BooksInv
    <2> SUFFICES ASSUME NEW r \in Replicas
                 PROVE  used[r] = 0 /\ BookedOn(r) = 0 /\ CheckedSum(r) = 0
      BY LedgerAssumption DEF BooksInv
    <2>1. Residents(r) = {} /\ CheckedOn(r) = {}
      BY <1>1, LedgerAssumption DEF Residents, CheckedOn
    <2>2. BookedOn(r) = 0 /\ CheckedSum(r) = 0
      BY <2>1, BookedIsSum, SumEmpty DEF CheckedSum
    <2> QED
      BY <2>2 DEF Init
  <1>7. CountInv
    <2>1. IsFiniteSet(Past)
      BY FS_Subset, LedgerAssumption DEF Past
    <2>2. Cardinality(Past) \in Nat
      BY <2>1, FS_CardinalityType
    <2> QED
      BY <2>2 DEF Init, CountInv
  <1>8. WindowInv
    BY <1>1, FS_EmptySet DEF Init, WindowInv, Opening
  <1>9. StaggerType /\ OptionType
    BY LedgerAssumption DEF Init, StaggerType, OptionType
  <1> QED
    BY <1>2, <1>3, <1>4, <1>5, <1>6, <1>7, <1>8, <1>9 DEF LInv, Books

LEMMA LedgerSteps == LInv /\ [Next]_vars => LInv'
  <1> SUFFICES ASSUME LInv, [Next]_vars PROVE LInv'
    OBVIOUS
  <1>1. ASSUME NEW rid \in Rids, NEW size \in Sizes,
               Acquire(rid, size) \/ Continue(rid, size) \/ TurnDone(rid, size)
                 \/ TurnFails(rid, size)
        PROVE  LInv'
    BY <1>1, AcquireInv, ContinueInv, TurnInv
  <1>2. ASSUME NEW rid \in Rids, Wakes(rid) \/ TrajectoryDone(rid)
        PROVE  LInv'
    BY <1>2, WakesInv, EndInv
  <1>3. CASE UNCHANGED vars
    <2> USE <1>3 DEF vars, books, stagger, lpt, history
    <2>1. ConvType' /\ BooksType' /\ PlaceInv' /\ ChargeInv'
      BY DEF LInv, Books, ConvType, BooksType, PlaceInv, Resting, Settled, ChargeInv
    <2>2. BooksInv'
      BY DEF LInv, Books, BooksInv, BookedOn, CheckedSum, CheckedOn, Residents, Contexts, LastSize
    <2>3. CountInv' /\ WindowInv' /\ StaggerType' /\ OptionType'
      BY DEF LInv, CountInv, Past, WindowInv, Opening, StaggerType, OptionType
    <2> QED
      BY <2>1, <2>2, <2>3 DEF LInv, Books
  <1> QED
    BY <1>1, <1>2, <1>3 DEF Next

LEMMA LedgerBooks == Spec => []LInv
  BY LedgerStarts, LedgerSteps, PTL DEF Spec

-----------------------------------------------------------------------------
(* Every variable has its type; no replica's booking is ever negative, and *)
(* no session is placed on a replica that does not exist.                  *)
THEOREM LedgerTyped == Spec => []TypeOK
  <1>1. LInv => TypeOK
    <2> SUFFICES ASSUME LInv PROVE TypeOK
      OBVIOUS
    <2>1. admitted \in 0..Cardinality(Rids)
      <3>1. Past \in SUBSET Rids /\ IsFiniteSet(Rids)
        BY LedgerAssumption DEF Past
      <3>2. Cardinality(Past) <= Cardinality(Rids) /\ Cardinality(Past) \in Nat
            /\ Cardinality(Rids) \in Nat
        BY <3>1, FS_Subset, FS_CardinalityType
      <3> QED
        BY <3>2 DEF LInv, CountInv
    <2> QED
      BY <2>1 DEF LInv, Books, BooksType, ConvType, WindowInv, StaggerType, OptionType, TypeOK
  <1> QED
    BY <1>1, LedgerBooks, PTL

(* A replica is never booked for less than its residents' contexts.        *)
THEOREM NothingReleasedTwice == Spec => []NeverUndercounts
  <1>1. LInv => NeverUndercounts
    BY DEF LInv, Books, BooksInv, NeverUndercounts
  <1> QED
    BY <1>1, LedgerBooks, PTL

(* As long as no turn is booked smaller than the one before, a replica is  *)
(* booked for exactly its residents' contexts.                             *)
THEOREM BooksBalance == Spec => []GrowingContextsBalance
  <1>1. LInv => GrowingContextsBalance
    BY DEF LInv, Books, BooksInv, GrowingContextsBalance
  <1> QED
    BY <1>1, LedgerBooks, PTL

(* While contexts grow, both as they are booked and by the time they end,  *)
(* residents that were each found to fit, fit together.                    *)
THEOREM HeadroomIsNotShared == Spec => []CheckedResidentsFit
  <1>1. LInv => CheckedResidentsFit
    <2> SUFFICES ASSUME LInv, NEW r \in Replicas, ~shrunk, ~declined,
                        \A rid \in Residents(r) : checked[rid]
                 PROVE  used[r] <= Budget
      BY DEF CheckedResidentsFit
    <2>1. CheckedOn(r) = Residents(r)
      BY DEF CheckedOn
    <2>2. CheckedSum(r) = BookedOn(r)
      BY <2>1, BookedIsSum DEF CheckedSum
    <2> QED
      BY <2>2 DEF LInv, Books, BooksInv
  <1> QED
    BY <1>1, LedgerBooks, PTL
==============================================================================
