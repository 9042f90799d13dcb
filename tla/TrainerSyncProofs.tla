------------------------- MODULE TrainerSyncProofs -------------------------
(***************************************************************************)
(* What holds of the weight synchronisation for any number of engines,     *)
(* parameters and training steps.                                          *)
(***************************************************************************)
EXTENDS TrainerSync, SequenceTheorems, TLAPS

Load == 0..MaxSteps \cup {Live}
Item == [by : Version, layer : Layer, load : Load]

LEMMA Sizes ==
  /\ Layers \in Nat \ {0} /\ MaxSteps \in Nat \ {0}
  /\ Live \notin 0..MaxSteps /\ Lost \notin 0..MaxSteps /\ Live # Copied
  BY LayersAssumption, StepsAssumption, ValuesAssumption

-----------------------------------------------------------------------------
(* The parts of the inductive invariant.                                   *)

Intact == group = Engines

(* The optimizer is at work in "train" only; a sync has something to       *)
(* deliver and memory to deliver it to.                                    *)
LoopInv ==
  /\ version <= step
  /\ main = "train" => step < MaxSteps /\ \A l \in Layer : weights[l] \in {step, step + 1}
  /\ main # "train" => \A l \in Layer : weights[l] = step
  /\ main \in {"wakeWeights", "sync"} => version < step
  /\ main \in {"update", "join"} => version > 0 /\ load \in {Live, step}
  /\ main \in {"sync", "update", "join", "wakeCache"} =>
       \A e \in Engines : "weights" \in mapped[e]

(* An update whose client is there is the current one.                     *)
RequestsInv ==
  /\ requests \subseteq 1..version /\ gone \subseteq 1..version
  /\ version \in gone => main # "update"
  /\ \A v \in requests \ gone : v = version /\ main = "update" /\ reply = "none"
  /\ \A u \in update :
       /\ u.for \in 1..version /\ u.for \notin requests
       /\ u.for \notin gone =>
            u.for = version /\ main = "update" /\ reply = "none" /\ (Intact => ~u.failed)

(* An engine has its calls in the order of their versions.                 *)
CallsInv ==
  \A e \in Engines :
    /\ \A i \in DOMAIN calls[e] : calls[e][i] \in 1..version
    /\ \A i, j \in DOMAIN calls[e] : i < j => calls[e][i] < calls[e][j]
    /\ version \in Pending(e) =>
         version \notin requests /\ \A u \in update : u.for = version => e \in u.asked

(* Engines receive in step, and what is queued is the rest of one model    *)
(* followed by whole ones.                                                 *)
SendsInv ==
  Intact =>
    /\ \A e, f \in Engines : received[e] = received[f]
    /\ \A e \in Engines : received[e] > 0 => calls[e] # <<>> /\ sends # <<>>
    /\ sends # <<>> =>
         /\ sends[Len(sends)].layer = Layers
         /\ \A e \in Engines : sends[1].layer = received[e] + 1
    /\ \A i \in 1..Len(sends) - 1 :
         IF sends[i].layer = Layers
         THEN sends[i + 1].layer = 1
         ELSE /\ sends[i + 1].layer = sends[i].layer + 1
              /\ sends[i + 1].load = sends[i].load

(* Until a sync has raised nothing is queued but what the current one      *)
(* hands over, and once an engine has received it nothing at all.          *)
FirstInv ==
  Intact /\ ~left =>
    /\ asleep \in {{}, {[by |-> version, load |-> load]}}
    /\ asleep # {} => sends = <<>>
    /\ \A i \in DOMAIN sends :
         sends[i].load = load /\ (i < Len(sends) => sends[i].layer # Layers)
    /\ ~(main = "update" /\ reply # "updated") => asleep = {} /\ sends = <<>>
    /\ \A u \in update : \A e \in u.asked :
         u.for \notin gone /\ version \notin Pending(e) => asleep = {} /\ sends = <<>>

(* Afterwards copies are either displaced or not used.                     *)
LoadsInv ==
  Intact /\ left /\ ~displaced =>
    /\ \A t \in asleep : t.load = Live
    /\ \A i \in DOMAIN sends : sends[i].load = Live

(* An engine that works on the current update has the first parameters of  *)
(* the model that is being sent; those that are through with it have all   *)
(* of that model, and no more calls.                                       *)
Model(item) == IF item.load = Live THEN step ELSE item.load

ReceivedInv ==
  Intact =>
    /\ main = "update" =>
         \A e \in Engines : calls[e] # <<>> /\ Head(calls[e]) = version =>
           \A l \in 1..received[e] : held[e][l] = Model(sends[1])
    /\ \A u \in update : u.for \notin gone =>
         \E n \in 0..MaxSteps :
           /\ ~displaced => n = step
           /\ \A e \in u.asked :
                version \notin Pending(e) => calls[e] = <<>> /\ held[e] = [l \in Layer |-> n]

(* From the commit to the next sleep nothing reaches the engines.          *)
Settled ==
  \/ main = "update" /\ reply = "updated"
  \/ main \in {"join", "wakeCache"}
  \/ main = "generate" /\ outcome # "raised"

SettledInv ==
  Intact /\ Settled =>
    /\ update = {} /\ requests \subseteq gone /\ poolVersion = version
    /\ \A e \in Engines : calls[e] = <<>>
    /\ main = "generate" => \A e \in Engines : mapped[e] = Memory
    /\ \E n \in 0..MaxSteps :
         (~displaced => n = step) /\ \A e \in Engines : held[e] = [l \in Layer |-> n]

-----------------------------------------------------------------------------
(* The sequences.                                                          *)

LEMMA BlockQueued ==
  ASSUME sends \in Seq(Item), NEW t \in [by : Version, load : Load],
         sends' = sends \o [l \in Layer |-> [by |-> t.by, layer |-> l, load |-> t.load]]
  PROVE  /\ sends' \in Seq(Item)
         /\ Len(sends') = Len(sends) + Layers
         /\ \A i \in 1..Len(sends) : sends'[i] = sends[i]
         /\ \A l \in Layer :
              sends'[Len(sends) + l] = [by |-> t.by, layer |-> l, load |-> t.load]
  <1> DEFINE block == [l \in Layer |-> [by |-> t.by, layer |-> l, load |-> t.load]]
  <1>0. block \in [1..Layers -> Item]
    BY DEF Item, Layer
  <1>1. block \in Seq(Item) /\ Len(block) = Layers
    BY <1>0, Sizes
  <1>2. \A l \in Layer : block[l] = [by |-> t.by, layer |-> l, load |-> t.load]
    OBVIOUS
  <1>3. Len(sends) \in Nat
    OBVIOUS
  <1> HIDE DEF block
  <1>4. /\ sends \o block \in Seq(Item)
        /\ Len(sends \o block) = Len(sends) + Layers
        /\ \A i \in 1..Len(sends) + Layers :
             (sends \o block)[i] = IF i <= Len(sends) THEN sends[i] ELSE block[i - Len(sends)]
    BY <1>1, ConcatProperties
  <1>5. sends' = sends \o block
    BY DEF block
  <1>6. \A i \in 1..Len(sends) : sends'[i] = sends[i]
    BY <1>3, <1>4, <1>5, Sizes
  <1>7. \A l \in Layer : sends'[Len(sends) + l] = block[l]
    <2> TAKE l \in Layer
    <2>1. l \in 1..Layers /\ Len(sends) + l \in 1..Len(sends) + Layers
          /\ ~(Len(sends) + l <= Len(sends)) /\ (Len(sends) + l) - Len(sends) = l
      BY <1>3, Sizes DEF Layer
    <2> QED
      BY <1>4, <1>5, <2>1
  <1> QED
    BY <1>2, <1>4, <1>5, <1>6, <1>7

LEMMA Rest ==
  ASSUME NEW S, NEW s \in Seq(S), s # <<>>
  PROVE  /\ Head(s) = s[1] /\ s[1] \in S
         /\ Len(s) \in Nat \ {0}
         /\ Tail(s) \in Seq(S) /\ Len(Tail(s)) = Len(s) - 1
         /\ \A i \in 1..Len(s) - 1 : Tail(s)[i] = s[i + 1]
         /\ Len(s) = 1 <=> Tail(s) = <<>>
  <1>1. Len(s) \in Nat \ {0}
    BY EmptySeq
  <1>2. Head(s) = s[1]
    OBVIOUS
  <1>3. s[1] \in S
    BY <1>1, ElementOfSeq
  <1>4. /\ Tail(s) \in Seq(S) /\ Len(Tail(s)) = Len(s) - 1
        /\ \A i \in 1..Len(s) - 1 : Tail(s)[i] = s[i + 1]
    BY HeadTailProperties
  <1>5. Tail(s) = <<>> => Len(s) = 1
    BY <1>1, <1>4, EmptySeq
  <1>6. Tail(s) # <<>> => Len(s) # 1
    <2>1. Tail(s) # <<>> => Len(Tail(s)) \in Nat \ {0}
      BY <1>4, EmptySeq
    <2> QED
      BY <1>1, <1>4, <2>1
  <1> QED
    BY <1>1, <1>2, <1>3, <1>4, <1>5, <1>6

-----------------------------------------------------------------------------
LEMMA InitTyped == Init => TypeOK
  <1> SUFFICES ASSUME Init PROVE TypeOK
    OBVIOUS
  <1>1. weights \in [Layer -> 0..MaxSteps]
    BY Sizes DEF Init
  <1>2. sends \in Seq(Item) /\ calls \in [Engines -> Seq(Version)]
    BY EmptySeq DEF Init
  <1>3. received \in [Engines -> 0..Layers - 1] /\ mapped \in [Engines -> SUBSET Memory]
    BY Sizes DEF Init
  <1>4. held \in [Engines -> [Layer -> Value]]
    BY Sizes DEF Init, Value
  <1>5. /\ asleep = {} /\ requests = {} /\ gone = {} /\ update = {} /\ group = Engines
        /\ main = "generate" /\ step = 0 /\ version = 0 /\ load = Live /\ reply = "none"
        /\ broadcastError = FALSE /\ poolVersion = 0 /\ outcome = "none"
        /\ left = FALSE /\ displaced = FALSE
    BY DEF Init
  <1>6. 0 \in 0..MaxSteps
    BY Sizes
  <1> QED
    BY <1>1, <1>2, <1>3, <1>4, <1>5, <1>6 DEF TypeOK, Item, Load

LEMMA LoopTyped ==
  ASSUME TypeOK, LoopInv, Sleep \/ Train \/ WakeWeights \/ WakeCache
  PROVE  TypeOK'
  <1>1. CASE Sleep
    <2>1. /\ main' \in {"train", "stopped", "generate"}
          /\ outcome' \in {outcome, "raised"} /\ left' \in BOOLEAN /\ displaced' \in BOOLEAN
      BY <1>1 DEF TypeOK, Sleep, Raise, history
    <2>2. PICK S \in SUBSET Engines : Release(S)
      BY <1>1 DEF Sleep
    <2>3. mapped' \in [Engines -> SUBSET Memory]
      BY <2>2 DEF TypeOK, Release
    <2>4. [l \in Layer |-> Lost] \in [Layer -> Value]
      BY DEF Value
    <2>5. held' \in [Engines -> [Layer -> Value]]
      BY <2>2, <2>4 DEF TypeOK, Release
    <2> QED
      BY <1>1, <2>1, <2>3, <2>5 DEF TypeOK, Sleep, threads, controller
  <1>2. CASE Train
    <2>1. /\ step < MaxSteps /\ step + 1 \in 0..MaxSteps /\ step' \in {step, step + 1}
          /\ main' \in {"train", "wakeWeights"}
      BY <1>2, Sizes DEF TypeOK, LoopInv, Train
    <2>2. weights' \in [Layer -> 0..MaxSteps]
      BY <1>2, <2>1 DEF TypeOK, Train
    <2> QED
      BY <1>2, <2>1, <2>2 DEF TypeOK, Train, threads, controller, engines, history
  <1>3. CASE WakeWeights
    BY <1>3 DEF TypeOK, WakeWeights, Wake, Restore, Raise, Memory, threads, controller,
                history
  <1>4. CASE WakeCache
    BY <1>4 DEF TypeOK, WakeCache, Wake, Restore, Raise, Memory, threads, controller, history
  <1> QED
    BY <1>1, <1>2, <1>3, <1>4

LEMMA SyncTyped ==
  ASSUME TypeOK, LoopInv, SyncWaits \/ Broadcast \/ BroadcastFails
  PROVE  TypeOK'
  <1>1. CASE UpdateAnswered
    BY <1>1 DEF TypeOK, UpdateAnswered, Raise, threads, controller, engines, history
  <1>2. CASE HttpTimeout
    <2>1. version \in Version
      BY <1>2 DEF TypeOK, LoopInv, HttpTimeout, Version
    <2> QED
      BY <1>2, <2>1 DEF TypeOK, HttpTimeout, Raise, threads, controller, engines
  <1>3. CASE Join
    BY <1>3 DEF TypeOK, Join, Raise, SyncReturns, threads, controller, engines
  <1>4. CASE BroadcastFails
    BY <1>4 DEF TypeOK, BroadcastFails, trainer, controller, engines, history
  <1>5. CASE Broadcast
    <2> PICK t \in asleep :
          /\ asleep' = asleep \ {t}
          /\ sends' = sends \o [l \in Layer |-> [by |-> t.by, layer |-> l, load |-> t.load]]
          /\ UNCHANGED <<trainer, broadcastError, controller, gone, engines, history>>
      BY <1>5 DEF Broadcast
    <2>1. t \in [by : Version, load : Load] /\ sends \in Seq(Item)
      BY DEF TypeOK, Item, Load
    <2>2. sends' \in Seq(Item)
      BY <2>1, BlockQueued
    <2> QED
      BY <2>2 DEF TypeOK, trainer, controller, engines, history, Item, Load
  <1> QED
    BY <1>1, <1>2, <1>3, <1>4, <1>5 DEF SyncWaits

LEMMA ControllerTyped ==
  ASSUME TypeOK, TakeUpdate \/ AskEngine \/ Commit \/ UpdateFails
  PROVE  TypeOK'
  <1>1. CASE TakeUpdate
    <2> PICK v \in requests :
          /\ requests' = requests \ {v}
          /\ \/ v \notin gone /\ update' = {[for |-> v, asked |-> {}, failed |-> FALSE]}
                /\ UNCHANGED <<gone, reply>>
             \/ Answer(v, "error") /\ gone' = gone \ {v} /\ UNCHANGED update
      BY <1>1 DEF TakeUpdate
    <2>1. v \in Version
      BY DEF TypeOK
    <2>2. /\ update' \subseteq [for : Version, asked : SUBSET Engines, failed : BOOLEAN]
          /\ \A u, w \in update' : u = w
      <3>1. [for |-> v, asked |-> {}, failed |-> FALSE]
              \in [for : Version, asked : SUBSET Engines, failed : BOOLEAN]
        BY <2>1
      <3> QED
        BY <3>1 DEF TypeOK
    <2>3. requests' \subseteq Version /\ gone' \subseteq Version
      BY DEF TypeOK
    <2>4. reply' \in {"none", "updated", "error"}
      BY DEF TypeOK, Answer
    <2> QED
      BY <1>1, <2>2, <2>3, <2>4 DEF TypeOK, TakeUpdate, threads, engines, history
  <1>2. CASE AskEngine
    <2> PICK u \in update, e \in Engines :
          /\ e \notin u.asked
          /\ LET reaches == e \in group /\ u.for \notin gone
             IN /\ update' = {[u EXCEPT !.asked = @ \cup {e}, !.failed = @ \/ ~reaches]}
                /\ calls' = IF reaches THEN [calls EXCEPT ![e] = Append(@, u.for)] ELSE calls
          /\ UNCHANGED <<trainer, threads, requests, gone, poolVersion, group, received, held,
                         mapped, history>>
      BY <1>2 DEF AskEngine
    <2>1. u \in [for : Version, asked : SUBSET Engines, failed : BOOLEAN]
      BY DEF TypeOK
    <2>2. update' \subseteq [for : Version, asked : SUBSET Engines, failed : BOOLEAN]
      <3> DEFINE reached == e \in group /\ u.for \notin gone
      <3>1. update' = {[u EXCEPT !.asked = @ \cup {e}, !.failed = @ \/ ~reached]}
        OBVIOUS
      <3> HIDE DEF reached
      <3>2. (u.failed \/ ~reached) \in BOOLEAN /\ u.asked \cup {e} \in SUBSET Engines
        BY <2>1
      <3>3. [u EXCEPT !.asked = @ \cup {e}, !.failed = @ \/ ~reached]
              \in [for : Version, asked : SUBSET Engines, failed : BOOLEAN]
        BY <2>1, <3>2
      <3> QED
        BY <3>1, <3>3
    <2>3. \A v, w \in update' : v = w
      OBVIOUS
    <2>4. Append(calls[e], u.for) \in Seq(Version)
      BY <2>1, AppendProperties DEF TypeOK
    <2>5. calls' \in [Engines -> Seq(Version)]
      BY <2>4 DEF TypeOK
    <2> QED
      BY <2>2, <2>3, <2>5 DEF TypeOK, trainer, threads, history
  <1>3. CASE Commit
    <2> PICK u \in update :
          /\ update' = {} /\ poolVersion' = u.for /\ Answer(u.for, "updated")
          /\ gone' = gone \ {u.for}
      BY <1>3 DEF Commit
    <2>1. u.for \in 0..MaxSteps
      BY DEF TypeOK, Version
    <2> QED
      BY <1>3, <2>1 DEF TypeOK, Commit, Answer, threads, engines, history
  <1>4. CASE UpdateFails
    BY <1>4 DEF TypeOK, UpdateFails, Answer, threads, engines, history
  <1> QED
    BY <1>1, <1>2, <1>3, <1>4

LEMMA StartTyped ==
  ASSUME TypeOK, LoopInv, StartSync
  PROVE  TypeOK'
  <1>1. version + 1 \in Version /\ version' = version + 1
    <2>1. main = "sync" /\ version' = version + 1
      BY DEF StartSync
    <2>2. version < step
      BY <2>1 DEF LoopInv
    <2>3. version \in 0..MaxSteps /\ step \in 0..MaxSteps
      BY DEF TypeOK
    <2> QED
      BY <2>1, <2>2, <2>3, Sizes DEF Version
  <1>2. load' \in Load
    BY DEF TypeOK, StartSync, Load
  <1>3. asleep' \subseteq [by : Version, load : Load]
    <2>1. [by |-> version + 1, load |-> load'] \in [by : Version, load : Load]
      BY <1>1, <1>2
    <2> QED
      BY <2>1 DEF TypeOK, StartSync, Load
  <1>4. version + 1 \in 0..MaxSteps
    BY <1>1 DEF Version
  <1>5. requests' \subseteq Version
    BY <1>1 DEF TypeOK, StartSync
  <1> QED
    BY <1>1, <1>2, <1>3, <1>4, <1>5 DEF TypeOK, StartSync, engines, Load

(* What a collective carries.                                              *)
LEMMA CarriedTyped ==
  ASSUME TypeOK, NEW item \in Item
  PROVE  Carried(item) \in 0..MaxSteps
  BY Sizes DEF TypeOK, Carried, Item, Load

LEMMA TransferTyped ==
  ASSUME TypeOK, Transfer
  PROVE  TypeOK'
  <1>1. /\ sends \in Seq(Item) /\ sends # <<>>
    BY DEF TypeOK, Transfer, Item, Load
  <1>2. sends' \in Seq(Item) /\ Head(sends) \in Item
    BY <1>1, Rest DEF Transfer
  <1>3. Carried(Head(sends)) \in Value
    BY <1>2, CarriedTyped DEF Value
  <1>4. received' \in [Engines -> 0..Layers - 1]
    BY Sizes DEF TypeOK, Transfer
  <1>5. calls' \in [Engines -> Seq(Version)]
    <2>1. \A e \in Engines : Tail(calls[e]) \in Seq(Version)
      BY Rest DEF TypeOK, Transfer
    <2> QED
      BY <2>1 DEF TypeOK, Transfer
  <1>6. held' \in [Engines -> [Layer -> Value]]
    <2> DEFINE value == Carried(Head(sends))
    <2> HIDE DEF value
    <2>1. \A e \in Engines : [held[e] EXCEPT ![received[e] + 1] = value] \in [Layer -> Value]
      BY <1>3 DEF TypeOK, value
    <2>2. held' = [e \in Engines |->
                     IF "weights" \in mapped[e]
                     THEN [held[e] EXCEPT ![received[e] + 1] = value]
                     ELSE held[e]]
      BY DEF Transfer, value
    <2> QED
      BY <2>1, <2>2 DEF TypeOK
  <1> QED
    BY <1>2, <1>4, <1>5, <1>6 DEF TypeOK, Transfer, trainer, controller, history, Item, Load

LEMMA RestartTyped ==
  ASSUME TypeOK, NEW e \in Engines, Restart(e)
  PROVE  TypeOK'
  <1>1. received' \in [Engines -> 0..Layers - 1]
    BY Sizes DEF TypeOK, Restart
  <1>2. calls' \in [Engines -> Seq(Version)]
    BY EmptySeq DEF TypeOK, Restart
  <1>3. [l \in Layer |-> 0] \in [Layer -> Value]
    BY Sizes DEF Value
  <1>4. held' \in [Engines -> [Layer -> Value]] /\ mapped' \in [Engines -> SUBSET Memory]
    BY <1>3 DEF TypeOK, Restart
  <1>5. \A u \in update :
          [u EXCEPT !.failed = @ \/ u.for \in Pending(e)]
            \in [for : Version, asked : SUBSET Engines, failed : BOOLEAN]
    <2> TAKE u \in update
    <2>1. u \in [for : Version, asked : SUBSET Engines, failed : BOOLEAN]
      BY DEF TypeOK
    <2> DEFINE fails == u.failed \/ u.for \in Pending(e)
    <2>2. fails \in BOOLEAN
      BY <2>1
    <2> HIDE DEF fails
    <2>3. [u EXCEPT !.failed = fails]
            \in [for : Version, asked : SUBSET Engines, failed : BOOLEAN]
      BY <2>1, <2>2
    <2> QED
      BY <2>3 DEF fails
  <1>6. /\ update' \subseteq [for : Version, asked : SUBSET Engines, failed : BOOLEAN]
        /\ \A u, w \in update' : u = w
    <2> DEFINE broken(u) == [u EXCEPT !.failed = @ \/ u.for \in Pending(e)]
    <2>1. update' = {broken(u) : u \in update}
      BY DEF Restart
    <2>2. \A u \in update :
            broken(u) \in [for : Version, asked : SUBSET Engines, failed : BOOLEAN]
      BY <1>5
    <2>3. \A u, w \in update : u = w
      BY DEF TypeOK
    <2> HIDE DEF broken
    <2> QED
      BY <2>1, <2>2, <2>3
  <1> QED
    BY <1>1, <1>2, <1>4, <1>6
    DEF TypeOK, Restart, trainer, threads, history

LEMMA NextTyped ==
  ASSUME TypeOK, LoopInv, Next
  PROVE  TypeOK'
  BY LoopTyped, SyncTyped, ControllerTyped, StartTyped, TransferTyped, RestartTyped
  DEF Next, SyncWaits

-----------------------------------------------------------------------------
(* What the loop knows.                                                    *)

LEMMA LoopKeeps ==
  ASSUME TypeOK, LoopInv, Next
  PROVE  LoopInv'
  <1>1. CASE Sleep
    BY <1>1 DEF TypeOK, LoopInv, Sleep, Raise
  <1>2. CASE Train
    <2> PICK l \in Layer :
          /\ main = "train"
          /\ weights[l] = step /\ \A k \in 1..l - 1 : weights[k] = step + 1
          /\ weights' = [weights EXCEPT ![l] = step + 1]
          /\ IF l = Layers
             THEN step' = step + 1 /\ main' = "wakeWeights"
             ELSE UNCHANGED <<step, main>>
      BY <1>2 DEF Train
    <2>1. step \in Nat /\ version \in Nat /\ weights \in [Layer -> 0..MaxSteps]
      BY DEF TypeOK
    <2>2. \A k \in Layer : weights'[k] = IF k = l THEN step + 1 ELSE weights[k]
      BY <2>1
    <2>3. version' = version /\ load' = load /\ mapped' = mapped
      BY <1>2 DEF Train, engines
    <2>4. CASE l = Layers
      <3>1. \A k \in Layer : k = l \/ k \in 1..l - 1
        BY <2>4, Sizes DEF Layer
      <3>2. \A k \in Layer : weights'[k] = step + 1
        BY <2>2, <3>1
      <3> QED
        BY <2>1, <2>3, <2>4, <3>2 DEF LoopInv
    <2>5. CASE l # Layers
      BY <2>1, <2>2, <2>3, <2>5 DEF LoopInv
    <2> QED
      BY <2>4, <2>5
  <1>3. CASE WakeWeights \/ WakeCache
    BY <1>3 DEF TypeOK, LoopInv, WakeWeights, WakeCache, Wake, Restore, Raise
  <1>4. CASE StartSync
    BY <1>4 DEF TypeOK, LoopInv, StartSync, engines
  <1>5. CASE SyncWaits
    BY <1>5 DEF TypeOK, LoopInv, SyncWaits, UpdateAnswered, HttpTimeout, Join, SyncReturns,
                Raise, engines
  <1>6. CASE Broadcast \/ BroadcastFails
    BY <1>6 DEF LoopInv, Broadcast, BroadcastFails, trainer, engines
  <1>7. CASE TakeUpdate \/ AskEngine \/ Commit \/ UpdateFails
    BY <1>7 DEF LoopInv, TakeUpdate, AskEngine, Commit, UpdateFails, trainer, engines
  <1>8. CASE Transfer
    BY <1>8 DEF LoopInv, Transfer, trainer
  <1>9. ASSUME NEW e \in Engines, Restart(e) PROVE LoopInv'
    BY <1>9 DEF TypeOK, LoopInv, Restart, trainer, Memory
  <1> QED
    BY <1>1, <1>2, <1>3, <1>4, <1>5, <1>6, <1>7, <1>8, <1>9 DEF Next

-----------------------------------------------------------------------------
(* What has been asked of the controller.                                  *)

(* Nobody waits outside of an update.                                      *)
LEMMA NobodyWaits ==
  ASSUME RequestsInv, main # "update" \/ reply # "none"
  PROVE  requests \subseteq gone /\ \A u \in update : u.for \in gone
  BY DEF RequestsInv

LEMMA RequestsKept ==
  ASSUME TypeOK, LoopInv, RequestsInv, Next
  PROVE  RequestsInv'
  <1>1. CASE Sleep \/ Train \/ WakeWeights \/ WakeCache
    <2>1. /\ main # "update" /\ main' # "update"
          /\ UNCHANGED <<requests, gone, update, version>>
      BY <1>1 DEF Sleep, Train, WakeWeights, WakeCache, Wake, Raise, controller
    <2>2. requests \subseteq gone /\ \A u \in update : u.for \in gone
      BY <2>1, NobodyWaits
    <2> QED
      BY <2>1, <2>2 DEF RequestsInv
  <1>2. CASE StartSync
    <2>1. /\ main = "sync" /\ main' = "update" /\ reply' = "none" /\ version' = version + 1
          /\ requests' = requests \cup {version + 1} /\ UNCHANGED <<gone, update>>
      BY <1>2 DEF StartSync
    <2>2. requests \subseteq gone /\ \A u \in update : u.for \in gone
      BY <2>1, NobodyWaits
    <2>3. version \in Nat /\ gone \subseteq 1..version /\ version + 1 \notin 1..version
          /\ 1..version \subseteq 1..version' /\ version' \in 1..version'
      BY <2>1 DEF TypeOK, RequestsInv
    <2>4. \A u \in update' : u.for \in 1..version /\ u.for \notin requests
      BY <2>1 DEF RequestsInv
    <2> QED
      BY <2>1, <2>2, <2>3, <2>4 DEF RequestsInv
  <1>3. CASE UpdateAnswered \/ Join
    <2>1. /\ main # "update" \/ reply # "none"
          /\ main' # "update" /\ UNCHANGED <<requests, gone, update, version>>
      BY <1>3 DEF UpdateAnswered, Join, SyncReturns, Raise, controller
    <2>2. requests \subseteq gone /\ \A u \in update : u.for \in gone
      BY <2>1, NobodyWaits
    <2> QED
      BY <2>1, <2>2 DEF RequestsInv
  <1>4. CASE HttpTimeout
    <2>1. /\ main' # "update" /\ UNCHANGED <<requests, update, version>>
          /\ gone' = gone \cup {version} /\ version \in 1..version
      BY <1>4 DEF TypeOK, LoopInv, HttpTimeout, Raise, controller
    <2>2. requests \subseteq gone' /\ \A u \in update : u.for \in gone'
      BY <2>1 DEF RequestsInv
    <2> QED
      BY <2>1, <2>2 DEF RequestsInv
  <1>5. CASE Broadcast \/ BroadcastFails \/ Transfer
    <2>1. UNCHANGED <<requests, gone, update, version, main, reply, group>>
      BY <1>5 DEF Broadcast, BroadcastFails, Transfer, trainer, controller, engines
    <2> QED
      BY <2>1 DEF RequestsInv, Intact
  <1>6. CASE TakeUpdate
    <2> PICK v \in requests :
          /\ requests' = requests \ {v}
          /\ \/ v \notin gone /\ update' = {[for |-> v, asked |-> {}, failed |-> FALSE]}
                /\ UNCHANGED <<gone, reply>>
             \/ Answer(v, "error") /\ gone' = gone \ {v} /\ UNCHANGED update
      BY <1>6 DEF TakeUpdate
    <2>1. UNCHANGED <<main, version, group>> /\ update = {}
      BY <1>6 DEF TakeUpdate, engines
    <2>2. CASE /\ v \notin gone /\ update' = {[for |-> v, asked |-> {}, failed |-> FALSE]}
               /\ UNCHANGED <<gone, reply>>
      BY <2>1, <2>2 DEF RequestsInv, Intact
    <2>3. CASE Answer(v, "error") /\ gone' = gone \ {v} /\ UNCHANGED update
      <3>1. \A w \in requests' \ gone' :
              w = version /\ main = "update" /\ reply = "none" /\ w # v
        BY <2>3 DEF RequestsInv
      <3>2. requests' \ gone' # {} => reply' = reply
        BY <2>3, <3>1 DEF Answer
      <3> QED
        BY <2>1, <2>3, <3>1, <3>2 DEF RequestsInv
    <2> QED
      BY <2>2, <2>3
  <1>7. CASE AskEngine
    <2> PICK u \in update, e \in Engines :
          LET reaches == e \in group /\ u.for \notin gone
          IN update' = {[u EXCEPT !.asked = @ \cup {e}, !.failed = @ \/ ~reaches]}
      BY <1>7 DEF AskEngine
    <2>1. UNCHANGED <<requests, gone, version, main, reply, group>>
      BY <1>7 DEF AskEngine, trainer
    <2>2. u \in [for : Version, asked : SUBSET Engines, failed : BOOLEAN]
      BY DEF TypeOK
    <2>3. \A w \in update' :
            /\ w.for = u.for
            /\ w.failed = (u.failed \/ ~(e \in group /\ u.for \notin gone))
      BY <2>2
    <2> QED
      BY <2>1, <2>3 DEF RequestsInv, Intact
  <1>8. CASE Commit \/ UpdateFails
    <2> PICK u \in update, what \in {"updated", "error"} :
          update' = {} /\ Answer(u.for, what) /\ gone' = gone \ {u.for}
      BY <1>8 DEF Commit, UpdateFails
    <2>1. UNCHANGED <<requests, version, main, group>>
      BY <1>8 DEF Commit, UpdateFails, engines
    <2>2. u.for \notin requests
      BY DEF RequestsInv
    <2>3. \A w \in requests' \ gone' :
            w = version /\ main = "update" /\ reply = "none" /\ w # u.for
      BY <2>1, <2>2 DEF RequestsInv
    <2>4. requests' \ gone' # {} => reply' = reply
      BY <2>3 DEF Answer
    <2> QED
      BY <2>1, <2>3, <2>4 DEF RequestsInv
  <1>9. ASSUME NEW e \in Engines, Restart(e) PROVE RequestsInv'
    <2>1. UNCHANGED <<requests, gone, version, main, reply>> /\ ~Intact'
      BY <1>9 DEF Restart, trainer, Intact
    <2>2. \A w \in update' : \E u \in update : w.for = u.for
      BY <1>9 DEF TypeOK, Restart
    <2> QED
      BY <2>1, <2>2 DEF RequestsInv
  <1> QED
    BY <1>1, <1>2, <1>3, <1>4, <1>5, <1>6, <1>7, <1>8, <1>9 DEF Next, SyncWaits

-----------------------------------------------------------------------------
(* The calls of one engine.                                                *)

LEMMA CallsTyped ==
  ASSUME TypeOK, NEW e \in Engines
  PROVE  /\ calls[e] \in Seq(Version) /\ Len(calls[e]) \in Nat
         /\ DOMAIN calls[e] = 1..Len(calls[e])
  <1>1. calls[e] \in Seq(Version)
    BY DEF TypeOK
  <1> QED
    BY <1>1, LenProperties

(* An engine that is asked had not been.                                   *)
LEMMA CallAppended ==
  ASSUME TypeOK, RequestsInv, CallsInv, NEW u \in update, u.for \notin gone,
         NEW e \in Engines \ u.asked
  PROVE  /\ version \notin Pending(e) /\ u.for = version /\ version \notin requests
         /\ Append(calls[e], version) \in Seq(Version)
         /\ Len(Append(calls[e], version)) = Len(calls[e]) + 1
         /\ \A i \in 1..Len(calls[e]) : Append(calls[e], version)[i] = calls[e][i]
         /\ Append(calls[e], version)[Len(calls[e]) + 1] = version
         /\ DOMAIN Append(calls[e], version) = 1..Len(calls[e]) + 1
  <1>1. u.for = version /\ version \notin requests
    BY DEF RequestsInv
  <1>2. version \notin Pending(e)
    BY <1>1 DEF CallsInv
  <1>3. calls[e] \in Seq(Version) /\ version \in Version
    BY <1>1 DEF TypeOK
  <1> QED
    BY <1>1, <1>2, <1>3, AppendProperties, LenProperties

(* A call that is done with is the oldest.                                 *)
LEMMA CallReceived ==
  ASSUME TypeOK, CallsInv, NEW e \in Engines, calls[e] # <<>>
  PROVE  /\ Tail(calls[e]) \in Seq(Version)
         /\ Len(calls[e]) \in Nat \ {0} /\ Len(Tail(calls[e])) = Len(calls[e]) - 1
         /\ DOMAIN Tail(calls[e]) = 1..Len(calls[e]) - 1
         /\ \A i \in 1..Len(calls[e]) - 1 : Tail(calls[e])[i] = calls[e][i + 1]
         /\ Head(calls[e]) = calls[e][1]
         /\ calls[e][1] = version => Tail(calls[e]) = <<>>
  <1>1. calls[e] \in Seq(Version) /\ DOMAIN calls[e] = 1..Len(calls[e])
    BY CallsTyped
  <1>2. /\ Tail(calls[e]) \in Seq(Version)
        /\ Len(calls[e]) \in Nat \ {0} /\ Len(Tail(calls[e])) = Len(calls[e]) - 1
        /\ \A i \in 1..Len(calls[e]) - 1 : Tail(calls[e])[i] = calls[e][i + 1]
        /\ Head(calls[e]) = calls[e][1]
        /\ Len(calls[e]) = 1 => Tail(calls[e]) = <<>>
    BY <1>1, Rest
  <1>3. DOMAIN Tail(calls[e]) = 1..Len(calls[e]) - 1
    BY <1>2, LenProperties
  <1>4. ASSUME calls[e][1] = version, Len(calls[e]) # 1 PROVE FALSE
    <2>0. Len(calls[e]) \in Nat /\ Len(calls[e]) >= 2
      <3>1. Len(calls[e]) \in Nat \ {0}
        BY <1>2
      <3>2. Len(calls[e]) # 1
        BY <1>4
      <3>3. \A n \in Nat \ {0} : n # 1 => n >= 2
        OBVIOUS
      <3> QED
        BY <3>1, <3>2, <3>3
    <2>1. 1 \in DOMAIN calls[e] /\ 2 \in DOMAIN calls[e] /\ 1 < 2
      BY <1>1, <2>0
    <2>2. calls[e][1] < calls[e][2] /\ calls[e][2] \in 1..version
      BY <2>1 DEF CallsInv
    <2>3. version \in Nat
      BY DEF TypeOK
    <2> QED
      BY <1>4, <2>2, <2>3
  <1> QED
    BY <1>2, <1>3, <1>4

LEMMA CallsKept ==
  ASSUME TypeOK, RequestsInv, CallsInv, Next
  PROVE  CallsInv'
  <1>1. CASE \/ Sleep \/ Train \/ WakeWeights \/ WakeCache \/ SyncWaits
             \/ Broadcast \/ BroadcastFails
    <2>1. UNCHANGED <<calls, version, requests, update>>
      BY <1>1 DEF Sleep, Train, WakeWeights, WakeCache, Wake, SyncWaits, UpdateAnswered,
                  HttpTimeout, Join, Broadcast, BroadcastFails, trainer, controller, engines
    <2> QED
      BY <2>1 DEF CallsInv, Pending
  <1>2. CASE StartSync
    <2>1. /\ version' = version + 1 /\ requests' = requests \cup {version + 1}
          /\ UNCHANGED <<calls, update>> /\ version \in Nat
      BY <1>2 DEF StartSync, engines, TypeOK
    <2>2. \A e \in Engines : \A i \in DOMAIN calls[e] :
            calls[e][i] \in 1..version' /\ calls[e][i] # version'
      BY <2>1 DEF CallsInv
    <2> QED
      BY <2>1, <2>2 DEF CallsInv, Pending
  <1>3. CASE TakeUpdate
    <2> PICK v \in requests :
          /\ requests' = requests \ {v}
          /\ \/ update' = {[for |-> v, asked |-> {}, failed |-> FALSE]}
             \/ UNCHANGED update
      BY <1>3 DEF TakeUpdate
    <2>1. UNCHANGED <<version, calls>> /\ update = {}
      BY <1>3 DEF TakeUpdate, engines
    <2>2. \A u \in update' : u.for = v
      BY <2>1
    <2> QED
      BY <2>1, <2>2 DEF CallsInv, Pending
  <1>4. CASE AskEngine
    <2> PICK u \in update, e \in Engines :
          /\ e \notin u.asked
          /\ LET reaches == e \in group /\ u.for \notin gone
             IN /\ update' = {[u EXCEPT !.asked = @ \cup {e}, !.failed = @ \/ ~reaches]}
                /\ calls' = IF reaches THEN [calls EXCEPT ![e] = Append(@, u.for)] ELSE calls
      BY <1>4 DEF AskEngine
    <2>1. UNCHANGED <<version, requests>>
      BY <1>4 DEF AskEngine, trainer
    <2>2. \A w \in update' : w.for = u.for /\ w.asked = u.asked \cup {e}
      BY DEF TypeOK
    <2>3. CASE ~(e \in group /\ u.for \notin gone)
      <3>1. calls' = calls
        BY <2>3
      <3> QED
        BY <2>1, <2>2, <3>1 DEF CallsInv, Pending
    <2>4. CASE e \in group /\ u.for \notin gone
      <3>1. calls' = [calls EXCEPT ![e] = Append(@, version)] /\ u.for = version
            /\ version \notin requests
        BY <2>4, CallAppended
      <3>2. /\ calls'[e] = Append(calls[e], version)
            /\ \A f \in Engines \ {e} : calls'[f] = calls[f]
        BY <3>1 DEF TypeOK
      <3>3. \A f \in Engines \ {e} :
              /\ \A i \in DOMAIN calls'[f] : calls'[f][i] \in 1..version
              /\ \A i, j \in DOMAIN calls'[f] : i < j => calls'[f][i] < calls'[f][j]
              /\ version \in Pending(f)' =>
                   /\ version \notin requests
                   /\ \A w \in update' : w.for = version => f \in w.asked
        BY <2>1, <2>2, <3>1, <3>2 DEF CallsInv, Pending
      <3>4. /\ \A i \in DOMAIN calls'[e] : calls'[e][i] \in 1..version
            /\ \A i, j \in DOMAIN calls'[e] : i < j => calls'[e][i] < calls'[e][j]
        <4> DEFINE n == Len(calls[e])
        <4>1. n \in Nat /\ DOMAIN calls[e] = 1..n /\ version \in 1..version
          BY <3>1, CallsTyped DEF RequestsInv
        <4>2. /\ DOMAIN calls'[e] = 1..n + 1 /\ calls'[e][n + 1] = version
              /\ \A i \in 1..n : calls'[e][i] = calls[e][i]
          BY <2>4, <3>2, CallAppended
        <4>3. \A i \in 1..n : calls[e][i] \in 1..version /\ calls[e][i] # version
          <5>1. version \notin Pending(e)
            BY <2>4, CallAppended
          <5> QED
            BY <4>1, <5>1 DEF CallsInv, Pending
        <4>4. \A i, j \in 1..n : i < j => calls[e][i] < calls[e][j]
          BY <4>1 DEF CallsInv
        <4> HIDE DEF n
        <4>5. version \in Nat
          BY DEF TypeOK
        <4>6. \A i \in 1..n + 1 : i \in 1..n \/ i = n + 1
          BY <4>1
        <4>7. \A i \in 1..n : calls[e][i] < version
          BY <4>3, <4>5
        <4>8. \A i \in DOMAIN calls'[e] : calls'[e][i] \in 1..version
          BY <4>1, <4>2, <4>3, <4>6
        <4>9. ASSUME NEW i \in 1..n + 1, NEW j \in 1..n + 1, i < j
              PROVE  calls'[e][i] < calls'[e][j]
          <5>1. i \in 1..n
            BY <4>1, <4>9
          <5> QED
            BY <4>2, <4>4, <4>6, <4>7, <4>9, <5>1
        <4> QED
          BY <4>2, <4>8, <4>9
      <3>5. version \notin requests /\ \A w \in update' : e \in w.asked
        BY <2>2, <3>1
      <3> QED
        BY <2>1, <3>3, <3>4, <3>5 DEF CallsInv
    <2> QED
      BY <2>3, <2>4
  <1>5. CASE Commit \/ UpdateFails
    BY <1>5 DEF CallsInv, Pending, Commit, UpdateFails, engines
  <1>6. CASE Transfer
    <2>1. UNCHANGED <<version, requests, update>>
      BY <1>6 DEF Transfer, trainer, controller
    <2> SUFFICES ASSUME NEW e \in Engines
                 PROVE  /\ \A i \in DOMAIN calls'[e] : calls'[e][i] \in 1..version
                        /\ \A i, j \in DOMAIN calls'[e] : i < j => calls'[e][i] < calls'[e][j]
                        /\ Pending(e)' \subseteq Pending(e)
      BY <2>1 DEF CallsInv
    <2>2. calls[e] # <<>> /\ calls'[e] \in {calls[e], Tail(calls[e])}
      BY <1>6 DEF Transfer
    <2>3. CASE calls'[e] = calls[e]
      BY <2>3 DEF CallsInv, Pending
    <2>4. CASE calls'[e] = Tail(calls[e])
      <3>1. /\ DOMAIN calls'[e] = 1..Len(calls[e]) - 1 /\ Len(calls[e]) \in Nat
            /\ DOMAIN calls[e] = 1..Len(calls[e])
            /\ \A i \in 1..Len(calls[e]) - 1 : calls'[e][i] = calls[e][i + 1]
        BY <2>2, <2>4, CallReceived, CallsTyped
      <3>2. \A i \in 1..Len(calls[e]) - 1 : i + 1 \in 1..Len(calls[e])
        BY <3>1
      <3>3. \A i \in DOMAIN calls'[e] : calls'[e][i] \in 1..version
        BY <3>1, <3>2 DEF CallsInv
      <3>4. ASSUME NEW i \in DOMAIN calls'[e], NEW j \in DOMAIN calls'[e], i < j
            PROVE  calls'[e][i] < calls'[e][j]
        <4>1. i + 1 \in DOMAIN calls[e] /\ j + 1 \in DOMAIN calls[e] /\ i + 1 < j + 1
          BY <3>1, <3>2, <3>4
        <4>2. calls'[e][i] = calls[e][i + 1] /\ calls'[e][j] = calls[e][j + 1]
          BY <3>1
        <4> QED
          BY <4>1, <4>2 DEF CallsInv
      <3>5. Pending(e)' \subseteq Pending(e)
        BY <3>1, <3>2 DEF Pending
      <3> QED
        BY <3>3, <3>4, <3>5
    <2> QED
      BY <2>2, <2>3, <2>4
  <1>7. ASSUME NEW e \in Engines, Restart(e) PROVE CallsInv'
    <2>1. UNCHANGED <<version, requests>>
      BY <1>7 DEF Restart, trainer
    <2>2. \A w \in update' : \E u \in update : w.for = u.for /\ w.asked = u.asked
      BY <1>7 DEF TypeOK, Restart
    <2>3. \A f \in Engines : calls'[f] = IF f = e THEN <<>> ELSE calls[f]
      BY <1>7 DEF TypeOK, Restart
    <2> QED
      BY <2>1, <2>2, <2>3 DEF CallsInv, Pending
  <1> QED
    BY <1>1, <1>2, <1>3, <1>4, <1>5, <1>6, <1>7 DEF Next

-----------------------------------------------------------------------------
(* The collectives.                                                        *)

LEMMA SendsTyped ==
  ASSUME TypeOK
  PROVE  /\ sends \in Seq(Item) /\ Len(sends) \in Nat /\ DOMAIN sends = 1..Len(sends)
         /\ sends # <<>> => Len(sends) \in Nat \ {0}
         /\ \A i \in 1..Len(sends) : sends[i] \in Item
  <1>1. sends \in Seq(Item)
    BY DEF TypeOK, Item, Load
  <1> QED
    BY <1>1, LenProperties, EmptySeq, ElementOfSeq

LEMMA BroadcastQueues ==
  ASSUME TypeOK, Broadcast
  PROVE  \E t \in asleep :
           /\ asleep' = asleep \ {t} /\ t \in [by : Version, load : Load]
           /\ Len(sends') = Len(sends) + Layers /\ Len(sends) \in Nat
           /\ sends' # <<>> /\ DOMAIN sends' = 1..Len(sends) + Layers
           /\ \A i \in 1..Len(sends) : sends'[i] = sends[i]
           /\ \A l \in Layer :
                sends'[Len(sends) + l] = [by |-> t.by, layer |-> l, load |-> t.load]
           /\ \A i \in DOMAIN sends' :
                i \in 1..Len(sends) \/ \E l \in Layer : i = Len(sends) + l
  <1> PICK t \in asleep :
        /\ asleep' = asleep \ {t}
        /\ sends' = sends \o [l \in Layer |-> [by |-> t.by, layer |-> l, load |-> t.load]]
    BY DEF Broadcast
  <1>1. t \in [by : Version, load : Load]
    BY DEF TypeOK, Load
  <1>2. /\ sends' \in Seq(Item) /\ Len(sends') = Len(sends) + Layers /\ Len(sends) \in Nat
        /\ \A i \in 1..Len(sends) : sends'[i] = sends[i]
        /\ \A l \in Layer :
             sends'[Len(sends) + l] = [by |-> t.by, layer |-> l, load |-> t.load]
    BY <1>1, SendsTyped, BlockQueued
  <1>3. DOMAIN sends' = 1..Len(sends) + Layers
    BY <1>2, LenProperties
  <1>4. sends' # <<>>
    BY <1>2, Sizes, EmptySeq
  <1>5. \A i \in 1..Len(sends) + Layers :
          i \in 1..Len(sends) \/ \E l \in Layer : i = Len(sends) + l
    <2> TAKE i \in 1..Len(sends) + Layers
    <2>1. CASE i <= Len(sends)
      BY <2>1, <1>2
    <2>2. CASE ~(i <= Len(sends))
      <3>1. i - Len(sends) \in Layer /\ i = Len(sends) + (i - Len(sends))
        BY <2>2, <1>2, Sizes DEF Layer
      <3> QED
        BY <3>1
    <2> QED
      BY <2>1, <2>2
  <1> QED
    BY <1>1, <1>2, <1>3, <1>4, <1>5

(* A transfer takes the first collective; the engines are all at its       *)
(* parameter, and what follows it is the next one or the first of another  *)
(* model.                                                                  *)
LEMMA TransferTakes ==
  ASSUME TypeOK, SendsInv, Transfer
  PROVE  /\ Intact /\ sends # <<>> /\ Head(sends) = sends[1] /\ sends[1] \in Item
         /\ Len(sends) \in Nat \ {0} /\ sends' = Tail(sends) /\ Len(sends') = Len(sends) - 1
         /\ DOMAIN sends' = 1..Len(sends) - 1
         /\ \A i \in 1..Len(sends) - 1 : sends'[i] = sends[i + 1] /\ i + 1 \in DOMAIN sends
         /\ Len(sends) = 1 <=> sends' = <<>>
         /\ sends[Len(sends)].layer = Layers
         /\ \A e \in Engines :
              /\ calls[e] # <<>> /\ received[e] \in 0..Layers - 1
              /\ sends[1].layer = received[e] + 1
              /\ received'[e] = IF received[e] + 1 = Layers THEN 0 ELSE received[e] + 1
              /\ calls'[e] = IF received[e] + 1 = Layers THEN Tail(calls[e]) ELSE calls[e]
  <1>1. Intact /\ sends # <<>> /\ sends' = Tail(sends) /\ \A e \in Engines : calls[e] # <<>>
    BY DEF Transfer, Intact
  <1>2. /\ Head(sends) = sends[1] /\ sends[1] \in Item
        /\ Len(sends) \in Nat \ {0} /\ Len(sends') = Len(sends) - 1 /\ sends' \in Seq(Item)
        /\ \A i \in 1..Len(sends) - 1 : sends'[i] = sends[i + 1]
        /\ Len(sends) = 1 <=> sends' = <<>>
    BY <1>1, SendsTyped, Rest
  <1>3. DOMAIN sends' = 1..Len(sends) - 1 /\ DOMAIN sends = 1..Len(sends)
    BY <1>2, SendsTyped, LenProperties
  <1>4. \A i \in 1..Len(sends) - 1 : i + 1 \in DOMAIN sends
    BY <1>2, <1>3
  <1>5. \A e \in Engines :
          /\ received[e] \in 0..Layers - 1
          /\ received'[e] = IF received[e] + 1 = Layers THEN 0 ELSE received[e] + 1
          /\ calls'[e] = IF received[e] + 1 = Layers THEN Tail(calls[e]) ELSE calls[e]
    BY DEF TypeOK, Transfer
  <1>6. /\ sends[Len(sends)].layer = Layers
        /\ \A e \in Engines : sends[1].layer = received[e] + 1
    BY <1>1 DEF SendsInv
  <1> QED
    BY <1>1, <1>2, <1>3, <1>4, <1>5, <1>6

LEMMA SendsKept ==
  ASSUME TypeOK, SendsInv, Next
  PROVE  SendsInv'
  <1>1. CASE \/ Sleep \/ Train \/ WakeWeights \/ WakeCache \/ StartSync \/ SyncWaits
             \/ BroadcastFails \/ TakeUpdate \/ Commit \/ UpdateFails
    <2>1. UNCHANGED <<group, received, calls, sends>>
      BY <1>1 DEF Sleep, Train, WakeWeights, WakeCache, Wake, StartSync, SyncWaits,
                  UpdateAnswered, HttpTimeout, Join, BroadcastFails, TakeUpdate, Commit, UpdateFails,
                  threads, engines
    <2> QED
      BY <2>1 DEF SendsInv, Intact
  <1>2. CASE Broadcast
    <2>1. UNCHANGED <<group, received, calls>>
      BY <1>2 DEF Broadcast, engines
    <2> PICK t \in asleep :
           /\ Len(sends') = Len(sends) + Layers /\ Len(sends) \in Nat
           /\ sends' # <<>> /\ DOMAIN sends' = 1..Len(sends) + Layers
           /\ \A i \in 1..Len(sends) : sends'[i] = sends[i]
           /\ \A l \in Layer :
                sends'[Len(sends) + l] = [by |-> t.by, layer |-> l, load |-> t.load]
           /\ \A i \in DOMAIN sends' :
                i \in 1..Len(sends) \/ \E l \in Layer : i = Len(sends) + l
      BY <1>2, BroadcastQueues
    <2> SUFFICES ASSUME Intact
                 PROVE  /\ sends'[Len(sends')].layer = Layers
                        /\ \A e \in Engines : sends'[1].layer = received[e] + 1
                        /\ \A i \in 1..Len(sends') - 1 :
                             IF sends'[i].layer = Layers
                             THEN sends'[i + 1].layer = 1
                             ELSE /\ sends'[i + 1].layer = sends'[i].layer + 1
                                  /\ sends'[i + 1].load = sends'[i].load
      BY <2>1 DEF SendsInv, Intact
    <2>2. 1 \in Layer /\ Layers \in Layer /\ Layers \in Nat
      BY Sizes DEF Layer
    <2>3. \A l \in Layer :
            sends'[Len(sends) + l].layer = l /\ sends'[Len(sends) + l].load = t.load
      <3> TAKE l \in Layer
      <3>1. sends'[Len(sends) + l] = [by |-> t.by, layer |-> l, load |-> t.load]
        OBVIOUS
      <3> QED
        BY <3>1
    <2>4. sends'[Len(sends')].layer = Layers
      BY <2>2, <2>3
    <2>5. \A e \in Engines : sends'[1].layer = received[e] + 1
      <3>1. CASE sends = <<>>
        <4>1. Len(sends) = 0 /\ sends'[1].layer = 1
          BY <3>1, <2>2, <2>3, EmptySeq
        <4>2. \A e \in Engines : received[e] = 0
          BY <3>1 DEF TypeOK, SendsInv
        <4> QED
          BY <4>1, <4>2
      <3>2. CASE sends # <<>>
        <4>1. 1 \in 1..Len(sends)
          BY <3>2, SendsTyped
        <4> QED
          BY <3>2, <4>1 DEF SendsInv
      <3> QED
        BY <3>1, <3>2
    <2>6. ASSUME NEW i \in 1..Len(sends') - 1
          PROVE  IF sends'[i].layer = Layers
                 THEN sends'[i + 1].layer = 1
                 ELSE /\ sends'[i + 1].layer = sends'[i].layer + 1
                      /\ sends'[i + 1].load = sends'[i].load
      <3>1. CASE i < Len(sends)
        <4>1. i \in 1..Len(sends) - 1 /\ i \in 1..Len(sends) /\ i + 1 \in 1..Len(sends)
          BY <3>1
        <4>2. sends'[i] = sends[i] /\ sends'[i + 1] = sends[i + 1]
          BY <4>1
        <4>3. IF sends[i].layer = Layers
              THEN sends[i + 1].layer = 1
              ELSE /\ sends[i + 1].layer = sends[i].layer + 1
                   /\ sends[i + 1].load = sends[i].load
          BY <4>1 DEF SendsInv
        <4> QED
          BY <4>2, <4>3
      <3>2. CASE i = Len(sends)
        <4>1. i \in 1..Len(sends) /\ sends # <<>>
          BY <3>2, EmptySeq
        <4>2. sends'[i].layer = Layers /\ sends'[i + 1].layer = 1
          BY <3>2, <4>1, <2>2, <2>3 DEF SendsInv
        <4> QED
          BY <4>2
      <3>3. CASE i > Len(sends)
        <4>1. /\ i - Len(sends) \in Layer /\ i - Len(sends) + 1 \in Layer
              /\ i - Len(sends) # Layers
              /\ i = Len(sends) + (i - Len(sends)) /\ i + 1 = Len(sends) + (i - Len(sends) + 1)
          BY <3>3, <2>2 DEF Layer
        <4>2. /\ sends'[i].layer = i - Len(sends) /\ sends'[i].load = t.load
              /\ sends'[i + 1].layer = i - Len(sends) + 1 /\ sends'[i + 1].load = t.load
          BY <4>1, <2>3
        <4> QED
          BY <4>1, <4>2
      <3> QED
        BY <3>1, <3>2, <3>3
    <2> QED
      BY <2>4, <2>5, <2>6
  <1>3. CASE AskEngine
    <2> PICK u \in update, e \in Engines :
          LET reaches == e \in group /\ u.for \notin gone
          IN calls' = IF reaches THEN [calls EXCEPT ![e] = Append(@, u.for)] ELSE calls
      BY <1>3 DEF AskEngine
    <2>1. UNCHANGED <<group, received, sends>>
      BY <1>3 DEF AskEngine, threads
    <2>2. calls[e] \in Seq(Version) /\ u.for \in Version
      BY DEF TypeOK
    <2>3. \A f \in Engines : calls[f] # <<>> => calls'[f] # <<>>
      BY <2>2, AppendProperties DEF TypeOK
    <2> QED
      BY <2>1, <2>3 DEF SendsInv, Intact
  <1>4. CASE Transfer
    <2>1. /\ sends # <<>> /\ Len(sends) \in Nat \ {0} /\ Len(sends') = Len(sends) - 1
          /\ \A i \in 1..Len(sends) - 1 : sends'[i] = sends[i + 1] /\ i + 1 \in DOMAIN sends
          /\ Len(sends) = 1 <=> sends' = <<>>
          /\ sends[Len(sends)].layer = Layers
          /\ \A e \in Engines :
               /\ calls[e] # <<>> /\ received[e] \in 0..Layers - 1
               /\ sends[1].layer = received[e] + 1
               /\ received'[e] = IF received[e] + 1 = Layers THEN 0 ELSE received[e] + 1
               /\ calls'[e] = IF received[e] + 1 = Layers THEN Tail(calls[e]) ELSE calls[e]
      BY <1>4, TransferTakes
    <2>2. /\ \A e, f \in Engines : received[e] = received[f]
          /\ \A i \in 1..Len(sends) - 1 :
               IF sends[i].layer = Layers
               THEN sends[i + 1].layer = 1
               ELSE /\ sends[i + 1].layer = sends[i].layer + 1
                    /\ sends[i + 1].load = sends[i].load
      BY <1>4, TransferTakes DEF SendsInv
    <2>3. \A e, f \in Engines : received'[e] = received'[f]
      BY <2>1, <2>2
    <2>4. ASSUME NEW e \in Engines, received'[e] > 0
          PROVE  calls'[e] # <<>> /\ sends' # <<>>
      <3>1. received[e] + 1 # Layers /\ calls'[e] = calls[e]
        BY <2>1, <2>4
      <3>2. Len(sends) # 1
        BY <2>1, <3>1
      <3> QED
        BY <2>1, <3>1, <3>2
    <2>5. ASSUME sends' # <<>>
          PROVE  /\ sends'[Len(sends')].layer = Layers
                 /\ \A e \in Engines : sends'[1].layer = received'[e] + 1
      <3>1. Len(sends) - 1 \in 1..Len(sends) - 1 /\ 1 \in 1..Len(sends) - 1
        BY <2>1, <2>5
      <3>2. sends'[Len(sends')] = sends[Len(sends)] /\ sends'[1] = sends[2]
        BY <2>1, <3>1
      <3>3. \A e \in Engines : sends[2].layer = received'[e] + 1
        <4> TAKE e \in Engines
        <4>1. IF sends[1].layer = Layers THEN sends[2].layer = 1
              ELSE sends[2].layer = sends[1].layer + 1
          BY <2>2, <3>1
        <4> QED
          BY <2>1, <4>1
      <3> QED
        BY <2>1, <3>2, <3>3
    <2>6. ASSUME NEW i \in 1..Len(sends') - 1
          PROVE  IF sends'[i].layer = Layers
                 THEN sends'[i + 1].layer = 1
                 ELSE /\ sends'[i + 1].layer = sends'[i].layer + 1
                      /\ sends'[i + 1].load = sends'[i].load
      <3>1. i \in 1..Len(sends) - 1 /\ i + 1 \in 1..Len(sends) - 1
        BY <2>1
      <3>2. sends'[i] = sends[i + 1] /\ sends'[i + 1] = sends[i + 1 + 1]
        BY <2>1, <3>1
      <3> QED
        BY <2>2, <3>1, <3>2
    <2> QED
      BY <2>3, <2>4, <2>5, <2>6 DEF SendsInv
  <1>5. ASSUME NEW e \in Engines, Restart(e) PROVE SendsInv'
    BY <1>5 DEF Restart, SendsInv, Intact
  <1> QED
    BY <1>1, <1>2, <1>3, <1>4, <1>5 DEF Next

-----------------------------------------------------------------------------
(* Before anything is left behind.                                         *)

(* How the calls and the update look after an engine was asked.            *)
LEMMA Asked ==
  ASSUME TypeOK, RequestsInv, CallsInv, AskEngine, Intact
  PROVE  \E u \in update, e \in Engines :
           /\ e \notin u.asked
           /\ UNCHANGED <<main, step, weights, version, load, reply, threads, requests, gone,
                          poolVersion, group, received, held, mapped, history>>
           /\ \A w \in update' : w.for = u.for /\ w.asked = u.asked \cup {e}
           /\ u.for \in gone => calls' = calls
           /\ u.for \notin gone =>
                /\ u.for = version /\ version \notin Pending(e) /\ version \in Pending(e)'
                /\ calls'[e] # <<>> /\ (calls[e] # <<>> => calls'[e][1] = calls[e][1])
           /\ \A f \in Engines \ {e} : calls'[f] = calls[f]
  <1> PICK u \in update, e \in Engines :
        /\ e \notin u.asked
        /\ LET reaches == e \in group /\ u.for \notin gone
           IN /\ update' = {[u EXCEPT !.asked = @ \cup {e}, !.failed = @ \/ ~reaches]}
              /\ calls' = IF reaches THEN [calls EXCEPT ![e] = Append(@, u.for)] ELSE calls
        /\ UNCHANGED <<trainer, threads, requests, gone, poolVersion, group, received, held,
                       mapped, history>>
    BY DEF AskEngine
  <1>1. \A w \in update' : w.for = u.for /\ w.asked = u.asked \cup {e}
    BY DEF TypeOK
  <1>2. ASSUME u.for \notin gone
        PROVE  /\ u.for = version /\ version \notin Pending(e) /\ version \in Pending(e)'
               /\ calls'[e] # <<>> /\ (calls[e] # <<>> => calls'[e][1] = calls[e][1])
               /\ \A f \in Engines \ {e} : calls'[f] = calls[f]
    <2>1. e \in group
      BY DEF Intact
    <2>2. u.for = version /\ version \notin Pending(e) /\ version \in Version
      BY <1>2, CallAppended DEF TypeOK
    <2>3. /\ calls'[e] = Append(calls[e], version)
          /\ \A f \in Engines \ {e} : calls'[f] = calls[f]
      BY <1>2, <2>1, <2>2 DEF TypeOK
    <2>4. /\ calls'[e][Len(calls[e]) + 1] = version
          /\ Len(calls[e]) + 1 \in DOMAIN calls'[e]
          /\ \A i \in 1..Len(calls[e]) : calls'[e][i] = calls[e][i]
      BY <1>2, <2>3, CallAppended, CallsTyped
    <2>5. version \in Pending(e)'
      BY <2>4 DEF Pending
    <2>6. calls'[e] # <<>>
      BY <2>2, <2>3, CallsTyped, AppendProperties
    <2>7. calls[e] # <<>> => 1 \in 1..Len(calls[e])
      BY CallsTyped, EmptySeq
    <2> QED
      BY <2>2, <2>3, <2>4, <2>5, <2>6, <2>7
  <1>3. u.for \in gone => calls' = calls
    OBVIOUS
  <1> QED
    BY <1>1, <1>2, <1>3 DEF trainer

LEMMA FirstKept ==
  ASSUME TypeOK, LoopInv, RequestsInv, CallsInv, SendsInv, FirstInv, Next
  PROVE  FirstInv'
  <1> SUFFICES ASSUME Intact', ~left' PROVE FirstInv'
    BY DEF FirstInv
  <1>0. Intact /\ ~left
    BY DEF Next, Sleep, Train, WakeWeights, WakeCache, Wake, Raise, StartSync, SyncWaits,
           UpdateAnswered, HttpTimeout, Join, SyncReturns, Broadcast, BroadcastFails,
           TakeUpdate, AskEngine, Commit, UpdateFails, Transfer, Restart, Intact, history,
           engines, TypeOK
  <1>1. CASE Sleep \/ Train \/ WakeWeights \/ WakeCache
    <2>1. /\ main # "update" /\ main' # "update"
          /\ UNCHANGED <<asleep, sends, version, load, update, gone, calls>>
      BY <1>1 DEF Sleep, Train, WakeWeights, WakeCache, Wake, Raise, threads, controller, engines
    <2> QED
      BY <1>0, <2>1 DEF FirstInv, Pending
  <1>2. CASE StartSync
    <2>1. /\ main = "sync" /\ main' = "update" /\ reply' = "none"
          /\ asleep' = asleep \cup {[by |-> version', load |-> load']}
          /\ UNCHANGED <<sends, update, gone>>
      BY <1>2 DEF StartSync
    <2>2. asleep = {} /\ sends = <<>>
      BY <1>0, <2>1 DEF FirstInv
    <2>3. \A u \in update : u.for \in gone
      BY <2>1, NobodyWaits
    <2>4. Len(sends) = 0 /\ DOMAIN sends = {}
      BY <2>2, SendsTyped
    <2> QED
      BY <2>1, <2>2, <2>3, <2>4 DEF FirstInv
  <1>3. CASE UpdateAnswered \/ Join
    <2>1. /\ ~(main = "update" /\ reply # "updated") /\ main' # "update"
          /\ UNCHANGED <<asleep, sends, version, load, update, gone, calls, reply>>
      BY <1>3 DEF UpdateAnswered, Join, SyncReturns, Raise, threads, controller, engines
    <2> QED
      BY <1>0, <2>1 DEF FirstInv, Pending
  <1>4. CASE HttpTimeout
    BY <1>4 DEF HttpTimeout, Raise
  <1>5. CASE Broadcast
    <2> PICK t \in asleep :
           /\ asleep' = asleep \ {t}
           /\ Len(sends') = Len(sends) + Layers /\ Len(sends) \in Nat
           /\ DOMAIN sends' = 1..Len(sends) + Layers
           /\ \A l \in Layer :
                sends'[Len(sends) + l] = [by |-> t.by, layer |-> l, load |-> t.load]
      BY <1>5, BroadcastQueues
    <2>1. UNCHANGED <<main, version, load, reply, update, gone, calls>>
      BY <1>5 DEF Broadcast, trainer, controller, engines
    <2>2. asleep = {t} /\ t.load = load /\ sends = <<>>
      BY <1>0 DEF FirstInv
    <2>3. Len(sends) = 0
      BY <2>2, SendsTyped
    <2>4. main = "update" /\ reply # "updated"
      BY <1>0, <2>2 DEF FirstInv
    <2>5. \A u \in update : \A e \in u.asked : ~(u.for \notin gone /\ version \notin Pending(e))
      BY <1>0, <2>2 DEF FirstInv
    <2>6. \A i \in DOMAIN sends' :
            sends'[i].load = load /\ (i < Len(sends') => sends'[i].layer # Layers)
      <3> TAKE i \in DOMAIN sends'
      <3>1. i \in Layer /\ i = Len(sends) + i /\ (i < Len(sends') => i # Layers)
        BY <2>3, Sizes DEF Layer
      <3>2. sends'[i] = [by |-> t.by, layer |-> i, load |-> t.load]
        BY <3>1
      <3> QED
        BY <2>2, <3>1, <3>2
    <2> QED
      BY <2>1, <2>2, <2>4, <2>5, <2>6 DEF FirstInv, Pending
  <1>6. CASE BroadcastFails
    <2>1. UNCHANGED <<main, version, load, reply, update, gone, calls, sends>>
      BY <1>6 DEF BroadcastFails, trainer, controller, engines
    <2>2. asleep # {} /\ asleep' = {}
      BY <1>0, <1>6 DEF BroadcastFails, FirstInv
    <2> QED
      BY <1>0, <2>1, <2>2 DEF FirstInv, Pending
  <1>7. CASE TakeUpdate
    <2>1. /\ UNCHANGED <<main, version, load, asleep, sends, calls>>
          /\ reply' \in {reply, "error"} /\ update = {} /\ \A u \in update' : u.asked = {}
      BY <1>7 DEF TakeUpdate, threads, engines, Answer
    <2> QED
      BY <1>0, <2>1 DEF FirstInv
  <1>8. CASE AskEngine
    <2> PICK u \in update, e \in Engines :
           /\ UNCHANGED <<main, step, weights, version, load, reply, threads, requests, gone,
                          poolVersion, group, received, held, mapped, history>>
           /\ \A w \in update' : w.for = u.for /\ w.asked = u.asked \cup {e}
           /\ u.for \notin gone => version \in Pending(e)'
           /\ \A f \in Engines \ {e} : calls'[f] = calls[f]
      BY <1>0, <1>8, Asked
    <2>1. \A w \in update' : \A f \in w.asked :
            w.for \notin gone /\ version \notin Pending(f)' => asleep = {} /\ sends = <<>>
      <3> SUFFICES ASSUME NEW w \in update', NEW f \in w.asked, w.for \notin gone,
                          version \notin Pending(f)'
                   PROVE  asleep = {} /\ sends = <<>>
        OBVIOUS
      <3>1. f # e /\ f \in u.asked /\ u.for \notin gone
        OBVIOUS
      <3>2. f \in Engines
        BY <3>1 DEF TypeOK
      <3>3. version \notin Pending(f)
        BY <3>1, <3>2 DEF Pending
      <3> QED
        BY <1>0, <3>1, <3>3 DEF FirstInv
    <2> QED
      BY <1>0, <2>1 DEF FirstInv, threads
  <1>9. CASE Commit
    <2> PICK u \in update :
          /\ u.asked = Engines /\ AllReceived(u)
          /\ update' = {} /\ Answer(u.for, "updated")
      BY <1>9 DEF Commit
    <2>1. UNCHANGED <<main, version, load, asleep, sends>>
      BY <1>9 DEF Commit, threads
    <2>2. ASSUME main = "update", version = u.for PROVE asleep = {} /\ sends = <<>>
      <3>1. u.for \notin gone
        BY <2>2 DEF RequestsInv
      <3>2. PICK e \in Engines : version \notin Pending(e)
        BY <2>2, EnginesAssumption DEF AllReceived
      <3> QED
        BY <1>0, <3>1, <3>2 DEF FirstInv
    <2> QED
      BY <1>0, <2>1, <2>2 DEF FirstInv, Answer
  <1>10. CASE UpdateFails
    <2>1. /\ UNCHANGED <<main, version, load, asleep, sends>>
          /\ reply' \in {reply, "error"} /\ update' = {}
      BY <1>10 DEF UpdateFails, threads, Answer
    <2> QED
      BY <1>0, <2>1 DEF FirstInv
  <1>11. CASE Transfer
    <2>1. /\ sends # <<>> /\ Len(sends) \in Nat \ {0} /\ Len(sends') = Len(sends) - 1
          /\ DOMAIN sends' = 1..Len(sends) - 1
          /\ \A i \in 1..Len(sends) - 1 : sends'[i] = sends[i + 1] /\ i + 1 \in DOMAIN sends
          /\ Len(sends) = 1 => sends' = <<>>
          /\ \A e \in Engines :
               /\ sends[1].layer = received[e] + 1
               /\ received[e] + 1 # Layers => calls'[e] = calls[e]
      BY <1>11, TransferTakes
    <2>2. UNCHANGED <<main, version, load, reply, asleep, update, gone>>
      BY <1>11 DEF Transfer, trainer, controller
    <2>3. asleep = {} /\ main = "update" /\ reply # "updated"
      BY <1>0, <2>1 DEF FirstInv
    <2>4. \A i \in DOMAIN sends' :
            sends'[i].load = load /\ (i < Len(sends') => sends'[i].layer # Layers)
      <3> TAKE i \in DOMAIN sends'
      <3>1. i + 1 \in DOMAIN sends /\ sends'[i] = sends[i + 1]
            /\ (i < Len(sends') => i + 1 < Len(sends))
        BY <2>1
      <3> QED
        BY <1>0, <3>1 DEF FirstInv
    <2>5. ASSUME NEW u \in update, NEW e \in u.asked, u.for \notin gone, version \notin Pending(e)'
          PROVE  sends' = <<>>
      <3>1. e \in Engines
        BY DEF TypeOK
      <3>2. version \in Pending(e)
        BY <1>0, <2>1, <2>5 DEF FirstInv
      <3>3. received[e] + 1 = Layers
        BY <2>1, <2>5, <3>1, <3>2 DEF Pending
      <3>4. sends[1].layer = Layers /\ 1 \in DOMAIN sends
        BY <2>1, <3>1, <3>3, SendsTyped
      <3>5. ~(1 < Len(sends))
        BY <1>0, <3>4 DEF FirstInv
      <3> QED
        BY <2>1, <3>5
    <2> QED
      BY <2>2, <2>3, <2>4, <2>5 DEF FirstInv
  <1>12. ASSUME NEW e \in Engines, Restart(e) PROVE FirstInv'
    BY <1>12 DEF Restart, Intact
  <1> QED
    BY <1>1, <1>2, <1>3, <1>4, <1>5, <1>6, <1>7, <1>8, <1>9, <1>10, <1>11, <1>12
    DEF Next, SyncWaits

-----------------------------------------------------------------------------
(* Copies.                                                                 *)

LEMMA LoadsKept ==
  ASSUME TypeOK, LoopInv, RequestsInv, CallsInv, SendsInv, FirstInv, LoadsInv, Next
  PROVE  LoadsInv'
  <1> SUFFICES ASSUME Intact', left', ~displaced' PROVE LoadsInv'
    BY DEF LoadsInv
  <1>0. Intact /\ ~displaced
    BY DEF Next, Sleep, Train, WakeWeights, WakeCache, Wake, Raise, StartSync, SyncWaits,
           UpdateAnswered, HttpTimeout, Join, SyncReturns, Broadcast, BroadcastFails,
           TakeUpdate, AskEngine, Commit, UpdateFails, Transfer, Restart, Intact, history,
           engines, TypeOK
  <1>1. CASE \/ Sleep \/ Train \/ WakeWeights \/ WakeCache
             \/ TakeUpdate \/ AskEngine \/ Commit \/ UpdateFails
    <2>1. UNCHANGED <<asleep, sends, left>>
      BY <1>1 DEF Sleep, Train, WakeWeights, WakeCache, Wake, Raise, TakeUpdate, AskEngine, Commit,
                  UpdateFails, threads, history
    <2> QED
      BY <1>0, <2>1 DEF LoadsInv
  <1>2. CASE StartSync
    <2>1. left /\ load' = Live /\ asleep' = asleep \cup {[by |-> version + 1, load |-> load']}
          /\ UNCHANGED sends
      BY <1>2 DEF StartSync
    <2> QED
      BY <1>0, <2>1 DEF LoadsInv
  <1>3. CASE SyncWaits
    <2>1. UNCHANGED <<asleep, sends>> /\ (~left => load = Live)
      BY <1>3 DEF SyncWaits, UpdateAnswered, HttpTimeout, Join, SyncReturns, Raise, threads, history
    <2>2. CASE left
      BY <1>0, <2>1, <2>2 DEF LoadsInv
    <2>3. CASE ~left
      BY <1>0, <2>1, <2>3 DEF LoadsInv, FirstInv
    <2> QED
      BY <2>2, <2>3
  <1>4. CASE Broadcast
    <2> PICK t \in asleep :
           /\ asleep' = asleep \ {t}
           /\ \A i \in 1..Len(sends) : sends'[i] = sends[i]
           /\ \A l \in Layer :
                sends'[Len(sends) + l] = [by |-> t.by, layer |-> l, load |-> t.load]
           /\ \A i \in DOMAIN sends' :
                i \in 1..Len(sends) \/ \E l \in Layer : i = Len(sends) + l
      BY <1>4, BroadcastQueues
    <2>1. left
      BY <1>4 DEF Broadcast, history
    <2>2. t.load = Live /\ \A i \in 1..Len(sends) : sends[i].load = Live
      BY <1>0, <2>1, SendsTyped DEF LoadsInv
    <2>3. \A l \in Layer : sends'[Len(sends) + l].load = Live
      <3> TAKE l \in Layer
      <3>1. sends'[Len(sends) + l] = [by |-> t.by, layer |-> l, load |-> t.load]
        OBVIOUS
      <3> QED
        BY <2>2, <3>1
    <2>4. \A i \in DOMAIN sends' : sends'[i].load = Live
      BY <2>2, <2>3
    <2> QED
      BY <1>0, <2>1, <2>2, <2>4 DEF LoadsInv
  <1>5. CASE BroadcastFails
    BY <1>0, <1>5 DEF LoadsInv, BroadcastFails, history
  <1>6. CASE Transfer
    <2>1. /\ DOMAIN sends' = 1..Len(sends) - 1
          /\ \A i \in 1..Len(sends) - 1 : sends'[i] = sends[i + 1] /\ i + 1 \in DOMAIN sends
      BY <1>6, TransferTakes
    <2>2. UNCHANGED <<asleep, left>>
      BY <1>6 DEF Transfer, history
    <2> QED
      BY <1>0, <2>1, <2>2 DEF LoadsInv
  <1>7. ASSUME NEW e \in Engines, Restart(e) PROVE LoadsInv'
    BY <1>7 DEF Restart, Intact
  <1> QED
    BY <1>1, <1>2, <1>3, <1>4, <1>5, <1>6, <1>7 DEF Next

-----------------------------------------------------------------------------
(* What the engines have received.                                         *)

(* The parameter that arrives is the trainer's, or the copy's, of a step.  *)
LEMMA ModelSent ==
  ASSUME TypeOK, LoopInv, SendsInv, FirstInv, LoadsInv, Transfer, main = "update"
  PROVE  /\ Carried(Head(sends)) = Model(sends[1]) /\ Model(sends[1]) \in 0..MaxSteps
         /\ ~displaced => Model(sends[1]) = step
  <1>1. Intact /\ sends # <<>> /\ Head(sends) = sends[1] /\ sends[1] \in Item
        /\ 1 \in DOMAIN sends
    BY TransferTakes, SendsTyped
  <1>2. sends[1].layer \in Layer /\ sends[1].load \in 0..MaxSteps \cup {Live}
    BY <1>1 DEF Item, Load
  <1>3. weights[sends[1].layer] = step /\ step \in 0..MaxSteps
    BY <1>2 DEF TypeOK, LoopInv
  <1>4. Carried(Head(sends)) = Model(sends[1]) /\ Model(sends[1]) \in 0..MaxSteps
    BY <1>1, <1>2, <1>3 DEF Carried, Model
  <1>5. ASSUME ~displaced PROVE Model(sends[1]) = step
    <2>1. CASE left
      BY <1>1, <1>5, <2>1 DEF LoadsInv, Model
    <2>2. CASE ~left
      BY <1>1, <2>2 DEF FirstInv, LoopInv, Model
    <2> QED
      BY <2>1, <2>2
  <1> QED
    BY <1>4, <1>5

(* What a transfer does to the memory of an engine.                        *)
LEMMA HeldReceives ==
  ASSUME TypeOK, LoopInv, SendsInv, FirstInv, LoadsInv, Transfer, main = "update",
         NEW e \in Engines
  PROVE  \A l \in Layer :
           held'[e][l] = IF l = received[e] + 1 THEN Model(sends[1]) ELSE held[e][l]
  <1>1. "weights" \in mapped[e]
    BY DEF LoopInv
  <1>2. held'[e] = [held[e] EXCEPT ![received[e] + 1] = Model(sends[1])]
    BY <1>1, ModelSent DEF Transfer
  <1> QED
    BY <1>2 DEF TypeOK

LEMMA ReceivedKept ==
  ASSUME TypeOK, LoopInv, RequestsInv, RequestsInv', CallsInv, SendsInv, FirstInv, LoadsInv,
         ReceivedInv, Next
  PROVE  ReceivedInv'
  <1> SUFFICES ASSUME Intact' PROVE ReceivedInv'
    BY DEF ReceivedInv
  <1>0. Intact
    BY DEF Next, Sleep, Train, WakeWeights, WakeCache, Wake, StartSync, SyncWaits,
           UpdateAnswered, HttpTimeout, Join, Broadcast, BroadcastFails,
           TakeUpdate, AskEngine, Commit, UpdateFails, Transfer, Restart, Intact, engines, TypeOK
  <1>1. CASE main' # "update"
    BY <1>1 DEF ReceivedInv, RequestsInv
  <1>2. CASE main' = "update" /\ StartSync
    <2>1. main = "sync" /\ version' = version + 1 /\ UNCHANGED <<calls, update, gone>>
      BY <1>2 DEF StartSync, engines
    <2>2. \A u \in update' : u.for \in gone'
      BY <2>1, NobodyWaits
    <2>3. ASSUME NEW e \in Engines, calls'[e] # <<>>, Head(calls'[e]) = version' PROVE FALSE
      <3>1. calls[e] # <<>> /\ calls[e] \in Seq(Version)
        BY <2>1, <2>3, CallsTyped
      <3>2. Head(calls[e]) = calls[e][1] /\ 1 \in DOMAIN calls[e]
        BY <3>1, Rest, CallsTyped
      <3>3. calls[e][1] \in 1..version /\ version \in Nat
        BY <3>2 DEF CallsInv, TypeOK
      <3> QED
        BY <2>1, <2>3, <3>2, <3>3
    <2> QED
      BY <2>2, <2>3 DEF ReceivedInv
  <1>3. CASE Sleep \/ Train \/ WakeWeights \/ WakeCache \/ SyncWaits
    BY <1>1, <1>3 DEF Sleep, Train, WakeWeights, WakeCache, Wake, SyncWaits, UpdateAnswered,
                      HttpTimeout, Join, SyncReturns, Raise
  <1>4. CASE Broadcast
    <2>1. \A i \in 1..Len(sends) : sends'[i] = sends[i]
      BY <1>4, BroadcastQueues
    <2>2. UNCHANGED <<main, step, version, calls, received, held, update, gone, displaced>>
      BY <1>4 DEF Broadcast, trainer, engines, controller, history
    <2>3. ASSUME NEW e \in Engines, NEW l \in 1..received[e] PROVE sends'[1] = sends[1]
      <3>1. received[e] > 0
        BY <2>3 DEF TypeOK
      <3>2. 1 \in 1..Len(sends)
        BY <1>0, <3>1, SendsTyped DEF SendsInv
      <3> QED
        BY <2>1, <3>2
    <2> QED
      BY <1>0, <2>2, <2>3 DEF ReceivedInv, Model, Pending
  <1>5. CASE BroadcastFails
    <2>1. UNCHANGED <<main, step, version, calls, received, held, sends, update, gone, displaced>>
      BY <1>5 DEF BroadcastFails, trainer, engines, controller, history
    <2> QED
      BY <1>0, <2>1 DEF ReceivedInv, Model, Pending
  <1>6. CASE TakeUpdate
    <2>1. /\ UNCHANGED <<main, step, version, calls, received, held, sends, displaced>>
          /\ \A u \in update' : u.asked = {}
      BY <1>6 DEF TakeUpdate, threads, engines, history
    <2>2. step \in 0..MaxSteps
      BY DEF TypeOK
    <2> QED
      BY <1>0, <2>1, <2>2 DEF ReceivedInv, Model
  <1>7. CASE AskEngine
    <2> PICK u \in update, e \in Engines :
           /\ e \notin u.asked
           /\ UNCHANGED <<main, step, weights, version, load, reply, threads, requests, gone,
                          poolVersion, group, received, held, mapped, history>>
           /\ \A w \in update' : w.for = u.for /\ w.asked = u.asked \cup {e}
           /\ u.for \in gone => calls' = calls
           /\ u.for \notin gone =>
                /\ u.for = version /\ version \notin Pending(e) /\ version \in Pending(e)'
                /\ calls'[e] # <<>> /\ (calls[e] # <<>> => calls'[e][1] = calls[e][1])
           /\ \A f \in Engines \ {e} : calls'[f] = calls[f]
      BY <1>0, <1>7, Asked
    <2>1. UNCHANGED <<sends, displaced>>
      BY DEF threads, history
    <2>2. ASSUME main = "update", NEW f \in Engines, calls'[f] # <<>>, Head(calls'[f]) = version,
                 NEW l \in 1..received[f]
          PROVE  held[f][l] = Model(sends[1])
      <3>1. received[f] > 0
        BY <2>2 DEF TypeOK
      <3>2. calls[f] # <<>> /\ calls[f] \in Seq(Version)
        BY <1>0, <3>1, CallsTyped DEF SendsInv
      <3>3. calls'[f] \in Seq(Version)
        BY <1>7, ControllerTyped DEF TypeOK
      <3>4. calls'[f][1] = calls[f][1]
        BY <3>2
      <3>5. Head(calls[f]) = version
        BY <2>2, <3>2, <3>3, <3>4, Rest
      <3> QED
        BY <1>0, <2>2, <3>2, <3>5 DEF ReceivedInv
    <2>3. ASSUME NEW w \in update', w.for \notin gone
          PROVE  \E n \in 0..MaxSteps :
                   /\ ~displaced => n = step
                   /\ \A f \in w.asked :
                        version \notin Pending(f)' =>
                          calls'[f] = <<>> /\ held[f] = [l \in Layer |-> n]
      <3>1. PICK n \in 0..MaxSteps :
              /\ ~displaced => n = step
              /\ \A f \in u.asked :
                   version \notin Pending(f) => calls[f] = <<>> /\ held[f] = [l \in Layer |-> n]
        BY <1>0, <2>3 DEF ReceivedInv
      <3>2. ASSUME NEW f \in w.asked, version \notin Pending(f)'
            PROVE  calls'[f] = <<>> /\ held[f] = [l \in Layer |-> n]
        <4>1. f # e /\ f \in u.asked
          BY <2>3, <3>2
        <4>2. f \in Engines
          BY <4>1 DEF TypeOK
        <4>3. calls'[f] = calls[f] /\ version \notin Pending(f)
          BY <3>2, <4>1, <4>2 DEF Pending
        <4> QED
          BY <3>1, <4>1, <4>3
      <3> QED
        BY <3>1, <3>2
    <2> QED
      BY <2>1, <2>2, <2>3 DEF ReceivedInv, Model
  <1>8. CASE Commit \/ UpdateFails
    <2>1. /\ UNCHANGED <<main, step, version, calls, received, held, sends>>
          /\ update' = {}
      BY <1>8 DEF Commit, UpdateFails, threads, engines
    <2> QED
      BY <1>0, <2>1 DEF ReceivedInv, Model
  <1>9. CASE Transfer /\ main' = "update"
    <2>1. /\ sends # <<>> /\ Len(sends) \in Nat \ {0} /\ sends[1] \in Item
          /\ \A i \in 1..Len(sends) - 1 : sends'[i] = sends[i + 1]
          /\ Len(sends) = 1 <=> sends' = <<>>
          /\ sends[Len(sends)].layer = Layers
          /\ \A e \in Engines :
               /\ calls[e] # <<>> /\ received[e] \in 0..Layers - 1
               /\ sends[1].layer = received[e] + 1
               /\ received'[e] = IF received[e] + 1 = Layers THEN 0 ELSE received[e] + 1
               /\ calls'[e] = IF received[e] + 1 = Layers THEN Tail(calls[e]) ELSE calls[e]
      BY <1>9, TransferTakes
    <2>2. UNCHANGED <<main, step, version, update, gone, displaced>> /\ main = "update"
      BY <1>9 DEF Transfer, trainer, controller, history
    <2>3. \A e \in Engines : \A l \in Layer :
            held'[e][l] = IF l = received[e] + 1 THEN Model(sends[1]) ELSE held[e][l]
      BY <1>9, <2>2, HeldReceives
    <2>4. held' \in [Engines -> [Layer -> Value]]
      BY <1>9, TransferTyped DEF TypeOK
    <2>5. ASSUME NEW e \in Engines, calls'[e] # <<>>, Head(calls'[e]) = version,
                 NEW l \in 1..received'[e]
          PROVE  held'[e][l] = Model(sends[1]) /\ Model(sends[1])' = Model(sends[1])
      <3>1. /\ received[e] + 1 # Layers /\ calls'[e] = calls[e]
            /\ l \in 1..received[e] + 1 /\ l \in Layer
        BY <2>1, <2>5, Sizes DEF Layer
      <3>2. l # received[e] + 1 => held[e][l] = Model(sends[1])
        <4>1. \A k \in 1..received[e] : held[e][k] = Model(sends[1])
          BY <1>0, <2>1, <2>2, <2>5, <3>1 DEF ReceivedInv
        <4>2. l # received[e] + 1 => l \in 1..received[e]
          BY <2>1, <3>1
        <4> QED
          BY <4>1, <4>2
      <3>3. held'[e][l] = Model(sends[1])
        BY <2>3, <3>1, <3>2
      <3>4. sends[1].layer # Layers /\ 1 \in 1..Len(sends) - 1
        BY <2>1, <3>1
      <3>5. sends'[1].load = sends[1].load
        BY <1>0, <2>1, <3>4 DEF SendsInv
      <3>6. Model(sends[1])' = Model(sends[1])
        BY <2>2, <3>5 DEF Model
      <3> QED
        BY <3>3, <3>6
    <2>6. ASSUME NEW u \in update, u.for \notin gone
          PROVE  \E n \in 0..MaxSteps :
                   /\ ~displaced => n = step
                   /\ \A e \in u.asked :
                        version \notin Pending(e)' =>
                          calls'[e] = <<>> /\ held'[e] = [l \in Layer |-> n]
      <3>1. Model(sends[1]) \in 0..MaxSteps /\ (~displaced => Model(sends[1]) = step)
        BY <1>9, <2>2, ModelSent
      <3>2. ASSUME NEW e \in u.asked, version \notin Pending(e)'
            PROVE  calls'[e] = <<>> /\ held'[e] = [l \in Layer |-> Model(sends[1])]
        <4>1. e \in Engines /\ calls[e] # <<>>
          BY <2>1 DEF TypeOK
        <4>2. version \in Pending(e)
          BY <1>0, <2>6, <4>1 DEF ReceivedInv
        <4>3. received[e] + 1 = Layers /\ calls'[e] = Tail(calls[e])
          BY <2>1, <3>2, <4>1, <4>2 DEF Pending
        <4>4. calls[e][1] = version
          <5>1. PICK i \in DOMAIN calls[e] : calls[e][i] = version
            BY <4>2 DEF Pending
          <5>2. ASSUME i # 1 PROVE FALSE
            <6>1. i \in 1..Len(calls[e]) /\ Len(calls[e]) \in Nat
              BY <5>1, <4>1, CallsTyped
            <6>2. i - 1 \in 1..Len(calls[e]) - 1 /\ (i - 1) + 1 = i
              BY <5>2, <6>1
            <6>3. i - 1 \in DOMAIN calls'[e] /\ calls'[e][i - 1] = version
              BY <4>1, <4>3, <5>1, <6>2, CallReceived
            <6> QED
              BY <3>2, <6>3 DEF Pending
          <5> QED
            BY <5>1, <5>2
        <4>5. calls'[e] = <<>> /\ Head(calls[e]) = version
          BY <4>1, <4>3, <4>4, CallReceived
        <4>6. \A l \in 1..received[e] : held[e][l] = Model(sends[1])
          BY <1>0, <2>2, <4>1, <4>5 DEF ReceivedInv
        <4>7. \A l \in Layer : l = received[e] + 1 \/ l \in 1..received[e]
          BY <2>1, <4>1, <4>3, Sizes DEF Layer
        <4>8. \A l \in Layer : held'[e][l] = Model(sends[1])
          BY <2>3, <4>1, <4>6, <4>7
        <4>9. held'[e] = [l \in Layer |-> Model(sends[1])]
          BY <2>4, <4>1, <4>8
        <4> QED
          BY <4>5, <4>9
      <3> QED
        BY <3>1, <3>2
    <2> QED
      BY <2>2, <2>5, <2>6 DEF ReceivedInv
  <1>10. ASSUME NEW e \in Engines, Restart(e) PROVE ReceivedInv'
    BY <1>10 DEF Restart, Intact
  <1>11. CASE StartSync
    BY <1>1, <1>2, <1>11
  <1>12. CASE Transfer
    BY <1>1, <1>9, <1>12
  <1> QED
    BY <1>3, <1>4, <1>5, <1>6, <1>7, <1>8, <1>10, <1>11, <1>12 DEF Next

-----------------------------------------------------------------------------
(* From the commit to the next sleep.                                      *)

LEMMA SettledKept ==
  ASSUME TypeOK, LoopInv, RequestsInv, CallsInv, SendsInv, ReceivedInv, SettledInv, Next
  PROVE  SettledInv'
  <1> SUFFICES ASSUME Intact', Settled' PROVE SettledInv'
    BY DEF SettledInv
  <1>0. Intact
    BY DEF Next, Sleep, Train, WakeWeights, WakeCache, Wake, StartSync, SyncWaits,
           UpdateAnswered, HttpTimeout, Join, Broadcast, BroadcastFails,
           TakeUpdate, AskEngine, Commit, UpdateFails, Transfer, Restart, Intact, engines, TypeOK
  <1>a. Settled =>
          /\ update = {} /\ requests \subseteq gone /\ poolVersion = version
          /\ \A e \in Engines : calls[e] = <<>>
          /\ main = "generate" => \A e \in Engines : mapped[e] = Memory
          /\ \E n \in 0..MaxSteps :
               (~displaced => n = step) /\ \A e \in Engines : held[e] = [l \in Layer |-> n]
    BY <1>0 DEF SettledInv
  <1>1. CASE Sleep \/ Train \/ WakeWeights \/ StartSync \/ HttpTimeout
    BY <1>1 DEF Sleep, Train, WakeWeights, Wake, StartSync, HttpTimeout, Raise, Settled
  <1>2. CASE WakeCache
    <2>1. main = "wakeCache" /\ Restore(Engines, {"kv_cache"}) /\ UNCHANGED displaced
      BY <1>2 DEF WakeCache, Wake, Raise, Settled, history
    <2>2. \A e \in Engines : mapped'[e] = Memory
      BY <2>1 DEF TypeOK, LoopInv, Restore, Memory
    <2>3. UNCHANGED <<update, requests, gone, poolVersion, version, calls, held, step>>
      BY <1>2 DEF WakeCache, Wake, controller
    <2> QED
      BY <1>a, <2>1, <2>2, <2>3 DEF Settled, SettledInv
  <1>3. CASE UpdateAnswered \/ Join
    <2>1. Settled /\ main' \in {"join", "wakeCache"} /\ UNCHANGED displaced
      BY <1>3 DEF UpdateAnswered, Join, SyncReturns, Raise, Settled, history
    <2>2. UNCHANGED <<update, requests, gone, poolVersion, version, calls, held, step>>
      BY <1>3 DEF UpdateAnswered, Join, controller, engines
    <2> QED
      BY <1>a, <2>1, <2>2 DEF SettledInv
  <1>4. CASE Broadcast \/ BroadcastFails
    <2>1. UNCHANGED <<main, reply, outcome, update, requests, gone, poolVersion, version, calls,
                      held, mapped, step, displaced>>
      BY <1>4 DEF Broadcast, BroadcastFails, trainer, controller, engines, history
    <2>2. Settled
      BY <2>1 DEF Settled
    <2> QED
      BY <1>a, <2>1, <2>2 DEF SettledInv
  <1>5. CASE TakeUpdate
    <2> PICK v \in requests :
          /\ requests' = requests \ {v}
          /\ \/ v \notin gone /\ update' = {[for |-> v, asked |-> {}, failed |-> FALSE]}
                /\ UNCHANGED <<gone, reply>>
             \/ Answer(v, "error") /\ gone' = gone \ {v} /\ UNCHANGED update
      BY <1>5 DEF TakeUpdate
    <2>1. UNCHANGED <<main, outcome, poolVersion, version, calls, held, mapped, step, displaced>>
      BY <1>5 DEF TakeUpdate, engines, history
    <2>2. Settled
      BY <2>1 DEF Settled, Answer
    <2>3. update' = {} /\ requests' \subseteq gone'
      BY <1>a, <2>2
    <2> QED
      BY <1>a, <2>1, <2>2, <2>3 DEF SettledInv
  <1>6. CASE AskEngine
    <2>1. update # {} /\ UNCHANGED <<main, reply, outcome>>
      BY <1>6 DEF AskEngine, trainer, history
    <2> QED
      BY <1>a, <2>1 DEF Settled
  <1>7. CASE Commit
    <2> PICK u \in update :
          /\ u.asked = Engines /\ AllReceived(u)
          /\ update' = {} /\ poolVersion' = u.for /\ Answer(u.for, "updated")
          /\ gone' = gone \ {u.for}
      BY <1>7 DEF Commit
    <2>1. UNCHANGED <<main, outcome, requests, version, calls, held, step, displaced>>
      BY <1>7 DEF Commit, engines, history
    <2>2. ~Settled
      BY <1>a
    <2>3. main = "update" /\ version = u.for /\ reply' = "updated"
      BY <2>1, <2>2 DEF Settled, Answer
    <2>4. u.for \notin gone /\ requests \subseteq gone'
      BY <2>3 DEF RequestsInv
    <2>5. PICK n \in 0..MaxSteps :
            /\ ~displaced => n = step
            /\ \A e \in u.asked :
                 version \notin Pending(e) => calls[e] = <<>> /\ held[e] = [l \in Layer |-> n]
      BY <1>0, <2>4 DEF ReceivedInv
    <2>6. \A e \in Engines : calls[e] = <<>> /\ held[e] = [l \in Layer |-> n]
      BY <2>3, <2>5 DEF AllReceived
    <2> QED
      BY <2>1, <2>3, <2>4, <2>5, <2>6 DEF SettledInv
  <1>8. CASE UpdateFails
    <2>1. /\ update # {} /\ UNCHANGED <<main, outcome>> /\ reply' \in {reply, "error"}
      BY <1>8 DEF UpdateFails, Answer, history
    <2> QED
      BY <1>a, <2>1 DEF Settled
  <1>9. CASE Transfer
    <2>1. UNCHANGED <<main, reply, outcome>> /\ \A e \in Engines : calls[e] # <<>>
      BY <1>9 DEF Transfer, trainer, history
    <2> QED
      BY <1>a, <2>1, EnginesAssumption DEF Settled
  <1>10. ASSUME NEW e \in Engines, Restart(e) PROVE SettledInv'
    BY <1>10 DEF Restart, Intact
  <1> QED
    BY <1>1, <1>2, <1>3, <1>4, <1>5, <1>6, <1>7, <1>8, <1>9, <1>10 DEF Next, SyncWaits

-----------------------------------------------------------------------------
(* The whole invariant.                                                    *)

IInv ==
  /\ TypeOK /\ LoopInv /\ RequestsInv /\ CallsInv /\ SendsInv
  /\ FirstInv /\ LoadsInv /\ ReceivedInv /\ SettledInv

LEMMA InitInvariant == Init => IInv
  <1> SUFFICES ASSUME Init PROVE IInv
    OBVIOUS
  <1>1. TypeOK
    BY InitTyped
  <1>2. /\ main = "generate" /\ step = 0 /\ version = 0 /\ poolVersion = 0 /\ outcome = "none"
        /\ asleep = {} /\ sends = <<>> /\ requests = {} /\ gone = {} /\ update = {}
        /\ ~left /\ ~displaced
        /\ \A e \in Engines : calls[e] = <<>> /\ received[e] = 0 /\ mapped[e] = Memory
                              /\ held[e] = [l \in Layer |-> 0]
        /\ \A l \in Layer : weights[l] = 0
    BY DEF Init
  <1>3. Len(sends) = 0 /\ DOMAIN sends = {} /\ 1..Len(sends) - 1 = {}
    BY <1>2
  <1>4. \A e \in Engines : DOMAIN calls[e] = {} /\ Pending(e) = {}
    BY <1>2 DEF Pending
  <1>5. LoopInv /\ RequestsInv
    BY <1>2 DEF LoopInv, RequestsInv
  <1>6. CallsInv
    BY <1>4 DEF CallsInv
  <1>7. SendsInv /\ FirstInv /\ LoadsInv
    BY <1>2, <1>3 DEF SendsInv, FirstInv, LoadsInv
  <1>8. ReceivedInv
    BY <1>2 DEF ReceivedInv
  <1>9. SettledInv
    <2>1. 0 \in 0..MaxSteps /\ (~displaced => 0 = step)
      BY <1>2, Sizes
    <2>2. \A e \in Engines : held[e] = [l \in Layer |-> 0]
      BY <1>2
    <2> QED
      BY <1>2, <2>1, <2>2 DEF SettledInv
  <1> QED
    BY <1>1, <1>5, <1>6, <1>7, <1>8, <1>9 DEF IInv

LEMMA StutterInvariant == IInv /\ UNCHANGED vars => IInv'
  <1> SUFFICES ASSUME IInv, UNCHANGED vars PROVE IInv'
    OBVIOUS
  <1>0. /\ UNCHANGED <<main, step, weights, version, load, reply>>
        /\ UNCHANGED <<asleep, broadcastError, sends, requests, update, poolVersion, gone>>
        /\ UNCHANGED <<group, calls, received, held, mapped, outcome, left, displaced>>
    BY DEF vars, trainer, threads, controller, engines, history
  <1>1. TypeOK'
    BY <1>0 DEF IInv, TypeOK
  <1>2. LoopInv' /\ RequestsInv'
    BY <1>0 DEF IInv, LoopInv, RequestsInv, Intact
  <1>3. CallsInv' /\ SendsInv'
    BY <1>0 DEF IInv, CallsInv, SendsInv, Intact, Pending
  <1>4. FirstInv' /\ LoadsInv'
    BY <1>0 DEF IInv, FirstInv, LoadsInv, Intact, Pending
  <1>5. ReceivedInv'
    BY <1>0 DEF IInv, ReceivedInv, Intact, Pending, Model
  <1>6. SettledInv'
    BY <1>0 DEF IInv, SettledInv, Settled, Intact
  <1> QED
    BY <1>1, <1>2, <1>3, <1>4, <1>5, <1>6 DEF IInv

LEMMA NextInvariant == IInv /\ Next => IInv'
  <1> SUFFICES ASSUME IInv, Next PROVE IInv'
    OBVIOUS
  <1> USE DEF IInv
  <1>1. TypeOK' /\ LoopInv' /\ RequestsInv'
    BY NextTyped, LoopKeeps, RequestsKept
  <1>2. CallsInv' /\ SendsInv'
    BY CallsKept, SendsKept
  <1>3. FirstInv' /\ LoadsInv'
    BY FirstKept, LoadsKept
  <1>4. ReceivedInv' /\ SettledInv'
    BY <1>1, ReceivedKept, SettledKept
  <1> QED
    BY <1>1, <1>2, <1>3, <1>4

THEOREM Invariant == Spec => []IInv
  <1>1. IInv /\ [Next]_vars => IInv'
    BY NextInvariant, StutterInvariant
  <1> QED
    BY InitInvariant, <1>1, PTL DEF Spec

(* Every variable has its type.                                            *)
THEOREM TrainerTyped == Spec => []TypeOK
  BY Invariant, PTL DEF IInv

(* While the loop generates after a sync that returned, every engine has   *)
(* all its memory and all engines hold one and the same step's parameters: *)
(* no broadcast that sync_weights abandoned is ever taken in half.         *)
THEOREM WeightsAreWhole == Spec => []NoMixedWeights
  <1>1. IInv => NoMixedWeights
    <2> SUFFICES ASSUME IInv, Rollout, NEW e \in Engines, NEW f \in Engines
                 PROVE  Whole(e) /\ held[e] = held[f]
      BY DEF NoMixedWeights
    <2>1. Intact /\ Settled /\ main = "generate"
      BY DEF Rollout, Intact, Settled
    <2>2. /\ mapped[e] = Memory
          /\ \E n \in 0..MaxSteps : \A g \in Engines : held[g] = [l \in Layer |-> n]
      BY <2>1 DEF IInv, SettledInv
    <2> QED
      BY <2>2 DEF Whole
  <1> QED
    BY Invariant, <1>1, PTL

(* ... and those parameters are the trainer's, and the controller has the  *)
(* trainer's version of them, unless a copy was queued behind what a sync  *)
(* that raised may have left.                                              *)
THEOREM RolloutsOnPolicy == Spec => []OnPolicyRollouts
  <1>1. IInv => OnPolicyRollouts
    <2> SUFFICES ASSUME IInv, Rollout, ~displaced
                 PROVE  /\ poolVersion = version
                        /\ \A e \in Engines : held[e] = weights /\ mapped[e] = Memory
      BY DEF OnPolicyRollouts
    <2>1. Intact /\ Settled /\ main = "generate"
      BY DEF Rollout, Intact, Settled
    <2>2. /\ poolVersion = version /\ \A e \in Engines : mapped[e] = Memory
          /\ \A e \in Engines : held[e] = [l \in Layer |-> step]
      BY <2>1 DEF IInv, SettledInv
    <2>3. weights = [l \in Layer |-> step]
      BY <2>1 DEF IInv, TypeOK, LoopInv
    <2> QED
      BY <2>2, <2>3
  <1> QED
    BY Invariant, <1>1, PTL
=============================================================================
