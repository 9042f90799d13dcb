--------------------------- MODULE TrainingLoops ---------------------------
(***************************************************************************)
(* The training programs that drive the rollout controller: the PPO and    *)
(* GRPO examples, PPO with llmd_verl, and the deployed NCCL trainer.  A    *)
(* program is data: the phases of its start, of one step and of its end.   *)
(* A phase is a batch of generation, a local computation, or a call that   *)
(* the controller serves under the pool's lock.  A program stops at the    *)
(* first call that fails or times out; an operator may then run a program  *)
(* again, the same or another one, against the same controller.            *)
(***************************************************************************)
EXTENDS Integers, Sequences, FiniteSets, SequencesExt

CONSTANTS
  Engines,
  Programs,   \* the programs an operator may run
  BatchSize,  \* prompts per step
  Workers,    \* max_workers of the client's thread pool
  MaxSteps,   \* num_steps
  MaxLives,   \* a bound on runs of a program
  MaxFaults,  \* a bound on engines replaced and restarts of the controller
  Scores,     \* what the reward model may return
  Gamma, Lam, \* the discount and the smoothing of the advantages
  Lost        \* what discarded memory holds

ASSUME SizesAssumption ==
  /\ {BatchSize, Workers, MaxSteps, MaxLives} \subseteq Nat \ {0}
  /\ MaxFaults \in Nat
ASSUME NumbersAssumption == Gamma \in Int /\ Lam \in Int /\ Scores \subseteq Int

Memory == {"weights", "kv_cache"}

(* A model is named by the run that trained it and its steps of training;  *)
(* the checkpoint everybody starts from is that of run 0.                  *)
Model == (0..MaxLives) \X (0..MaxSteps)
Checkpoint == <<0, 0>>

-----------------------------------------------------------------------------
(* The programs.  Requests of a batch go through a pool of threads, which  *)
(* turns a failure into a placeholder, or, with no workers, one after the  *)
(* other, and then a failure is raised.                                    *)

PpoStartup == <<"health", "status", "init">>
PpoRollout == <<"generate", "sleep">>
PpoLearning == <<"reward", "refLogProbs", "values", "advantages", "actor", "critic">>
PpoSync == <<"wakeWeights", "update", "wakeCache", "status">>

Ppo(level) ==
  [startup |-> PpoStartup, loop |-> PpoRollout \o PpoLearning \o PpoSync, closing |-> <<>>,
   prompts |-> BatchSize, workers |-> Workers, level |-> level, resumes |-> TRUE]

GrpoStartup == <<"health", "status", "init">>
GrpoRollout == <<"generate", "sleep">>
GrpoSync == <<"wakeWeights", "update", "version", "wakeCache", "status">>

Grpo(level) ==
  [startup |-> GrpoStartup, loop |-> GrpoRollout \o <<"actor">> \o GrpoSync, closing |-> <<>>,
   prompts |-> BatchSize, workers |-> Workers, level |-> level, resumes |-> TRUE]

(* The deployed trainer counts its versions from 0; it creates the group   *)
(* and broadcasts in threads that it joins.                                *)
DeployedStartup == <<"ready", "init", "join">>
DeployedRollout == <<"generate", "sleep">>
DeployedSync == <<"wakeWeights", "update", "join", "wakeCache", "status">>
DeployedClosing == <<"version">>

Deployed ==
  [startup |-> DeployedStartup, loop |-> DeployedRollout \o <<"actor">> \o DeployedSync,
   closing |-> DeployedClosing, prompts |-> 1, workers |-> 0, level |-> 2, resumes |-> FALSE]

(* PPO with llmd_verl updates the weights before it wakes the engines.     *)
ManagedStartup == <<"ready", "status", "init", "join">>
ManagedRollout == <<"generate", "sleep">>
ManagedLearning == <<"reward", "actor">>
ManagedSync == <<"update", "join", "wakeAll">>

Managed ==
  [startup |-> ManagedStartup, loop |-> ManagedRollout \o ManagedLearning \o ManagedSync,
   closing |-> <<>>, prompts |-> BatchSize, workers |-> 0, level |-> 2, resumes |-> FALSE]

Code(p) == p.startup \o p.loop \o p.closing

WakesFirst(p) ==
  \E i, j \in DOMAIN p.loop : i < j /\ p.loop[i] = "wakeWeights" /\ p.loop[j] = "update"

(* The policy is trained at a, the weights are mapped from i on and        *)
(* updated at j, and nothing after that undoes it.                         *)
Synchronises(loop, a, i, j) ==
  /\ i < j /\ a < j
  /\ loop[a] = "actor" /\ loop[i] = "wakeWeights" /\ loop[j] = "update"
  /\ \A k \in DOMAIN loop :
       /\ k < a => loop[k] # "update"
       /\ k > i => loop[k] # "sleep"
       /\ k > j => loop[k] \notin {"actor", "update"}

(* Each step trains the policy once, and then updates the engines once.    *)
TrainsOnce(loop) ==
  \E a, j \in DOMAIN loop :
    /\ a < j
    /\ \A k \in DOMAIN loop : (loop[k] = "actor" <=> k = a) /\ (loop[k] = "update" <=> k = j)

(* Advantages are those of scores and estimates of the same step, and the  *)
(* policy is trained with them.                                            *)
Estimating == {"reward", "values", "advantages"}

EstimatesFirst(loop) ==
  \A k \in DOMAIN loop : loop[k] = "advantages" =>
    /\ \E i \in DOMAIN loop : i < k /\ loop[i] = "reward"
    /\ \E i \in DOMAIN loop : i < k /\ loop[i] = "values"
    /\ \E a \in DOMAIN loop : a > k /\ loop[a] = "actor"
    /\ \A i \in DOMAIN loop : loop[i] \in Estimating => i <= k

ASSUME ProgramsAssumption ==
  \A p \in Programs :
    /\ {p.startup, p.loop, p.closing} \subseteq Seq(STRING)
    /\ p.startup # <<>> /\ p.loop # <<>>
    /\ p.prompts \in 0..BatchSize /\ p.level \in 1..2 /\ p.resumes \in BOOLEAN
    /\ \E k \in DOMAIN p.startup : p.startup[k] = "init"
    /\ \A k \in DOMAIN p.startup :
         p.startup[k] \notin {"generate", "actor", "update"} \cup Estimating
    /\ \A k \in DOMAIN p.loop : p.loop[k] # "init" /\ (p.loop[k] = "generate" => k = 1)
    /\ TrainsOnce(p.loop) /\ EstimatesFirst(p.loop)
    /\ \A k \in DOMAIN p.closing :
         p.closing[k] \notin {"generate", "init", "actor", "update"} \cup Estimating
    /\ p.resumes => \E k \in DOMAIN p.startup : p.startup[k] = "status"
    /\ WakesFirst(p) => \E a, i, j \in DOMAIN p.loop : Synchronises(p.loop, a, i, j)

VARIABLES
  prog,       \* the program of this run
  life,       \* how many runs there have been
  at,         \* the phase the program is in, 0 when it has stopped
  step,       \* training steps of this run
  version,    \* weight_version
  finished,   \* requests of the batch that are over and not collected
  indexed,    \* those collected, as they came
  responses,  \* the batch
  rewards, values, advantages,
  inbox,      \* calls waiting for the controller
  running,    \* the call that has the lock: a set of at most one
  reply,      \* the answer to the current call
  poolVersion,
  grouped,    \* transferInited: the group is that of the engines
  faults,
  holds,      \* the model in each engine's memory
  mapped      \* the memory of each engine that is not released

run == <<prog, life, step, version>>
batch == <<finished, indexed, responses>>
learning == <<rewards, values, advantages>>
controller == <<inbox, running, poolVersion, grouped, faults>>
engines == <<holds, mapped>>
vars == <<run, at, batch, learning, reply, controller, engines>>

NoReply == [got |-> "none", version |-> 0]

Init ==
  /\ prog \in Programs /\ life = 1 /\ at = 1 /\ step = 0 /\ version = 0
  /\ finished = {} /\ indexed = <<>> /\ responses = <<>>
  /\ rewards = <<>> /\ values = <<>> /\ advantages = <<>>
  /\ inbox = {} /\ running = {} /\ reply = NoReply /\ poolVersion = 0
  /\ grouped = FALSE /\ faults = 0
  /\ holds = [e \in Engines |-> Checkpoint] /\ mapped = [e \in Engines |-> Memory]

In(phase) == at # 0 /\ Code(prog)[at] = phase

Starting == at \in 1..Len(prog.startup)

(* The next phase, the next step, or the end of the program.               *)
Advance ==
  at' = IF at = Len(prog.startup) + Len(prog.loop) /\ step < MaxSteps
        THEN Len(prog.startup) + 1
        ELSE (at + 1) % (Len(Code(prog)) + 1)

Proceed == Advance /\ UNCHANGED <<run, batch, learning, reply>>

Cleared ==
  /\ step' = 0 /\ version' = 0 /\ reply' = NoReply
  /\ finished' = {} /\ indexed' = <<>> /\ responses' = <<>>
  /\ rewards' = <<>> /\ values' = <<>> /\ advantages' = <<>>

(* An exception, or sys.exit(1), ends the process.                         *)
Exit == at' = 0 /\ Cleared /\ UNCHANGED <<prog, life>>

-----------------------------------------------------------------------------
(* generate_batch, and the loops that generate one after the other.        *)

Response(i, model, v) == [answers |-> i, by |-> model, tag |-> v]
Placeholder == Response(0, Lost, 0)

Over == {r[1] : r \in finished} \cup {indexed[k][1] : k \in DOMAIN indexed}
Open == 1..prog.prompts \ Over

(* The threads take the requests in order.                                 *)
InFlight == {i \in Open : Cardinality({j \in Open : j < i}) < prog.workers
                          \/ \A j \in Open : i <= j}

(* An engine that is awake answers; the server adds its weight version.    *)
Answered ==
  /\ In("generate")
  /\ \E i \in InFlight, e \in Engines :
       /\ mapped[e] = Memory
       /\ finished' = finished \cup {<<i, Response(i, holds[e], poolVersion)>>}
  /\ UNCHANGED <<run, at, indexed, responses, learning, controller, reply, engines>>

(* No engine is ready, the engine refuses, or the client times out.        *)
Failed ==
  /\ In("generate")
  /\ \E i \in InFlight :
       IF prog.workers > 0
       THEN /\ finished' = finished \cup {<<i, Placeholder>>}
            /\ UNCHANGED <<run, at, indexed, responses, learning, reply>>
       ELSE Exit
  /\ UNCHANGED <<controller, engines>>

(* Faulty variant: what is collected stays among the futures.              *)
CollectAgain ==
  /\ In("generate")
  /\ \E r \in finished : indexed' = Append(indexed, r) /\ UNCHANGED finished
  /\ UNCHANGED <<run, at, responses, learning, controller, reply, engines>>

(* as_completed: whatever is over, in any order.                           *)
Collect ==
  /\ In("generate")
  /\ \E r \in finished : finished' = finished \ {r} /\ indexed' = Append(indexed, r)
  /\ UNCHANGED <<run, at, responses, learning, controller, reply, engines>>

(* Faulty variant: the responses in the order in which they came.          *)
InOrderOfArrival(s) == {[k \in DOMAIN s |-> s[k][2]]}

(* The responses sorted by the number of their request.                    *)
InOrderOfRequests(s) ==
  {[k \in DOMAIN s |-> s[place[k]][2]] :
     place \in {f \in [DOMAIN s -> DOMAIN s] :
                 \A j, k \in DOMAIN s : j < k => s[f[j]][1] < s[f[k]][1]}}

BatchReturns ==
  /\ In("generate") /\ Len(indexed) = prog.prompts
  /\ responses' \in InOrderOfRequests(indexed)
  /\ finished' = {} /\ indexed' = <<>>
  /\ Advance
  /\ UNCHANGED <<run, learning, controller, reply, engines>>

-----------------------------------------------------------------------------
(* The computations of a step.                                             *)

Reward ==
  /\ In("reward")
  /\ rewards' \in [DOMAIN responses -> Scores]
  /\ Advance
  /\ UNCHANGED <<run, batch, values, advantages, controller, reply, engines>>

(* The frozen reference model scores the responses; nothing uses it yet.   *)
RefLogProbs ==
  In("refLogProbs") /\ Proceed /\ UNCHANGED <<controller, engines>>

(* The critic's estimates, in tenths.                                      *)
Values ==
  /\ In("values")
  /\ values' = [k \in DOMAIN responses |-> 4 + k]
  /\ Advance
  /\ UNCHANGED <<run, batch, rewards, advantages, controller, reply, engines>>

(* Faulty variant: the value of the same response twice.                   *)
ComputeGaeSameValue(rs, vs) ==
  LET n == Len(rs)
      Delta(t) == rs[t] + Gamma * vs[t] - vs[t]
      Earlier(t, acc) == <<Delta(t) + Gamma * Lam * Head(acc)>> \o acc
  IN SubSeq(FoldRight(Earlier, [t \in 1..n |-> t], <<0>>), 1, n)

(* compute_gae: backwards over the responses, each gae put in front.       *)
ComputeGae(rs, vs) ==
  LET n == Len(rs)
      Delta(t) == rs[t] + Gamma * (IF t < Len(vs) THEN vs[t + 1] ELSE 0) - vs[t]
      Earlier(t, acc) == <<Delta(t) + Gamma * Lam * Head(acc)>> \o acc
  IN SubSeq(FoldRight(Earlier, [t \in 1..n |-> t], <<0>>), 1, n)

Advantages ==
  /\ In("advantages")
  /\ advantages' = ComputeGae(rewards, values)
  /\ Advance
  /\ UNCHANGED <<run, batch, rewards, values, controller, reply, engines>>

(* The policy is trained with the batch, which the model then forgets.     *)
Actor ==
  /\ In("actor")
  /\ step' = step + 1
  /\ responses' = <<>> /\ rewards' = <<>> /\ values' = <<>> /\ advantages' = <<>>
  /\ Advance
  /\ UNCHANGED <<prog, life, version, finished, indexed, controller, reply, engines>>

(* Nothing the other parts see depends on the critic.                      *)
Critic ==
  In("critic") /\ Proceed /\ UNCHANGED <<controller, engines>>

Policy == <<life, step>>

-----------------------------------------------------------------------------
(* Calls of the controller: _post and _get.                                *)

Awaiting == \E c \in inbox \cup running : c.life = life

Call(op, v) == [life |-> life, op |-> op, level |-> prog.level, model |-> Policy, version |-> v]

Post(op, v) ==
  /\ ~Awaiting /\ reply = NoReply
  /\ version' = v
  /\ inbox' = inbox \cup {Call(op, v)}
  /\ UNCHANGED <<prog, life, at, step, batch, learning, running, poolVersion, grouped, faults,
                 reply, engines>>

GetStatus == In("status") /\ Post("status", version)
GetVersion == In("version") /\ Post("version", version)
InitTransfer == In("init") /\ Post("init", version)
SleepEngines == In("sleep") /\ Post("sleep", version)
UpdateWeights == In("update") /\ Post("update", version + 1)
WakeWeights == In("wakeWeights") /\ Post("wakeWeights", version)
WakeCache == In("wakeCache") /\ Post("wakeCache", version)
WakeAll == In("wakeAll") /\ Post("wakeAll", version)

(* The examples go on from the version of the status they start with,      *)
(* or stop if it has no engine ready.                                      *)
Resuming == Starting /\ prog.resumes /\ In("status")

Returns ==
  /\ reply.got = "ok"
  /\ Advance /\ reply' = NoReply
  /\ version' = IF Resuming THEN reply.version ELSE version
  /\ UNCHANGED <<prog, life, step, batch, learning, controller, engines>>

NoEngineReady ==
  Resuming /\ reply.got = "ok" /\ Exit /\ UNCHANGED <<controller, engines>>

(* Nothing catches what a call raises.                                     *)
Raises == reply.got = "error" /\ Exit /\ UNCHANGED <<controller, engines>>

TimesOut == at # 0 /\ Awaiting /\ Exit /\ UNCHANGED <<controller, engines>>

Health == In("health") /\ (Proceed \/ Exit) /\ UNCHANGED <<controller, engines>>

(* Faulty variant: no deadline.                                            *)
WaitForever ==
  In("ready") /\ running = {} /\ Proceed /\ UNCHANGED <<controller, engines>>

(* Polls until an engine is ready, or gives up.  Each poll reads the       *)
(* status, which waits for the lock.                                       *)
WaitForReady ==
  /\ In("ready")
  /\ \/ running = {} /\ Proceed
     \/ Exit
  /\ UNCHANGED <<controller, engines>>

(* The thread that creates the group or broadcasts has ended, with an      *)
(* exception or without, or is left behind after the timeout.              *)
Join == In("join") /\ (Proceed \/ Exit) /\ UNCHANGED <<controller, engines>>

(* A program may die at any point.                                         *)
Killed == at # 0 /\ Exit /\ UNCHANGED <<controller, engines>>

(* The operator runs a program again.                                      *)
Rerun ==
  /\ at = 0 /\ life < MaxLives
  /\ life' = life + 1 /\ prog' \in Programs /\ at' = 1 /\ Cleared
  /\ UNCHANGED <<controller, engines>>

-----------------------------------------------------------------------------
(* The controller and its engines.                                         *)

Abandoned(c) == c.life # life \/ at = 0

(* Faulty variant: a status does not wait for the lock.                    *)
TakeUnlocked ==
  \E c \in inbox :
    /\ inbox' = inbox \ {c}
    /\ \/ c.op = "status" /\ ~Abandoned(c)
          /\ reply' = [got |-> "ok", version |-> poolVersion] /\ UNCHANGED running
       \/ c.op \notin {"status", "version"} /\ running = {}
          /\ running' = (IF Abandoned(c) THEN {} ELSE {c}) /\ UNCHANGED reply
    /\ UNCHANGED <<run, at, batch, learning, poolVersion, grouped, faults, engines>>

AnswerTo(c, r) == reply' = IF Abandoned(c) THEN reply ELSE r

Refusal == [got |-> "error", version |-> 0]

(* The version is the server's own and is read without the pool's lock.    *)
AnswerVersion ==
  /\ \E c \in inbox :
       /\ c.op = "version" /\ inbox' = inbox \ {c}
       /\ AnswerTo(c, [got |-> "ok", version |-> poolVersion])
  /\ UNCHANGED <<run, at, batch, learning, running, poolVersion, grouped, faults, engines>>

(* A call gets the lock.  If its client has gone its context is cancelled  *)
(* and no engine is called; an update needs the group.                     *)
Take ==
  /\ running = {}
  /\ \E c \in inbox :
       /\ c.op # "version" /\ inbox' = inbox \ {c}
       /\ IF Abandoned(c) \/ (c.op = "update" /\ ~grouped)
          THEN AnswerTo(c, Refusal) /\ UNCHANGED running
          ELSE running' = {c} /\ UNCHANGED reply
  /\ UNCHANGED <<run, at, batch, learning, poolVersion, grouped, faults, engines>>

Tags(op) ==
  CASE op = "wakeWeights" -> {"weights"}
    [] op = "wakeCache" -> {"kv_cache"}
    [] op = "wakeAll" -> Memory
    [] OTHER -> {}

(* What a call does to an engine: level 1 keeps the weights elsewhere,     *)
(* level 2 discards them; weights arrive in memory that is mapped.         *)
Effect(c, S) ==
  /\ mapped' = [e \in Engines |-> IF e \notin S THEN mapped[e]
                                  ELSE IF c.op = "sleep" THEN {}
                                  ELSE mapped[e] \cup Tags(c.op)]
  /\ holds' = [e \in Engines |->
       IF e \in S /\ c.op = "sleep" /\ c.level = 2 THEN Lost
       ELSE IF e \in S /\ c.op = "update" /\ "weights" \in mapped[e] THEN c.model
       ELSE holds[e]]

(* All engines have answered; an update publishes its version.             *)
Complete ==
  \E c \in running :
    /\ Effect(c, Engines)
    /\ poolVersion' = IF c.op = "update" THEN c.version ELSE poolVersion
    /\ grouped' = (grouped \/ c.op = "init")
    /\ running' = {}
    /\ AnswerTo(c, [got |-> "ok", version |-> poolVersion'])
    /\ UNCHANGED <<run, at, batch, learning, inbox, faults>>

(* Some engine failed; the others may have done what they were asked.      *)
Break ==
  \E c \in running, S \in SUBSET Engines :
    /\ Effect(c, S)
    /\ running' = {}
    /\ AnswerTo(c, Refusal)
    /\ UNCHANGED <<run, at, batch, learning, inbox, poolVersion, grouped, faults>>

(* An engine leaves the pool and another one, with the checkpoint, takes   *)
(* its place; registration waits for the lock and voids the group.         *)
Replaced ==
  /\ running = {} /\ faults < MaxFaults /\ faults' = faults + 1
  /\ \E e \in Engines : holds' = [holds EXCEPT ![e] = Checkpoint]
                       /\ mapped' = [mapped EXCEPT ![e] = Memory]
  /\ grouped' = FALSE
  /\ UNCHANGED <<run, at, batch, learning, inbox, running, reply, poolVersion>>

(* A controller that is restarted has neither a version nor a group; the   *)
(* calls it had are broken off, which Break says of the one that runs.     *)
ControllerRestarts ==
  /\ running = {} /\ faults < MaxFaults /\ faults' = faults + 1
  /\ poolVersion' = 0 /\ grouped' = FALSE
  /\ inbox' = {} /\ reply' = IF Awaiting /\ at # 0 THEN Refusal ELSE reply
  /\ UNCHANGED <<run, at, batch, learning, running, engines>>

-----------------------------------------------------------------------------
Generating == Answered \/ Failed \/ Collect \/ BatchReturns

Learning == Reward \/ RefLogProbs \/ Values \/ Advantages \/ Actor \/ Critic

Calling ==
  \/ GetStatus \/ GetVersion \/ InitTransfer \/ SleepEngines \/ UpdateWeights
  \/ WakeWeights \/ WakeCache \/ WakeAll
  \/ Returns \/ NoEngineReady \/ Raises \/ TimesOut
  \/ Health \/ WaitForReady \/ Join

Next ==
  \/ Generating \/ Learning \/ Calling \/ Killed \/ Rerun
  \/ AnswerVersion \/ Take \/ Complete \/ Break \/ Replaced \/ ControllerRestarts

Spec == Init /\ [][Next]_vars

(* The program runs; its calls and requests have timeouts.                 *)
FairSpec == Spec /\ WF_vars(Generating \/ Learning \/ Calling)

-----------------------------------------------------------------------------
(* Properties.                                                             *)

Responses == [answers : 0..BatchSize, by : Model \cup {Lost}, tag : 0..MaxLives * MaxSteps]

(* Every variable has its type, and a program has one call outstanding.    *)
TypeOK ==
  /\ prog \in Programs /\ life \in 1..MaxLives /\ at \in 0..Len(Code(prog))
  /\ step \in 0..MaxSteps /\ version \in 0..MaxLives * MaxSteps
  /\ finished \subseteq (1..BatchSize) \X Responses
  /\ indexed \in Seq((1..BatchSize) \X Responses) /\ responses \in Seq(Responses)
  /\ Len(indexed) + Cardinality(finished) <= prog.prompts
  /\ rewards \in Seq(Scores) /\ values \in Seq(Nat) /\ advantages \in Seq(Int)
  /\ inbox \cup running \subseteq [life : 1..life, op : STRING, level : 1..2, model : Model,
                                   version : 0..MaxLives * MaxSteps]
  /\ Cardinality(running) <= 1
  /\ Cardinality({c \in inbox \cup running : c.life = life}) <= 1
  /\ reply \in [got : {"none", "ok", "error"}, version : 0..MaxLives * MaxSteps]
  /\ poolVersion \in 0..MaxLives * MaxSteps /\ grouped \in BOOLEAN /\ faults \in 0..MaxFaults
  /\ holds \in [Engines -> Model \cup {Lost}] /\ mapped \in [Engines -> SUBSET Memory]

(* The learner has, for each prompt in its place, a placeholder or the     *)
(* answer to that prompt, whatever the order in which answers came; and    *)
(* after the first synchronisation of this run every answer is of the      *)
(* current policy and tagged with its version, whatever calls of earlier   *)
(* runs were cut off, in the programs that wake the weights first, unless  *)
(* an engine was replaced or the controller restarted in this run.         *)
LearnsFromItsRollouts ==
  responses # <<>> =>
    /\ Len(responses) = prog.prompts
    /\ \A k \in DOMAIN responses :
         responses[k] # Placeholder =>
           /\ responses[k].answers = k
           /\ WakesFirst(prog) /\ step > 0 /\ grouped =>
                responses[k].by = Policy /\ responses[k].tag = version

(* The advantages are those of generalized advantage estimation: the       *)
(* discounted sum of the temporal differences from each response on.       *)
Discount[k \in 0..BatchSize] == IF k = 0 THEN 1 ELSE Gamma * Lam * Discount[k - 1]

Difference(t) ==
  rewards[t] + (IF t = Len(values) THEN 0 ELSE Gamma * values[t + 1]) - values[t]

AdvantagesAreGae ==
  advantages # <<>> =>
    /\ Len(advantages) = Len(responses)
    /\ \A t \in DOMAIN advantages :
         advantages[t] = SumFunction([k \in t..Len(rewards) |-> Discount[k - t] * Difference(k)])

(* A program that resumes from the controller's version raises it with     *)
(* each update it gets through, whatever calls of earlier runs were still  *)
(* at work when it started: a version it publishes is not one that the     *)
(* controller has already given to another model.                          *)
Publishes ==
  \E c \in running : c.op = "update" /\ c.life = life /\ running' = {} /\ reply'.got = "ok"

VersionsAdvance == [][Publishes /\ prog.resumes => poolVersion' > poolVersion]_vars

(* A program ends, whatever becomes of the controller and the engines.     *)
ProgramEnds == at # 0 ~> at = 0
=============================================================================
