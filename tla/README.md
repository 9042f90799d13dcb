# Verification of the rollout infrastructure

TLA+ specifications of llm-d-rl: the parts that keep a trainer, a fleet of
inference engines and a router consistent with each other. The specifications are
translated from the code under `src/`; TLC checks them on small instances and
TLAPS proves the main safety properties for every value of the constants.

`PROJECT.json` is the index: which definition stands for which lines, which run
checks which properties, and for each property a faulty variant of a mapped
definition under which TLC finds the property violated. The faulty variants stand
in the modules next to the operation they distort, marked "Faulty variant".

Contents: 1 the system, 2 modules and code, 3 runs, 4 fairness and deadlock,
5 proofs, 6 where code and documents disagree, 7 what is not modelled, 8 plan.

## 1. The system

The repository holds two generations of one idea, reinforcement learning with
rollouts generated by a fleet of engines (vLLM, SGLang).

- The **legacy controller** (`legacy/rl-controller`, Go, with a Python client) puts
  one process between the trainer and the engines. It keeps the pool, forwards
  generation, and fans weight synchronisation and lifecycle calls out to the engines.
- The **integrations** (`integrations/common`, `integrations/verl`) leave the
  engines to the trainer's framework and only start a router: an EPP (endpoint
  picker), which gets its endpoints from a file, and optionally an Envoy.
- The **benchmarks** (`quickstart/benchmarks`) add *wave admission*, a ledger
  that places trajectories on replicas by estimated KV budget.

| component | state | operations | talks to |
|---|---|---|---|
| engine pool and server (`pkg/pool`, `pkg/rollout`) | engines, transfer group flag, weight version, phase, one RW lock | init, update, pause, resume, sleep, wake, register, deregister, generate | engines over HTTP, under the lock |
| engine clients (`pkg/weightsync`) | none; a timeout per call | one HTTP call per engine operation | engines |
| health loop, pod watcher (`pool`, `pkg/discovery`) | ready flags, consecutive failures; map of pod to address | probe round; informer events | pool, by callbacks |
| checkpoint engine (`llmd_verl`, `nccl_weight_trainer.py`) | weight version, parameters, communicator, broadcast thread | `init_nccl_group`, `sync_weights`, `update_weights_from_generator` | controller over HTTP, engines over NCCL |
| training programs (`examples/`, `deploy/cks`) | step, version, batch, rewards, values, advantages | generate, learn, sync, one call after the other | controller over HTTP |
| wave admission (`epp_dev/wave_admission`) | books per replica, residents, histories, group leaders, placement window | acquire, record_turn, on_trajectory_done | the client of each agent loop, as a Ray actor |
| endpoint registry (`registration_shim.py`, `endpoints.py`) | dictionary of workers, endpoints file | register, deregister, list | engines over HTTP, EPP through the file |
| request routing (`epp_grpc_client.py`, `llm_client.py`) | one stream per request | pick, begin/complete, generate | EPP over gRPC, engine actors |
| router launcher (`router_stack.py`, `cli.py`, `ray_router.py`) | two child processes | start_epp, start_envoy, watch, stop | EPP and Envoy processes, signals |

### What is hard, and what makes each part correct

**Pool.** Handlers overlap; the lock serialises the fan-outs but not the phase, nor
the server's copy of the version. A call to an engine may be refused, applied with
its answer lost, or applied after the client gave up; clients hang up; engines
restart unnoticed; engines join and leave while a transfer waits for the lock.
Correct means: the group is exactly the pool whenever transfers are allowed, every
engine is paused while weights stream, a reported success means that every engine
serves the new weights, the phase does not stick, every handler returns.

**Discovery.** Probes run without the lock and write results back through
pointers that may belong to an engine that left. Correct means: only an engine that
itself answered is in rotation, the pool follows the cluster, the rotation follows
health.

**Trainer.** Three parties (loop, daemon broadcast thread, controller) with three
independent timeouts over collectives that cannot be taken back. Correct means:
after a sync that returned, no engine holds a mixture, and what it holds is the
current policy.

**Training programs.** Four programs put the same calls in different orders. Answers
of a batch come in any order and some not at all. A program dies at the first call
that fails, and the next run meets a controller that is still busy with a call of
the last one, engines that sleep, and a version it did not choose. Correct means:
the learner pairs each prompt with its own answer, what it learns from is on
policy, a version names one model, and every program ends.

**Ledger.** An asyncio actor whose methods interleave at awaits, with polls,
timeouts, events, migrations and estimates. Correct means: no double booking, no
double release, the group's order is kept, every acquire returns.

**Registry.** Coroutines and worker threads change one dictionary and one file
through one temporary path, without locks. Correct means: handles are unique, the
file is the registry at rest, readers see whole lists.

**Router.** Processes outlive launchers, ports are trusted by whoever answers on
them, requests are cancelled in any await while the EPP counts them. Correct means:
a ready launcher means its own processes, the count binds the load, every place in
the count comes back, answers are kept.

The hazards behind these, each at its line, are listed in `PROJECT.json`.

## 2. Modules and code

Every module has the same layout: constants with a named assumption, variables,
one action per operation, the specification with its fairness, then the
properties. Constants called `Max...` are bounds of the model. Variables marked
*history* exist only for properties; no action reads them to decide what the code
does (TrainerSync's `outcome`, `left` and `displaced`, EnginePool's `group` and `disturbed`,
EngineDiscovery's `probed`, AdmissionLedger's `checked`, `shrunk` and `declined`,
RegistrationShim's `overlapped`, RouterStack's `abandoned`, EppRouting's `cut`,
which also tells the client that a read failed).

**`EnginePool`** (`engine_pool.go`, `server.go`, `vllm_client.go`). A request is a
record whose `stage` is its position: `announce` (the SetPhase before the pool
call), `lock`, then one stage per fan-out, `publish` (Server.weightVersion),
`restore` (SetPhase after it), `done`. A fan-out is a set `todo` of engines that have
not answered; `Call` is one engine's answer with its four outcomes. Once the
client has hung up, calls not yet sent are not sent: `sent` and `cancelled` carry
the shared context. `late` holds calls the client gave up on, which an engine
may still run. Registering or deregistering voids the transfer group; a second init
that fails leaves the flag as it was, as the code does. Generation is three
steps: `PickEngine`, `Completion`, `TagResponse`; no property of this module is about
them, since that a paused engine produces nothing is the engine's own rule. What a
response is tagged with is checked in `TrainingLoops`.

**`WeightSyncPool`** is the abstract specification: engines come and go, a group
is formed over the whole pool and is void as soon as the pool changes, and the
published version moves only while the group is the pool. `EnginePool!Promise`
instantiates it: an engine is an *incarnation* (an id and how often it was
registered), `ring` is the group of the last successful init while `transferInited`
holds, `published` is the pool's version. The incarnations matter: an engine
that left and came back under its id is another process.

**`EngineDiscovery`** (`pod_watcher.go`, the health half of `engine_pool.go`). The
cluster changes pods; the informer delivers the *latest* state of a pod, late and
skipping; the watcher compares with the address it remembers and makes one callback,
or two when the address changed. `round` holds the probes of the current health
round with the object each points to; the loop writes a result back under the lock
after the probe. Objects that left stay in `object`, as the pointer in the code
keeps them alive.

**`TrainerSync`** (`checkpoint_engine.py`, `manager.py`, `client.py`,
`nccl_weight_trainer.py`, and the loops that call them). The loop releases the
engines' memory, trains, wakes the weights, syncs, wakes the cache, and
generates: the order of the two-phase loops. The parameters are written one by one
so that a broadcast left over from an earlier sync can read them half way. The
communicator is a queue; a collective completes when all ranks take part, and what
it carries is read then. `Live` syncs queue the parameters themselves, `Copied` ones
a copy (`update_weights_from_generator`). A sync that raises may leave collectives
queued, and the loop may go on after it, as a caller that catches the exception does.

**`TrainingLoops`** (`ppo_training_loop.py`, `grpo_training_loop.py`,
`ppo_with_llmd.py`, the deployed `nccl_weight_trainer.py`, with the controller's
handlers as far as these programs see them). A program is data: the phases of its
start, of a step and of its end, taken from the source line by line; a phase is a
batch, a local computation or a call. `ProgramsAssumption` says what the proofs need
of the phases; TLC evaluates it for the four programs. A batch is the client's thread
pool: requests in flight, those that are over, those collected, and the responses
sorted back to the order of the prompts. GAE is computed on small integers (values in
tenths, a discount of 2, a smoothing of 3) so that every index shows in the result.
A run that ends leaves its call behind, waiting (`inbox`) or at work (`running`);
`Rerun` starts any of the programs against the same controller.
What is coarser than in the modules above: a call of the pool is one step with the
lock held, and what the client gave up on acts before the lock is released or never
(late calls are EnginePool's); the pool's and the server's version are one variable;
the group is a flag, and what is transferred is TrainerSync's; the batch is forgotten
once the actor has learnt from it.

**`AdmissionLedger`** (`admission.py`, `llm_client.py`, `trace_player/agent_loop.py`).
A step is the code between two awaits. The trajectory's `at` names the await it is
in: polling for headroom, waiting for the group's leader, waiting for the placement
window. The growth estimator is an input with a few possible values. It averages
what trajectories still grew after each of their turns, so an estimate can be negative
once one has ended smaller than some turn of it was measured (`declined`); until then
it is not, because the growth assumed before the first measurement and the margin are
configured (100000 and 0) and the oracle is cut off at 0.

**`RegistrationShim`** (`registration_shim.py`, `endpoints.py`). The event loop runs
POST, worker threads run DELETE. The write is the four file operations of
`_atomic_write` over inodes, because threads share the temporary path: one
may truncate what another writes, publish it half written, or find it gone.

**`EndpointsFeed`** is its abstract specification: engines come and go one at a time,
each change is published before the next, and a restart empties both the registry
and the feed. A disturbance suspends that until a change is published in full.
`RegistrationShim!Feed` instantiates it with the registered urls, the contents of the
file that EPP watches, and `overlapped` for the disturbance. So EPP sees every state
of the registry in its turn, which `FileFollowsRegistry`, about moments of rest, does
not say.

**`RouterStack`** (`router_stack.py`, `cli.py`, `ray_router.py`). Children of every
launcher so far, each `booting`, `listening` or `dead`; the launcher's position from
`waitEpp` to `stopped` or `failed`. `wait_port` accepts whoever listens; a process
whose port is taken exits. `setup.watched` tells the command, which polls its
children and installs signal handlers once it is ready, from the actor, which does
neither.

**`EppRouting`** EXTENDS it: requests routed by the EPP that the stack runs. `req` is
the coroutine, `stream` the EPP's view of its stream, `engine` the actor call. A
request is `counted` at its endpoint from the routing decision to the end of the
stream. The step `Stack` is any step of the launcher; when nothing listens as EPP
any more it ends the open streams. The EPP and the engines are outside the
repository; what they do is modelled from how the client uses them and is marked
external in the map.

`MC...` modules only give symmetry sets, functions and records that a cfg cannot
write. `...Proofs` modules hold the theorems of the module they extend.

## 3. Runs

Sizes are of complete state spaces.

| run | instance | checks |
|---|---|---|
| `pool_sync` | 2 engines, 3 requests, 2 registrations per id, 1 fault; 1.85 M states under symmetry | TypeOK, TransferGroupCoversPool, PausedWhileUpdating, SyncingHasOwner, CommitLeavesPoolServing, RollbackRestoresService, KeepsPromise |
| `pool_live` | 1 engine, 2 requests, 1 generation, 2 faults, fair; 155 K | HandlersReturn |
| `pool_rollback` | 2 engines, 2 requests, 1 fault | FailedUpdateResumes, violated |
| `discovery` | 2 pods, 2 addresses, 3 registrations, 3 changes, 2 outages, fair; 272 K | TypeOK, ReadyWasProbed, WatcherAndPoolAgree, PoolFollowsCluster, HealthDecidesRotation |
| `trainer` | 2 engines, 2 parameters, 3 steps, both kinds of sync, fair; 2.24 M | TypeOK, NoMixedWeights, OnPolicyRollouts, SyncEnds |
| `loops` | 2 engines, the 4 programs, batches of 3 on 2 threads, 2 steps, 2 runs, 1 fault, fair; 700 K | TypeOK, LearnsFromItsRollouts, AdvantagesAreGae, VersionsAdvance, ProgramEnds |
| `ledger_gate` | 3 trajectories of 2 turns, 2 replicas, budget 3, wave of 1, 1 failure; 188 K | TypeOK, NeverUndercounts, GrowingContextsBalance, CheckedResidentsFit |
| `ledger_wave` | 3 siblings of 1 turn, 2 replicas, stagger, window or both, fair; 11 K | FollowersWaitForLeader, NobodyMissesTheWindow, AcquireReturns |
| `ledger_drain` | 1 trajectory of 2 turns, no failure | LedgerDrains, violated |
| `shim` | 3 urls, one without a port, 2 worker threads, 5 requests and restarts; 4.2 M | TypeOK, OneHandlePerUrl, FileFollowsRegistry, ReadersSeeWholeLists, FeedsTheRegistry |
| `shim_removal` | 2 urls, 2 worker threads, 5 requests | RemovalReachesFile, violated |
| `router` | 2 starts, command or actor, with or without Envoy, 2 requests, 2 endpoints of which one unknown, cap 1, 1 cancellation, fair; 146 K | TypeOK, OwnProcesses, CapBindsLoad, AnswersKept, ExitsIfEitherDies, SlotsComeBack |

Why these bounds are enough for the interesting cases to happen:

- *Pool.* Three requests are an init, an update and one that interferes; two engines
  let a fan-out be half done; two registrations of an id are what it takes to
  rejoin. One fault together with a re-registration already reaches every error
  path; the proofs remove the bounds for everything in `pool_sync`. One target
  version is enough because an engine starts at version 0. Liveness is
  checked with one engine: a second one only adds orders within a fan-out.
- *Discovery.* Two pods and two addresses let an address change hands; three
  registrations let an object's number be reused twice over by late results.
- *Trainer.* Two steps give two syncs, the second over what the first left queued;
  two parameters let an engine hold parts of both; the third shows a copy received
  one sync late because an earlier sync, of live parameters, raised.
- *Programs.* Three prompts on two threads give every order of completion, and a
  request that waits for a thread (the code has up to 16). Two steps are one before
  the first synchronisation and one after it; two runs are one that is cut off and
  one that meets what it left.
- *Ledger.* Budget 3 with contexts of 1 or 2 makes two small residents fit and two
  large ones not; three trajectories leave one to poll while two move. `Options`
  enumerates the deployments (stagger, prefix pulls, window, migration).
- *Shim.* Three threads are what it takes for one to publish another's file while
  a third truncates it; five requests include a repair after the disturbance.
- *Router.* Two starts are one that leaves something behind and one that meets it.
  Cap 1 with two requests makes the second wait for the first's place.

What some of the properties say that is easy to overlook:

- `PausedWhileUpdating`, `CommitLeavesPoolServing` and `RollbackRestoresService` except
  the engines that were *disturbed*, that is restarted or reached by a stale call
  while the lock was held. The controller cannot see these; that the exception is
  needed is a fact about the code, and the run fails without it.
- `RollbackRestoresService` is about an update that failed while it was streaming: the
  engines run again when the handler lets go of the lock, unless the rollback's own
  calls failed (`pool_rollback` shows when). An update that fails in its pause, reset
  or resume phase has no rollback in the code and may leave engines paused.
- `OnPolicyRollouts` excepts behaviours in which a copy was *displaced*: a sync raised,
  and it or a later one handed over a copy. A broadcast that was left queued is
  received in place of the next sync's, and from then on every sync delivers the
  one before. With live parameters the displacement does no harm, since a queued
  broadcast reads what is current when it runs. `NoMixedWeights` has no such
  exception.
- `LearnsFromItsRollouts` speaks of the policy only after the first synchronisation
  of a run, of programs that wake the weights before they update them (`WakesFirst`;
  `ppo_with_llmd.py` does not, see 6), and while the group is whole: an engine that
  joins later answers with the checkpoint under the pool's version until a new run
  forms the group again. That each response belongs to its prompt has no exception.
- `VersionsAdvance` is about the programs that resume from the controller's version;
  the deployed trainer and the llmd_verl example count from 0.
- `OwnProcesses` excepts behaviours in which a launcher was *abandoned*: it ended with
  children and without stop(), see 6.
- `CheckedResidentsFit` speaks of residents whose bookings were found to fit; the
  wave, forced placements after a timeout and leaders are booked without a check. It
  excepts two kinds of behaviour. When a trajectory has ended
  smaller than one of its turns, growth may be estimated negative, and the ledger
  finds room for residents that together exceed the budget: without the exception
  (`declined`) the run shows it. When a turn is booked smaller than the one before
  (`shrunk`), tokens stay booked that no resident uses, and growing again books them a
  second time; that takes three turns, one more than the instance has.

## 4. Fairness and deadlock

- `EnginePool!FairSpec`: weak fairness of the handlers' code and of the calls
  of a fan-out, since every call of the engine client has a timeout; strong fairness
  of the steps that need the lock (`Announce`, `Lock`, `Restore`), since
  `sync.RWMutex` hands the lock to waiters in turn. Nothing is assumed of clients,
  engines or generation.
- `EngineDiscovery!FairSpec`: weak fairness of the informer's delivery, of probes
  (they have a timeout) and of the end of a synchronisation; strong fairness of what
  waits for the lock.
- `TrainerSync!FairSpec`: only the trainer's own waits, each of which has a timeout.
  Nothing is assumed of the controller, the engines or the collectives, so `SyncEnds`
  does not say that a sync succeeds.
- `TrainingLoops!FairSpec`: weak fairness of the program itself, whose requests, calls
  and joins all have timeouts. Nothing is assumed of the controller, so `ProgramEnds`
  says that a program ends, not that it gets through.
- `AdmissionLedger!FairSpec`: every await wakes up in the end, because each has a
  timeout. Trajectories are not assumed to make progress.
- `EppRouting!FairSpec`: the launcher's polls and the coroutines run; the EPP
  dispatches what fits and ends streams that are over, and engines answer. The last
  two are assumptions about programs outside the repository: the client itself
  waits for a routing decision without a timeout, so without them nothing would
  hold. Refusal by the EPP, deaths, signals and cancellations are not assumed.

Deadlock is checked in the pool and discovery runs. The other instances end by
themselves: trajectories finish, the bounded requests of the shim are used up, the
training run has a last step, the programs are run twice, the launcher may be stopped
for good.

## 5. Proofs

All hold for arbitrary constants under the named assumption of the module.

| theorem | module | states |
|---|---|---|
| `TypeCorrect` | EnginePoolProofs | `Spec => []TypeOK` |
| `GroupCoversPool` | EnginePoolProofs | `Spec => []TransferGroupCoversPool` |
| `PausedDuringUpdate` | EnginePoolProofs | `Spec => []PausedWhileUpdating` |
| `SyncingOwned` | EnginePoolProofs | `Spec => []SyncingHasOwner` |
| `RollbackRestores` | EnginePoolProofs | `Spec => RollbackRestoresService` |
| `CommitServes` | EnginePoolProofs | `Spec => CommitLeavesPoolServing` |
| `PoolKeepsPromise` | EnginePoolProofs | `Spec => KeepsPromise`, the refinement |
| `DiscoveryTyped`, `ReadyEnginesWereProbed`, `WatcherMatchesPool` | EngineDiscoveryProofs | `[]TypeOK`, `[]ReadyWasProbed`, `[]WatcherAndPoolAgree` |
| `ShimTyped`, `HandlesAreUnique`, `FileIsRegistry`, `ListsAreWhole` | RegistrationShimProofs | `[]TypeOK`, `[]OneHandlePerUrl`, `[]FileFollowsRegistry`, `[]ReadersSeeWholeLists` |
| `ShimFeedsEpp` | RegistrationShimProofs | `Spec => FeedsTheRegistry`, the refinement |
| `TrainerTyped`, `WeightsAreWhole`, `RolloutsOnPolicy` | TrainerSyncProofs | `[]TypeOK`, `[]NoMixedWeights`, `[]OnPolicyRollouts` |
| `VersionsAreNew`, `LearnsFromItsOwn` | TrainingLoopsProofs | `Spec => VersionsAdvance`, `[]LearnsFromItsRollouts` |
| `LoopsKeepTypes`, `AdvantagesAreEstimates` | TrainingLoopsProofs | `[]TypeOK`, `[]AdvantagesAreGae` |
| `RoutingTyped`, `ReadyMeansOwn`, `CapBinds`, `NoAnswerLost` | EppRoutingProofs | `[]TypeOK`, `[]OwnProcesses`, `[]CapBindsLoad`, `[]AnswersKept` |
| `PullersFollow`, `WindowEmpties` | AdmissionLedgerProofs | `[]FollowersWaitForLeader`, `[]NobodyMissesTheWindow` |
| `LedgerTyped`, `NothingReleasedTwice`, `BooksBalance`, `HeadroomIsNotShared` | AdmissionLedgerProofs | `[]TypeOK`, `[]NeverUndercounts`, `[]GrowingContextsBalance`, `[]CheckedResidentsFit` |

*Pool.* The invariant is `TypeOK /\ HandlerInv /\ TransferGroupCoversPool /\ CycleInv`.
`HandlerInv` says that a request is in a fan-out exactly while it holds the lock, in a
fan-out of its own operation, and that an update got that far only with a group.
That makes membership steps impossible during an update, which is why
`TransferGroupCoversPool` survives until the commit. `CycleInv` is what the update
has achieved so far on undisturbed engines: those that answered the pause are
paused, in the update stage all are, those that answered the update have the
weights, from the reset on all have, and those that answered a resume or the rollback
run. `PausedWhileUpdating` is a part of it, and the commit and the end of the rollback
read `CommitLeavesPoolServing` and `RollbackRestoresService` off its last parts. For the
refinement, a commit maps to `Sync`, an init that succeeds to `Form`, membership
steps to `Reshape`, everything else to a stutter. `SyncingHasOwner` has its own
induction over the same invariant.

*Discovery.* `TypeOK /\ ProbeInv /\ CallInv`. `ProbeInv` ties a pending check to
the object it was made for: an answer recorded in a round implies that the object
itself was probed; an object that is ready was probed. `CallInv` says what the pool
holds in the middle of a callback, which is what makes the agreement hold after it.

*Shim.* The invariant relates threads and file: while requests do not overlap at most
one thread is busy, and its list, its file and the temporary path are its own; when
it has been alone from the start its list is the registry. Handles need that only
the event loop registers, one request at a time, and that ids are not repeated while
the process lives. For the refinement, a registration maps to `Come`, a removal that
finds its handle to `Go` (one engine, because a handle has one url), an undisturbed
replace to `Publish`, a start that overlaps and a failure to `Disturb`; `CalmInv` says
that without a disturbance whoever changes the registry is alone, and then what is
published is the registry (`SettledBefore`).

*Router.* Two invariants, one of the stack and one of the requests. `StackInv`: a
launcher not yet started has no process, one that waits for its EPP has no Envoy,
past `StopEnvoy` no Envoy of it runs, and, unless one was abandoned, all earlier
launchers' processes are dead; so whoever answers on a port is the current
launcher's (`OwnAnswer`), and it never reports ready for another's.
`RoutingInv`: a tracked request that was not cut keeps its stream open until its
engine has answered, hence is counted from its decision on; the count of an
endpoint stays in its cap, which needs the set of requests to be finite; and a
request that ends with an exception has an engine that was never called or
failed. The step `Stack` joins the two: it is any step of the first, and it cuts
exactly the requests whose streams it ends.

*Trainer.* `TypeOK` with eight parts (`LoopInv` to `SettledInv`), one for each thing an
engine's memory depends on. While the group is intact all ranks receive in step, so
the queue of collectives is always the rest of one model followed by whole ones
(`SendsInv`), and an update whose client is still there is the current one
(`RequestsInv`). What an engine has received of the current update is the beginning
of the model at the head of the queue, and the engines that are through with it have
all of one and the same model (`ReceivedInv`); the commit turns that into
`SettledInv`, from which nothing but a sleep leads away, because no engine has a call
left. `FirstInv` (nothing was left behind so far) and `LoadsInv` (what was left, and
what follows, are the parameters themselves) identify the model with the current
policy; without them it is only some model, which is what `NoMixedWeights` needs.

*Programs.* `LoopsTyped /\ CallsInv /\ OwnInv /\ VersionInv`. `CallsInv`: a run has one
call outstanding, it is that of the phase the program is in, and it carries the
program's version and model. `OwnInv`: once a call of this run that takes the lock
was answered, nothing of an earlier run is at work, and what of it still waits will
be refused because its client is gone. Hence, `VersionInv`, from the status that a
program resumes from the pool's version does not exceed the program's, and an update
that is under way lies strictly above the pool's. This proof needs of the programs
only that they form the group and read the status before their loop, and update
after that: `ProgramsAssumption`.
`LearnsFromItsOwn` adds the batch and the policy. `BatchInv` and `ResponsesInv`: what
is over, collected or returned answers its prompt, and the batch is gone before the
version changes; sorting puts answer k in place k because an increasing function of
1..n into itself is the identity (`Increasing`, by counting). `PolicyInv` is what
the calls of a step achieve one after the other: past the waking the weights are
mapped, past the update every engine has the policy and the pool its version, up to
the end of the next batch. `Synchronises` names what it needs of the loop.
`LoopsKeepTypes` and `AdvantagesAreEstimates` rest on `LearnerInv`, which adds to that
the counts. A step trains the policy once and then updates once (`TrainsOnce`): up to
the training in it the steps are fewer than `MaxSteps` (`StepsInv`), and the version is
at most what the runs before can have reached plus the steps of this one, less one
between the training and the posting of the update (`CappedInv`; the cap of run *l* is
*l* times the number of steps). That bounds the version of every call and answer
(`ServiceTyped`). As many prompts are over as there are entries finished and
collected (`OnceInv`), so none is there twice, and there are at most as many as
prompts. `LearningInv` and `GaeInv` follow a step from the scores to the actor: the
rewards and values that advantages are computed from have the length of this batch
(`EstimatesFirst`), and the advantages are `ComputeGae` of them until the actor has
learnt from them.
What that loop computes is shown apart (`GaeIsSum`): the fold over the positions
exists and goes from the last to the first, what it has after position t is the
suffix from t on, and a sequence that satisfies the recurrence is the discounted sum
(`DiscountedSum`, by the least number of terms for which it is not).

*Ledger.* `FollowersWaitForLeader` by `Shape /\ WaitInv /\ GroupInv /\ PullInv`: what
waits is in its turn 0; a ready group has a leader whose turn 0 has ended; who
pulls belongs to a ready group and does not lead it. A step is either *early*, in
turn 0 of a trajectory that therefore leads no ready group, or *late*, and then
makes ready only the groups its trajectory leads. `NobodyMissesTheWindow` is
inductive by itself.

*Books.* The books are sums over the residents of a replica. `SumTheorems` shows what
such a sum is worth, here and for the advantages. The recursive function inside `SumFunctionOnSet` exists
(`AddsExists`, by the least cardinality at which it would not), any element may be
taken out first (`AddsRemove`, by a minimal set for which that fails), and a sum whose
terms agree but for one element changes by that element (`SumChange`); a sum may be
scaled, and over an interval taken apart at its first term. The library's induction
theorems take operators, which the provers cannot instantiate; `WFMin`
with the orders of naturals and of finite subsets takes sets. The invariant is
`Books /\ CountInv /\ WindowInv` with the types of the rest. `PlaceInv` says where each
trajectory is: who waits, or has ended, has no replica and no history, who runs turn
t has the turns 0 to t, the last of them as large as it was booked. `BooksInv` says
that a replica is booked for at least the contexts of its residents, and while no
context has shrunk for exactly these; while no trajectory has declined either, the
*checked* residents alone are within the budget. That last part is stronger than `CheckedResidentsFit`, which says nothing of a
replica with one unchecked resident, and is needed because that one may leave. A
booking that was found to fit left room for all residents (the reserve is not
negative while no trajectory has declined); any other step adds nothing to the checked ones.
`BooksKept` is that argument for any step of one trajectory, given what its share of
each replica was and is. `CountInv` bounds the wave by who has passed the gate;
`WindowInv` says that a window has one opener, whose session is in it, so that the
batch it closes has a place for itself (`BatchCovers`: an injection of 1..n into a
set of n elements reaches all).

Only model-checked: the liveness properties (`HandlersReturn`, `PoolFollowsCluster`,
`HealthDecidesRotation`, `SyncEnds`, `ProgramEnds`, `AcquireReturns`,
`ExitsIfEitherDies`, `SlotsComeBack`), since liveness under fairness and ENABLED are
out of the prover's reach. Every other property of a passing run is a theorem.

## 6. Where code and documents disagree

Three runs are expected to be violated; each checks one sentence of the repository.

- `pool_rollback`. "On update failure the pool must resume engines before
  returning" (`engine_pool_test.go:181`). The rollback uses the request's
  context; when the failure was that the client hung up, every resume fails too
  and the engines stay paused.
- `ledger_drain`. `on_trajectory_done` is to release the bookings. A context that
  shrinks between two turns lowers the history, which is what is subtracted at the
  end, and not the booking; the difference stays for ever.
- `shim_removal`. The last removal has "to actually reach the file, or EPP keeps
  routing to an engine that is gone" (`endpoints.py:70-72`). Removal and registration
  write without a lock, so an older list may replace a newer one after both were
  answered.

Observed while modelling, without a run of their own:

- "WeightVersion is the weight version of the engine that generated this output"
  (`types.go:112`). The handler reads the server's version after the engine has
  answered, and an engine that joined since the last update has the checkpoint.
- `GenerateRequest.WeightVersion`: "If set, the controller validates that engines are
  running this version before dispatching". No handler reads the field.
- Any sync that raised displaces every copy handed over from then on by one
  (`displaced` above).
- `ppo_with_llmd.py:168` and `manager.py:46-58` put the engines to sleep at level 2,
  update, then wake them; `ppo_training_loop.py:273-274` and
  `grpo_training_loop.py:622-623` explain why weights must be woken before a
  transfer. In `TrainingLoops` the engines of that program serve what waking leaves
  in their memory.
- The deployed trainer and `nccl_weight_trainer.py` count versions from 0. A second
  run gives new models versions that the controller has given before, and lowers
  the pool's.
- A program that dies between its sleep and its wake leaves the engines asleep. A
  later run that generates first (all of them do) gets nothing: the deployed trainer
  and the llmd_verl example die of it, the PPO and GRPO examples learn one step from
  placeholders.
- `stop()` is there so that an exit does not orphan an EPP that holds its port
  (`router_stack.py:167-169`). A start-up that fails after the EPP was launched, or
  a signal before the handlers are installed, ends the command without `stop()`; the
  next `wait_port` then takes the old EPP for its own. This is `abandoned`.
- A trajectory that ends smaller than one of its turns makes the growth estimate
  negative (`admission.py:518-521`, averaged at 87-91). The reserve then adds to the
  headroom, and the ledger books more than its budget though it checked every
  booking. This is `declined`.
- An update announces its phase before it waits for the pool's lock. Another handler
  may write its own phase in between, so the status may say serving or sleeping
  while the update streams (`server.go:259`).
- A pause, reset or resume that fails on one engine returns an error without a
  rollback and leaves the engines it had paused as they are.
- A trajectory whose generate raised never releases its replica: the done hook
  runs only after the last turn returned.

## 7. What is not modelled

- *Data.* Parsing, token ids, protobuf bytes, file formats, names. Contexts are small
  numbers, lists of endpoints are sets of urls.
- *Group creation.* `init_nccl_group` on the trainer's side, with its store and its
  own join timeout: its failure modes are those of libraries outside the
  repository. On the controller's side it is a fan-out like the others.
- *Start-up code.* Configuration merging, mode resolution, Ray wiring, the wave
  admission launcher: sequential and finished before the first request.
- *Stateless parts.* The rollout client, llmd_serving, the search tool, the
  simulated engine client.
- *Training.* Rewards are any of two numbers; GRPO's group-relative advantages and the
  optimisers are one step; dry runs and the choice not to sleep (level 0).
- *Outside the core.* Workload generators, benchmark drivers, charts, deployment
  scripts, request logs, the sidecar's relay.
- *The estimator* of wave admission is an input: any of a few values.

`PROJECT.json` lists every component with its reason.

## 8. Plan

Order: the pool, its abstract specification and proofs; the ledger; discovery; the
registry; the trainer; the router and routing; the training programs. These are
done. Left, most valuable first:

1. *Abstract specifications.* The ledger as bookings against a budget, with headroom
   checked and booked in one step; the launcher as a service that is up as a whole or
   not at all.
2. *Proofs.* The refinements of these, step by step; then what follows from the
   abstract specifications alone, so that it need not be shown of the code again.
3. *More of the system.* Group creation with its two joins and its retry, for a
   repository whose store and communicator could be modelled from source; the EPP
   configuration's merge against a reference definition; the launcher of wave
   admission and the mode table; the sidecar's start and relay.
