----------------------------- MODULE RouterStack -----------------------------
(***************************************************************************)
(* The router stack: RouterStack launches an EPP and, if asked, an Envoy,  *)
(* and waits until something accepts connections on their ports.  It is    *)
(* driven by the llm-d-rl-router command (cli.py), which watches the two   *)
(* processes and answers signals, or by the RayRouter actor, which does    *)
(* neither.  The command runs beside other processes of a pod, so what it  *)
(* leaves behind is still there, on its ports, when it is started again.   *)
(***************************************************************************)
EXTENDS Naturals

CONSTANTS
  Setups,     \* the deployments: who drives the stack, and whether with Envoy
  MaxStarts   \* bound: how often the launcher is started

ASSUME StackAssumption ==
  MaxStarts \in Nat \ {0} /\ Setups \subseteq [watched : BOOLEAN, envoy : BOOLEAN]

VARIABLES
  setup,      \* the deployment
  starts,     \* launchers started so far; the last one is the current one
  at,         \* where the current launcher is
  child,      \* the processes each launcher has started
  abandoned   \* history: a launcher has ended without stopping its children

stackVars == <<setup, starts, at, child, abandoned>>

Part == {"epp", "envoy"}
Process == {"unborn", "booting", "listening", "dead"}
Launcher == 1..MaxStarts

StackInit ==
  /\ setup \in Setups
  /\ starts = 0 /\ at = "down"
  /\ child = [n \in Launcher |-> [p \in Part |-> "unborn"]]
  /\ abandoned = FALSE

Alive(n, p) == child[n][p] \in {"booting", "listening"}
Listening(p) == \E n \in Launcher : child[n][p] = "listening"
Set(n, p, state) == child' = [child EXCEPT ![n][p] = state]

Starting == at \in {"waitEpp", "waitEnvoy"}
Ended == at \in {"stopped", "failed"}

-----------------------------------------------------------------------------
(* The processes.                                                          *)

(* A process whose port is taken exits.                                    *)
Bind(n, p) ==
  /\ child[n][p] = "booting"
  /\ Set(n, p, IF Listening(p) THEN "dead" ELSE "listening")
  /\ UNCHANGED <<setup, starts, at, abandoned>>

Die(n, p) ==
  /\ Alive(n, p) /\ Set(n, p, "dead")
  /\ UNCHANGED <<setup, starts, at, abandoned>>

-----------------------------------------------------------------------------
(* The launcher.                                                           *)

(* An exception, or a signal nobody handles yet, ends the launcher and     *)
(* nobody calls stop().                                                    *)
Fail == at' = "failed" /\ abandoned' = TRUE

(* start_epp checks its paths before it launches anything: nothing is left *)
(* behind then.                                                            *)
StartEpp ==
  /\ at = "down" \/ Ended
  /\ starts < MaxStarts /\ starts' = starts + 1
  /\ \/ Set(starts + 1, "epp", "booting") /\ at' = "waitEpp" /\ UNCHANGED abandoned
     \/ at' = "failed" /\ UNCHANGED <<child, abandoned>>
  /\ UNCHANGED setup

(* wait_port accepts whoever listens.                                      *)
EppAnswers ==
  /\ at = "waitEpp" /\ Listening("epp")
  /\ \/ ~setup.envoy /\ at' = "serving" /\ UNCHANGED <<child, abandoned>>
     \/ /\ setup.envoy
        /\ \/ Set(starts, "envoy", "booting") /\ at' = "waitEnvoy" /\ UNCHANGED abandoned
           \/ Fail /\ UNCHANGED child
  /\ UNCHANGED <<setup, starts>>

EnvoyAnswers ==
  /\ at = "waitEnvoy" /\ Listening("envoy")
  /\ at' = "serving"
  /\ UNCHANGED <<setup, starts, child, abandoned>>

WaitTimesOut ==
  /\ Starting /\ Fail
  /\ UNCHANGED <<setup, starts, child>>

(* The signal handlers are installed after both ports have answered.       *)
EarlySignal ==
  /\ setup.watched /\ Starting /\ Fail
  /\ UNCHANGED <<setup, starts, child>>

(* SIGTERM or SIGINT to the command, or a call of RayRouter.stop().         *)
Signal ==
  /\ at = "serving" /\ at' = "stopEnvoy"
  /\ UNCHANGED <<setup, starts, child, abandoned>>

(* Faulty variant: only the EPP is polled.                                 *)
WatchEppOnly ==
  /\ setup.watched /\ at = "serving"
  /\ child[starts]["epp"] = "dead"
  /\ at' = "stopEnvoy"
  /\ UNCHANGED <<setup, starts, child, abandoned>>

Watch ==
  /\ setup.watched /\ at = "serving"
  /\ \E p \in Part : child[starts][p] = "dead"
  /\ at' = "stopEnvoy"
  /\ UNCHANGED <<setup, starts, child, abandoned>>

(* stop(): a process that still runs is terminated, or killed, and reaped  *)
(* before the next one is looked at.                                       *)
Reap(p) == IF Alive(starts, p) THEN Set(starts, p, "dead") ELSE UNCHANGED child

StopEnvoy ==
  /\ at = "stopEnvoy" /\ Reap("envoy") /\ at' = "stopEpp"
  /\ UNCHANGED <<setup, starts, abandoned>>

(* Faulty variant: the process is not waited for.                          *)
StopEppUnreaped ==
  /\ at = "stopEpp" /\ at' = "stopped"
  /\ UNCHANGED <<setup, starts, child, abandoned>>

StopEpp ==
  /\ at = "stopEpp" /\ Reap("epp") /\ at' = "stopped"
  /\ UNCHANGED <<setup, starts, abandoned>>

Processes == \E n \in Launcher, p \in Part : Bind(n, p) \/ Die(n, p)
Proceed == EppAnswers \/ EnvoyAnswers \/ WaitTimesOut \/ Watch \/ StopEnvoy \/ StopEpp

StackNext == StartEpp \/ Proceed \/ EarlySignal \/ Signal \/ Processes

StackSpec == StackInit /\ [][StackNext]_stackVars

-----------------------------------------------------------------------------
(* Properties.                                                             *)

StackTypeOK ==
  /\ setup \in Setups /\ starts \in 0..MaxStarts
  /\ at \in {"down", "waitEpp", "waitEnvoy", "serving", "stopEnvoy", "stopEpp", "stopped",
             "failed"}
  /\ child \in [Launcher -> [Part -> Process]] /\ abandoned \in BOOLEAN

(* As long as no launcher ended with children and without stop(), one that *)
(* says it is ready heard its own processes answer and nobody else's, and  *)
(* one that has ended, also by a path check before it launched anything,   *)
(* leaves none behind, so the next one finds its ports free.  Envoy is     *)
(* gone before the EPP it routes by.                                       *)
OwnProcesses ==
  /\ at = "stopEpp" => ~Alive(starts, "envoy")
  /\ ~abandoned =>
       /\ at = "serving" => child[starts]["epp"] # "booting" /\ child[starts]["envoy"] # "booting"
       /\ \A n \in Launcher, p \in Part : n < starts \/ Ended => ~Alive(n, p)

(* The docs say of the command that it "exits if either dies"              *)
(* (integrations/vime/docs/deploying.md): it never goes on with a process  *)
(* missing, although another may be answering on its port.                 *)
ExitsIfEitherDies ==
  setup.watched /\ (Starting \/ at = "serving") /\ (\E p \in Part : child[starts][p] = "dead")
    ~> Ended
=============================================================================
