------------------------ MODULE TrainingLoopsProofs ------------------------
(***************************************************************************)
(* What holds of the training programs for any number of engines, prompts, *)
(* steps, runs and faults, and for any programs of the assumed shape.      *)
(***************************************************************************)
EXTENDS TrainingLoops, SequenceTheorems, SumTheorems

Starts == Len(prog.startup)
Loops == Len(prog.loop)
Phase == Code(prog)[at]

(* Phases in which a call is posted, and those of them whose call takes    *)
(* the pool's lock.                                                        *)
Locking == {"status", "init", "sleep", "update", "wakeWeights", "wakeCache", "wakeAll"}
Posting == Locking \cup {"version"}

-----------------------------------------------------------------------------
(* The parts of the inductive invariant.                                   *)

LoopsTyped ==
  /\ prog \in Programs /\ at \in 0..Len(Code(prog))
  /\ life \in Nat /\ step \in Nat /\ version \in Nat /\ poolVersion \in Nat
  /\ reply.version \in Nat

(* A run has one call outstanding, of the phase it is in.                  *)
CallsInv ==
  /\ \A c \in inbox \cup running : c.life \in 0..life /\ c.version \in Nat
  /\ \A c, d \in running : c = d
  /\ \A c, d \in inbox : c.life = life /\ d.life = life => c = d
  /\ \A c \in running, d \in inbox : ~(c.life = life /\ d.life = life)
  /\ at # 0 => \A c \in inbox \cup running : c.life = life =>
       /\ reply = NoReply /\ c.op = Phase /\ c.op \in Posting
       /\ c.version = version /\ c.model = Policy
  /\ reply # NoReply => at # 0 /\ Phase \in Posting

(* Once a call of this run has had the lock the calls of earlier runs are  *)
(* over, or will be refused.                                               *)
Locked == \E k \in 1..Starts : k < at /\ prog.startup[k] \in Locking

OwnInv ==
  at # 0 =>
    /\ Locked => \A c \in running : c.life = life
    /\ Phase \in Locking /\ reply.got = "ok" => running = {}

(* A program that resumes knows the pool's version from then on.           *)
Resumed == \E k \in 1..Starts : k < at /\ prog.startup[k] = "status"

VersionInv ==
  prog.resumes /\ at # 0 =>
    /\ Resumed => poolVersion <= version
    /\ Resumed => \A c \in inbox \cup running :
                    c.life = life /\ c.op = "update" => poolVersion < version
    /\ Phase = "status" /\ reply.got = "ok" => poolVersion <= reply.version

-----------------------------------------------------------------------------
(* The phases.                                                             *)

LEMMA Programmed ==
  ASSUME NEW p \in Programs
  PROVE  /\ p.startup \in Seq(STRING) /\ p.loop \in Seq(STRING) /\ p.closing \in Seq(STRING)
         /\ Len(p.startup) \in Nat \ {0} /\ Len(p.loop) \in Nat \ {0} /\ Len(p.closing) \in Nat
         /\ DOMAIN p.startup = 1..Len(p.startup) /\ DOMAIN p.loop = 1..Len(p.loop)
         /\ DOMAIN p.closing = 1..Len(p.closing)
         /\ p.prompts \in Nat
  <1>1. /\ p.startup \in Seq(STRING) /\ p.loop \in Seq(STRING) /\ p.closing \in Seq(STRING)
        /\ p.startup # <<>> /\ p.loop # <<>> /\ p.prompts \in 0..BatchSize
    BY ProgramsAssumption
  <1>2. p.prompts \in Nat
    BY <1>1, SizesAssumption
  <1> QED
    BY <1>1, <1>2, LenProperties, EmptySeq

LEMMA Coded ==
  ASSUME NEW p \in Programs
  PROVE  /\ Len(Code(p)) = Len(p.startup) + Len(p.loop) + Len(p.closing)
         /\ \A k \in 1..Len(p.startup) : Code(p)[k] = p.startup[k]
         /\ \A k \in 1..Len(p.loop) : Code(p)[Len(p.startup) + k] = p.loop[k]
         /\ \A k \in 1..Len(p.closing) :
              Code(p)[Len(p.startup) + Len(p.loop) + k] = p.closing[k]
  <1> DEFINE s == p.startup
             l == p.loop
             c == p.closing
  <1>1. /\ s \in Seq(STRING) /\ l \in Seq(STRING) /\ c \in Seq(STRING)
        /\ Len(s) \in Nat /\ Len(l) \in Nat /\ Len(c) \in Nat
    BY Programmed
  <1>2. Code(p) = (s \o l) \o c
    BY DEF Code
  <1> HIDE DEF s, l, c
  <1>3. /\ s \o l \in Seq(STRING) /\ Len(s \o l) = Len(s) + Len(l)
        /\ \A k \in 1..Len(s) + Len(l) :
             (s \o l)[k] = IF k <= Len(s) THEN s[k] ELSE l[k - Len(s)]
    BY <1>1, ConcatProperties
  <1>4. /\ Len((s \o l) \o c) = Len(s \o l) + Len(c)
        /\ \A k \in 1..Len(s \o l) + Len(c) :
             ((s \o l) \o c)[k] = IF k <= Len(s \o l) THEN (s \o l)[k] ELSE c[k - Len(s \o l)]
    BY <1>1, <1>3, ConcatProperties
  <1>5. Len(Code(p)) = Len(s) + Len(l) + Len(c)
    BY <1>2, <1>3, <1>4
  <1>6. ASSUME NEW k \in 1..Len(s) PROVE Code(p)[k] = s[k]
    <2>1. k \in 1..Len(s) + Len(l) /\ k \in 1..Len(s) + Len(l) + Len(c) /\ k <= Len(s)
          /\ k <= Len(s) + Len(l)
      BY <1>1
    <2> QED
      BY <1>2, <1>3, <1>4, <2>1
  <1>7. ASSUME NEW k \in 1..Len(l) PROVE Code(p)[Len(s) + k] = l[k]
    <2>1. /\ Len(s) + k \in 1..Len(s) + Len(l) /\ Len(s) + k \in 1..Len(s) + Len(l) + Len(c)
          /\ ~(Len(s) + k <= Len(s)) /\ Len(s) + k <= Len(s) + Len(l)
          /\ (Len(s) + k) - Len(s) = k
      BY <1>1
    <2> QED
      BY <1>2, <1>3, <1>4, <2>1
  <1>8. ASSUME NEW k \in 1..Len(c) PROVE Code(p)[Len(s) + Len(l) + k] = c[k]
    <2>1. /\ Len(s) + Len(l) + k \in 1..Len(s) + Len(l) + Len(c)
          /\ ~(Len(s) + Len(l) + k <= Len(s) + Len(l))
          /\ (Len(s) + Len(l) + k) - (Len(s) + Len(l)) = k
      BY <1>1
    <2> QED
      BY <1>2, <1>3, <1>4, <2>1
  <1> QED
    BY <1>5, <1>6, <1>7, <1>8 DEF s, l, c

LEMMA Sized ==
  ASSUME LoopsTyped
  PROVE  /\ Starts \in Nat \ {0} /\ Loops \in Nat \ {0}
         /\ Len(Code(prog)) \in Nat /\ Starts + Loops <= Len(Code(prog))
         /\ \A k \in 1..Starts : Code(prog)[k] = prog.startup[k]
         /\ \A k \in 1..Loops : Code(prog)[Starts + k] = prog.loop[k]
  <1>1. prog \in Programs
    BY DEF LoopsTyped
  <1>2. /\ Starts \in Nat \ {0} /\ Loops \in Nat \ {0} /\ Len(prog.closing) \in Nat
    BY <1>1, Programmed DEF Starts, Loops
  <1>3. /\ Len(Code(prog)) = Starts + Loops + Len(prog.closing)
        /\ \A k \in 1..Starts : Code(prog)[k] = prog.startup[k]
        /\ \A k \in 1..Loops : Code(prog)[Starts + k] = prog.loop[k]
    BY <1>1, Coded DEF Starts, Loops
  <1>4. Len(Code(prog)) \in Nat /\ Starts + Loops <= Len(Code(prog))
    <2>1. \A a, b \in Nat \ {0}, c \in Nat : a + b + c \in Nat /\ a + b <= a + b + c
      OBVIOUS
    <2> QED
      BY <1>2, <1>3, <2>1
  <1> QED
    BY <1>2, <1>3, <1>4

(* Where a program goes.                                                   *)
LEMMA Advances ==
  ASSUME LoopsTyped, Advance, at # 0
  PROVE  /\ at' \in 0..Len(Code(prog))
         /\ at' # 0 =>
              at' = at + 1 \/ (at = Starts + Loops /\ step < MaxSteps /\ at' = Starts + 1)
  <1>1. /\ at \in 1..Len(Code(prog)) /\ Len(Code(prog)) \in Nat
        /\ Starts \in Nat \ {0} /\ Loops \in Nat \ {0} /\ Starts + Loops <= Len(Code(prog))
    BY Sized DEF LoopsTyped
  <1>2. CASE at = Starts + Loops /\ step < MaxSteps
    <2>1. at' = Starts + 1
      BY <1>2 DEF Advance, Starts, Loops
    <2> QED
      BY <1>1, <1>2, <2>1
  <1>3. CASE ~(at = Starts + Loops /\ step < MaxSteps)
    <2>1. at' = (at + 1) % (Len(Code(prog)) + 1)
      BY <1>3 DEF Advance, Starts, Loops
    <2>2. CASE at = Len(Code(prog))
      BY <1>1, <2>1, <2>2
    <2>3. CASE at < Len(Code(prog))
      BY <1>1, <2>1, <2>3
    <2> QED
      BY <1>1, <2>2, <2>3
  <1> QED
    BY <1>2, <1>3

(* What lies behind it then.                                               *)
LEMMA Passed ==
  ASSUME LoopsTyped, Advance, at # 0, at' # 0, prog' = prog,
         NEW k \in 1..Starts, k < at'
  PROVE  k < at \/ (k = at /\ Phase = prog.startup[k])
  BY Sized, Advances DEF LoopsTyped, Phase

-----------------------------------------------------------------------------
(* What a step may be to the calls of the controller.                      *)

Stays == UNCHANGED <<prog, life, at, step, version, reply, controller, engines>>

Moves ==
  /\ at # 0 /\ Phase \notin Posting /\ Advance
  /\ step' \in {step, step + 1}
  /\ UNCHANGED <<prog, life, version, reply, controller, engines>>

Posts ==
  \E op \in Posting : In(op) /\ Post(op, IF op = "update" THEN version + 1 ELSE version)

Ends == Exit /\ UNCHANGED <<controller, engines>>

Serves == AnswerVersion \/ Take \/ Complete \/ Break \/ Replaced \/ ControllerRestarts

LEMMA Steps ==
  ASSUME LoopsTyped, Next
  PROVE  Stays \/ Moves \/ Posts \/ Returns \/ Ends \/ Rerun \/ Serves
  <1>1. CASE Answered \/ Collect
    BY <1>1 DEF Answered, Collect, Stays, run
  <1>2. CASE Failed
    BY <1>2 DEF Failed, Stays, Ends, run
  <1>3. CASE \/ BatchReturns \/ Reward \/ RefLogProbs \/ Values \/ Advantages \/ Actor \/ Critic
    BY <1>3 DEF BatchReturns, Reward, RefLogProbs, Values, Advantages, Actor, Critic, Proceed,
                In, Moves, Phase, Posting, Locking, run
  <1>4. CASE \/ GetStatus \/ GetVersion \/ InitTransfer \/ SleepEngines \/ UpdateWeights
             \/ WakeWeights \/ WakeCache \/ WakeAll
    BY <1>4 DEF GetStatus, GetVersion, InitTransfer, SleepEngines, UpdateWeights, WakeWeights,
                WakeCache, WakeAll, Posts, Posting, Locking
  <1>5. CASE Health \/ WaitForReady \/ Join
    BY <1>5 DEF Health, WaitForReady, Join, Proceed, In, Moves, Ends, Phase, Posting, Locking, run
  <1>6. CASE NoEngineReady \/ Raises \/ TimesOut \/ Killed
    BY <1>6 DEF NoEngineReady, Raises, TimesOut, Killed, Ends
  <1> QED
    BY <1>1, <1>2, <1>3, <1>4, <1>5, <1>6 DEF Next, Generating, Learning, Calling, Serves

LEMMA LoopsStayTyped ==
  ASSUME LoopsTyped, CallsInv, Next
  PROVE  LoopsTyped'
  <1>1. CASE Stays
    BY <1>1 DEF Stays, LoopsTyped, controller
  <1>2. CASE Moves
    BY <1>2, Advances DEF Moves, LoopsTyped, controller
  <1>3. CASE Posts
    BY <1>3 DEF Posts, Post, LoopsTyped
  <1>4. CASE Returns /\ at # 0
    BY <1>4, Advances DEF Returns, NoReply, LoopsTyped, controller
  <1>5. CASE Ends
    BY <1>5 DEF Ends, Exit, Cleared, NoReply, LoopsTyped, controller
  <1>6. CASE Rerun
    <2>1. prog' \in Programs /\ at' = 1 /\ life' = life + 1 /\ step' = 0 /\ version' = 0
          /\ reply'.version = 0 /\ poolVersion' = poolVersion
      BY <1>6 DEF Rerun, Cleared, NoReply, controller
    <2>2. Len(Code(prog')) \in Nat \ {0}
      <3>1. \A p \in Programs : Len(Code(p)) \in Nat \ {0}
        <4> TAKE p \in Programs
        <4>1. /\ Len(p.startup) \in Nat \ {0} /\ Len(p.loop) \in Nat \ {0}
              /\ Len(p.closing) \in Nat
          BY Programmed
        <4>2. Len(Code(p)) = Len(p.startup) + Len(p.loop) + Len(p.closing)
          BY Coded
        <4>3. \A a, b \in Nat \ {0}, c \in Nat : a + b + c \in Nat \ {0}
          OBVIOUS
        <4> QED
          BY <4>1, <4>2, <4>3
      <3> QED
        BY <2>1, <3>1
    <2> QED
      BY <2>1, <2>2 DEF LoopsTyped
  <1>7. CASE AnswerVersion \/ Take \/ Replaced \/ ControllerRestarts
    BY <1>7 DEF AnswerVersion, Take, Replaced, ControllerRestarts, AnswerTo, Refusal, LoopsTyped,
                run
  <1>8. CASE Complete \/ Break
    <2>1. \A c \in running : c.version \in Nat
      BY DEF CallsInv
    <2> QED
      BY <1>8, <2>1 DEF Complete, Break, AnswerTo, Refusal, LoopsTyped, run
  <1>9. Returns => at # 0
    BY DEF Returns, CallsInv, NoReply
  <1> QED
    BY <1>1, <1>2, <1>3, <1>4, <1>5, <1>6, <1>7, <1>8, <1>9, Steps DEF Serves

-----------------------------------------------------------------------------
(* The calls.                                                              *)

(* Without a call outstanding a program may go where it likes.             *)
LEMMA NoCall ==
  ASSUME CallsInv, at # 0, Phase \notin Posting \/ reply # NoReply
  PROVE  \A c \in inbox \cup running : c.life # life
  BY DEF CallsInv

LEMMA Answers ==
  /\ NoReply.got = "none" /\ Refusal.got = "error" /\ Refusal # NoReply
  /\ \A v : LET r == [got |-> "ok", version |-> v]
           IN r.got = "ok" /\ r.version = v /\ r # NoReply
  BY DEF NoReply, Refusal

(* What becomes of the reply.                                              *)
LEMMA Answering ==
  ASSUME NEW c, NEW r, AnswerTo(c, r)
  PROVE  reply' = reply \/ (c.life = life /\ at # 0 /\ reply' = r)
  BY DEF AnswerTo, Abandoned

LEMMA CallsKept ==
  ASSUME LoopsTyped, CallsInv, Next
  PROVE  CallsInv'
  <1>1. CASE Stays
    BY <1>1 DEF Stays, CallsInv, Phase, Policy, controller
  <1>2. CASE Moves
    <2>1. \A c \in inbox \cup running : c.life # life
      BY <1>2, NoCall DEF Moves
    <2>2. reply = NoReply
      BY <1>2 DEF Moves, CallsInv
    <2> QED
      BY <1>2, <2>1, <2>2 DEF Moves, CallsInv, controller
  <1>3. CASE Returns
    <2>1. reply # NoReply /\ at # 0
      BY <1>3 DEF Returns, NoReply, CallsInv
    <2>2. \A c \in inbox \cup running : c.life # life
      BY <2>1, NoCall
    <2> QED
      BY <1>3, <2>2 DEF Returns, CallsInv, controller
  <1>4. CASE Posts
    <2> PICK op \in Posting, v \in {version, version + 1} : In(op) /\ Post(op, v)
      BY <1>4 DEF Posts
    <2>1. /\ \A c \in inbox \cup running : c.life # life
          /\ at # 0 /\ Phase = op /\ reply = NoReply
          /\ version' = v /\ inbox' = inbox \cup {Call(op, v)}
          /\ UNCHANGED <<prog, life, at, step, running, reply>>
      BY DEF Post, In, Phase, Awaiting
    <2>2. /\ Call(op, v).life = life /\ Call(op, v).op = op /\ Call(op, v).version = v
          /\ Call(op, v).model = Policy
      BY DEF Call
    <2>3. life \in Nat /\ v \in Nat
      BY DEF LoopsTyped
    <2> QED
      BY <2>1, <2>2, <2>3 DEF CallsInv, Phase, Policy
  <1>5. CASE Ends
    BY <1>5 DEF Ends, Exit, Cleared, CallsInv, controller
  <1>6. CASE Rerun
    <2>1. life' = life + 1 /\ life \in Nat /\ reply' = NoReply /\ UNCHANGED <<inbox, running>>
      BY <1>6 DEF Rerun, Cleared, LoopsTyped, controller
    <2>2. \A c \in inbox \cup running : c.life \in 0..life' /\ c.life # life'
      BY <2>1 DEF CallsInv
    <2> QED
      BY <2>1, <2>2 DEF CallsInv
  <1>7. CASE AnswerVersion \/ Take \/ Complete \/ Break
    <2> PICK c \in inbox \cup running :
          /\ inbox' \subseteq inbox /\ running' \subseteq running \cup {c}
          /\ running' # running =>
               running' = {} \/ (running = {} /\ running' = {c} /\ c \notin inbox')
          /\ \/ UNCHANGED reply
             \/ /\ c.life = life /\ at # 0 /\ reply' # NoReply
                /\ c \notin inbox' /\ c \notin running'
      <3>1. CASE AnswerVersion
        <4> PICK c \in inbox :
              inbox' = inbox \ {c} /\ AnswerTo(c, [got |-> "ok", version |-> poolVersion])
          BY <3>1 DEF AnswerVersion
        <4>1. running' = running
          BY <3>1 DEF AnswerVersion
        <4>2. UNCHANGED reply \/ (c.life = life /\ at # 0 /\ reply' # NoReply)
          BY Answering, Answers
        <4>3. c.life = life => c \notin running
          BY DEF CallsInv
        <4> QED
          BY <4>1, <4>2, <4>3
      <3>2. CASE Take
        BY <3>2 DEF Take, AnswerTo, Abandoned, Refusal, NoReply
      <3>3. CASE Complete \/ Break
        <4> PICK c \in running, r \in {Refusal, [got |-> "ok", version |-> poolVersion']} :
              running' = {} /\ AnswerTo(c, r)
          BY <3>3 DEF Complete, Break
        <4>1. inbox' = inbox /\ r # NoReply
          BY <3>3, Answers DEF Complete, Break
        <4>2. UNCHANGED reply \/ (c.life = life /\ at # 0 /\ reply' # NoReply)
          BY <4>1, Answering
        <4>3. c.life = life => c \notin inbox
          BY DEF CallsInv
        <4> QED
          BY <4>1, <4>2, <4>3
      <3> QED
        BY <1>7, <3>1, <3>2, <3>3
    <2>1. UNCHANGED <<prog, life, at, step, version>>
      BY <1>7 DEF AnswerVersion, Take, Complete, Break, run
    <2>2. ASSUME reply' # reply
          PROVE  \A d \in inbox' \cup running' : d.life # life
      BY <2>2 DEF CallsInv
    <2> QED
      BY <2>1, <2>2 DEF CallsInv, Phase, Policy
  <1>8. CASE Replaced
    BY <1>8 DEF Replaced, CallsInv, Phase, Policy, run
  <1>9. CASE ControllerRestarts
    <2>1. /\ inbox' = {} /\ running = {} /\ running' = {}
          /\ UNCHANGED <<prog, life, at, step, version>>
          /\ reply' = IF Awaiting /\ at # 0 THEN Refusal ELSE reply
      BY <1>9 DEF ControllerRestarts, run
    <2>2. Awaiting /\ at # 0 => Phase \in Posting
      BY DEF Awaiting, CallsInv
    <2> QED
      BY <2>1, <2>2 DEF CallsInv, Phase
  <1> QED
    BY <1>1, <1>2, <1>3, <1>4, <1>5, <1>6, <1>7, <1>8, <1>9, Steps DEF Serves

-----------------------------------------------------------------------------
(* The lock.                                                               *)

(* A program that goes on has an answer; nothing of its run is at work.    *)
LEMMA OwnKept ==
  ASSUME LoopsTyped, CallsInv, OwnInv, Next
  PROVE  OwnInv'
  <1> SUFFICES ASSUME at' # 0 PROVE OwnInv'
    BY DEF OwnInv
  <1>1. CASE Stays
    BY <1>1 DEF Stays, OwnInv, Locked, Phase, Starts, controller
  <1>2. CASE Moves
    <2>1. reply = NoReply
      BY <1>2 DEF Moves, CallsInv
    <2>2. Locked' => Locked
      <3> SUFFICES ASSUME NEW k \in 1..Starts, k < at', prog.startup[k] \in Locking PROVE Locked
        BY <1>2 DEF Moves, Locked, Starts
      <3>1. k < at \/ (k = at /\ Phase = prog.startup[k])
        BY <1>2, Passed DEF Moves
      <3> QED
        BY <1>2, <3>1 DEF Moves, Posting, Locked
    <2> QED
      BY <1>2, <2>1, <2>2, Answers DEF Moves, OwnInv, controller
  <1>3. CASE Returns
    <2>1. at # 0 /\ reply.got = "ok" /\ reply' = NoReply /\ Advance
          /\ UNCHANGED <<prog, life, running>>
      BY <1>3, Answers DEF Returns, CallsInv, controller
    <2>2. ASSUME Locked' PROVE \A c \in running : c.life = life
      <3> PICK k \in 1..Starts : k < at' /\ prog.startup[k] \in Locking
        BY <2>1, <2>2 DEF Locked, Starts
      <3>1. k < at \/ (k = at /\ Phase = prog.startup[k])
        BY <2>1, Passed
      <3>2. CASE k < at
        BY <2>1, <3>2 DEF OwnInv, Locked
      <3>3. CASE k = at /\ Phase = prog.startup[k]
        BY <2>1, <3>3 DEF OwnInv
      <3> QED
        BY <3>1, <3>2, <3>3
    <2> QED
      BY <2>1, <2>2, Answers DEF OwnInv
  <1>4. CASE Posts
    BY <1>4, Answers DEF Posts, Post, OwnInv, Locked, Starts
  <1>5. CASE Ends
    BY <1>5 DEF Ends, Exit
  <1>6. CASE Rerun
    BY <1>6, Answers DEF Rerun, Cleared, OwnInv, Locked, Starts
  <1>7. CASE AnswerVersion
    <2> PICK c \in inbox :
          c.op = "version" /\ AnswerTo(c, [got |-> "ok", version |-> poolVersion])
      BY <1>7 DEF AnswerVersion
    <2>1. UNCHANGED <<prog, life, at, running>>
      BY <1>7 DEF AnswerVersion, run
    <2>2. CASE reply' = reply
      BY <2>1, <2>2 DEF OwnInv, Locked, Phase, Starts
    <2>3. CASE c.life = life /\ at # 0
      <3>1. Phase = "version"
        BY <2>3 DEF CallsInv
      <3> QED
        BY <2>1, <3>1 DEF OwnInv, Locked, Locking, Phase, Starts
    <2> QED
      BY <2>2, <2>3, Answering
  <1>8. CASE Take
    <2> PICK c \in inbox :
          IF Abandoned(c) \/ (c.op = "update" /\ ~grouped)
          THEN AnswerTo(c, Refusal) /\ UNCHANGED running
          ELSE running' = {c} /\ UNCHANGED reply
      BY <1>8 DEF Take
    <2>1. UNCHANGED <<prog, life, at>> /\ running = {}
      BY <1>8 DEF Take, run
    <2>2. CASE Abandoned(c) \/ (c.op = "update" /\ ~grouped)
      <3>1. running' = {}
        BY <2>1, <2>2
      <3> QED
        BY <3>1 DEF OwnInv
    <2>3. CASE ~(Abandoned(c) \/ (c.op = "update" /\ ~grouped))
      <3>1. running' = {c} /\ c.life = life /\ UNCHANGED reply
        BY <2>3 DEF Abandoned
      <3>2. reply = NoReply
        BY <2>1, <3>1 DEF CallsInv
      <3> QED
        BY <2>1, <3>1, <3>2, Answers DEF OwnInv
    <2> QED
      BY <2>2, <2>3
  <1>9. CASE Complete \/ Break
    BY <1>9 DEF Complete, Break, OwnInv
  <1>10. CASE Replaced
    BY <1>10 DEF Replaced, OwnInv, run
  <1>11. CASE ControllerRestarts
    BY <1>11 DEF ControllerRestarts, OwnInv, run
  <1> QED
    BY <1>1, <1>2, <1>3, <1>4, <1>5, <1>6, <1>7, <1>8, <1>9, <1>10, <1>11, Steps DEF Serves

-----------------------------------------------------------------------------
(* The versions.                                                           *)

(* Past its start a program has had the lock, and knows the version if it  *)
(* resumes.                                                                *)
LEMMA Started ==
  ASSUME LoopsTyped, at > Starts
  PROVE  Locked /\ (prog.resumes => Resumed)
  <1>1. prog \in Programs /\ DOMAIN prog.startup = 1..Starts
    BY Programmed DEF LoopsTyped, Starts
  <1>2. \A k \in 1..Starts : k < at
    BY <1>1, Sized DEF LoopsTyped
  <1>3. Locked
    BY <1>1, <1>2, ProgramsAssumption DEF Locked, Locking
  <1>4. prog.resumes => Resumed
    BY <1>1, <1>2, ProgramsAssumption DEF Resumed
  <1> QED
    BY <1>3, <1>4

(* ... and updates happen there.                                           *)
LEMMA UpdatesInLoop ==
  ASSUME LoopsTyped, at # 0, Phase \in {"generate", "actor", "update"}
  PROVE  at > Starts
  <1>1. prog \in Programs /\ DOMAIN prog.startup = 1..Starts
    BY Programmed DEF LoopsTyped, Starts
  <1>2. at \in Nat /\ Starts \in Nat
    BY Sized DEF LoopsTyped
  <1>3. ASSUME at \in 1..Starts PROVE FALSE
    <2>1. Phase = prog.startup[at]
      BY <1>3, Sized DEF Phase
    <2> QED
      BY <1>1, <1>3, <2>1, ProgramsAssumption
  <1> QED
    BY <1>2, <1>3

LEMMA ResumedMoves ==
  ASSUME LoopsTyped, at # 0, Advance, at' # 0, prog' = prog, Resumed'
  PROVE  Resumed \/ (Phase = "status" /\ Starting)
  <1> PICK k \in 1..Starts : k < at' /\ prog.startup[k] = "status"
    BY DEF Resumed, Starts
  <1>1. k < at \/ (k = at /\ Phase = prog.startup[k])
    BY Passed
  <1> QED
    BY <1>1 DEF Resumed, Starting, Starts

LEMMA VersionKept ==
  ASSUME LoopsTyped, CallsInv, OwnInv, VersionInv, Next
  PROVE  VersionInv'
  <1> SUFFICES ASSUME prog'.resumes, at' # 0 PROVE VersionInv'
    BY DEF VersionInv
  <1>1. CASE Stays
    BY <1>1 DEF Stays, VersionInv, Resumed, Phase, Starts, controller
  <1>2. CASE Moves
    <2>1. reply = NoReply /\ \A c \in inbox \cup running : c.life # life
      BY <1>2, NoCall DEF Moves, CallsInv
    <2>2. Resumed' => Resumed
      BY <1>2, ResumedMoves DEF Moves, Posting, Locking
    <2> QED
      BY <1>2, <2>1, <2>2, Answers DEF Moves, VersionInv, controller
  <1>3. CASE Returns
    <2>1. at # 0 /\ reply.got = "ok" /\ reply # NoReply /\ reply' = NoReply /\ Advance
          /\ UNCHANGED <<prog, life, inbox, running, poolVersion>>
          /\ version' = IF Resuming THEN reply.version ELSE version
      BY <1>3, Answers DEF Returns, CallsInv, controller
    <2>2. \A c \in inbox \cup running : c.life # life
      BY <2>1, NoCall
    <2>3. Resumed' => poolVersion <= version'
      <3> SUFFICES ASSUME Resumed' PROVE poolVersion <= version'
        OBVIOUS
      <3>1. CASE Resuming
        BY <2>1, <3>1 DEF VersionInv, Resuming, In, Phase
      <3>2. CASE ~Resuming
        <4>1. Resumed \/ (Phase = "status" /\ Starting)
          BY <2>1, ResumedMoves
        <4>2. Resumed
          BY <2>1, <3>2, <4>1 DEF Resuming, In, Phase
        <4> QED
          BY <2>1, <3>2, <4>2 DEF VersionInv
      <3> QED
        BY <3>1, <3>2
    <2> QED
      BY <2>1, <2>2, <2>3, Answers DEF VersionInv
  <1>4. CASE Posts
    <2> PICK op \in Posting :
          In(op) /\ Post(op, IF op = "update" THEN version + 1 ELSE version)
      BY <1>4 DEF Posts
    <2> DEFINE v == IF op = "update" THEN version + 1 ELSE version
    <2>1. /\ \A c \in inbox \cup running : c.life # life
          /\ at # 0 /\ Phase = op /\ reply = NoReply
          /\ version' = v /\ inbox' = inbox \cup {Call(op, v)} /\ Call(op, v).op = op
          /\ UNCHANGED <<prog, life, at, running, reply, poolVersion>>
      BY DEF Post, In, Phase, Awaiting, Call
    <2>2. Resumed' => poolVersion <= version /\ Resumed
      BY <2>1 DEF VersionInv, Resumed, Starts
    <2>3. version \in Nat /\ poolVersion \in Nat
      BY DEF LoopsTyped
    <2>4. version <= v /\ (op = "update" => version < v)
      BY <2>3
    <2>5. v \in Nat
      BY <2>3
    <2> HIDE DEF v
    <2>6. Resumed' => poolVersion' <= version'
      BY <2>1, <2>2, <2>3, <2>4, <2>5
    <2>7. ASSUME Resumed', NEW c \in inbox' \cup running', c.life = life', c.op = "update"
          PROVE  poolVersion' < version'
      <3>1. c = Call(op, v)
        BY <2>1, <2>7
      <3> QED
        BY <2>1, <2>2, <2>3, <2>4, <2>5, <2>7, <3>1
    <2>8. reply'.got # "ok"
      BY <2>1, Answers
    <2> QED
      BY <2>6, <2>7, <2>8 DEF VersionInv
  <1>5. CASE Ends
    BY <1>5 DEF Ends, Exit
  <1>6. CASE Rerun
    BY <1>6, Answers DEF Rerun, Cleared, VersionInv, Resumed, Starts
  <1>7. CASE AnswerVersion
    <2> PICK c \in inbox :
          /\ c.op = "version" /\ inbox' = inbox \ {c}
          /\ AnswerTo(c, [got |-> "ok", version |-> poolVersion])
      BY <1>7 DEF AnswerVersion
    <2>1. UNCHANGED <<prog, life, at, version, running, poolVersion>>
      BY <1>7 DEF AnswerVersion, run
    <2>2. CASE reply' = reply
      BY <2>1, <2>2 DEF VersionInv, Resumed, Phase, Starts
    <2>3. CASE c.life = life /\ at # 0
      <3>1. Phase = "version"
        BY <2>3 DEF CallsInv
      <3> QED
        BY <2>1, <3>1 DEF VersionInv, Resumed, Phase, Starts
    <2> QED
      BY <2>2, <2>3, Answering
  <1>8. CASE Take
    <2>1. /\ UNCHANGED <<prog, life, at, version, poolVersion>>
          /\ inbox' \cup running' \subseteq inbox \cup running
          /\ reply' = reply \/ reply' = Refusal
      BY <1>8 DEF Take, AnswerTo, run
    <2> QED
      BY <2>1, Answers DEF VersionInv, Resumed, Phase, Starts
  <1>9. CASE Complete
    <2> PICK c \in running :
          /\ poolVersion' = IF c.op = "update" THEN c.version ELSE poolVersion
          /\ running' = {}
          /\ AnswerTo(c, [got |-> "ok", version |-> poolVersion'])
      BY <1>9 DEF Complete
    <2>1. UNCHANGED <<prog, life, at, version, inbox>>
      BY <1>9 DEF Complete, run
    <2>2. CASE c.life # life
      <3>1. reply' = reply
        BY <2>2 DEF AnswerTo, Abandoned
      <3>2. ~Resumed
        BY <2>1, <2>2 DEF OwnInv, Resumed, Locked, Locking
      <3>3. ~(Phase = "status" /\ reply.got = "ok")
        BY <2>1 DEF OwnInv, Locking
      <3> QED
        BY <2>1, <3>1, <3>2, <3>3 DEF VersionInv, Resumed, Phase, Starts
    <2>3. CASE c.life = life
      <3>1. /\ c.version = version /\ c.op = Phase
            /\ \A d \in inbox \cup running : d.life = life => d = c
            /\ c \notin inbox
        BY <2>1, <2>3 DEF CallsInv
      <3>2. reply' = [got |-> "ok", version |-> poolVersion']
        BY <2>1, <2>3 DEF AnswerTo, Abandoned
      <3>3. reply'.version = poolVersion'
        BY <3>2, Answers
      <3>4. Resumed' => poolVersion' <= version
        BY <2>1, <3>1 DEF VersionInv, Resumed, Starts, LoopsTyped
      <3>5. \A d \in inbox' \cup running' : d.life # life
        BY <2>1, <3>1
      <3>6. poolVersion' \in Nat
        BY <3>1 DEF LoopsTyped
      <3> QED
        BY <2>1, <3>3, <3>4, <3>5, <3>6 DEF VersionInv
    <2> QED
      BY <2>2, <2>3
  <1>10. CASE Break
    <2>1. /\ UNCHANGED <<prog, life, at, version, poolVersion>>
          /\ inbox' \cup running' \subseteq inbox \cup running
          /\ reply' = reply \/ reply' = Refusal
      BY <1>10 DEF Break, AnswerTo, run
    <2> QED
      BY <2>1, Answers DEF VersionInv, Resumed, Phase, Starts
  <1>11. CASE Replaced
    BY <1>11 DEF Replaced, VersionInv, Resumed, Phase, Starts, run
  <1>12. CASE ControllerRestarts
    <2>1. /\ UNCHANGED <<prog, life, at, version>> /\ poolVersion' = 0
          /\ inbox' \cup running' = {}
          /\ reply' = reply \/ reply' = Refusal
      BY <1>12 DEF ControllerRestarts, run
    <2> QED
      BY <2>1, Answers DEF VersionInv, LoopsTyped
  <1> QED
    BY <1>1, <1>2, <1>3, <1>4, <1>5, <1>6, <1>7, <1>8, <1>9, <1>10, <1>11, <1>12, Steps
    DEF Serves

-----------------------------------------------------------------------------
ServedInv ==
  LoopsTyped /\ CallsInv /\ OwnInv /\ VersionInv

LEMMA InitServed == Init => ServedInv
  <1> SUFFICES ASSUME Init PROVE ServedInv
    OBVIOUS
  <1>1. /\ prog \in Programs /\ life = 1 /\ at = 1 /\ step = 0 /\ version = 0 /\ poolVersion = 0
        /\ reply = NoReply /\ reply.version = 0 /\ inbox = {} /\ running = {}
    BY DEF Init, NoReply
  <1>2. Len(Code(prog)) \in Nat /\ 1 <= Len(Code(prog)) /\ Starts \in Nat
    <2>1. /\ Starts \in Nat \ {0} /\ Loops \in Nat \ {0} /\ Len(prog.closing) \in Nat
          /\ Len(Code(prog)) = Starts + Loops + Len(prog.closing)
      BY <1>1, Programmed, Coded DEF Starts, Loops
    <2>2. \A a, b \in Nat \ {0}, c \in Nat : a + b + c \in Nat /\ 1 <= a + b + c
      OBVIOUS
    <2> QED
      BY <2>1, <2>2
  <1>3. LoopsTyped
    BY <1>1, <1>2 DEF LoopsTyped
  <1>4. ~\E k \in 1..Starts : k < at
    BY <1>1, <1>2
  <1>5. CallsInv
    BY <1>1 DEF CallsInv
  <1>6. OwnInv /\ VersionInv
    BY <1>1, <1>4, Answers DEF OwnInv, Locked, VersionInv, Resumed
  <1> QED
    BY <1>3, <1>5, <1>6 DEF ServedInv

LEMMA NextServed == ServedInv /\ [Next]_vars => ServedInv'
  <1> SUFFICES ASSUME ServedInv, [Next]_vars PROVE ServedInv'
    OBVIOUS
  <1> USE DEF ServedInv
  <1>1. CASE Next
    BY <1>1, LoopsStayTyped, CallsKept, OwnKept, VersionKept
  <1>2. CASE UNCHANGED vars
    <2>1. Stays
      BY <1>2 DEF vars, run, controller, Stays
    <2> QED
      BY <2>1 DEF Stays, controller, LoopsTyped, CallsInv, OwnInv, Locked, VersionInv, Resumed,
                  Phase, Starts, Policy
  <1> QED
    BY <1>1, <1>2

(* A program that resumes raises the version of the pool with each update  *)
(* that it gets through: no call of an earlier run is at work any more     *)
(* once its first status was answered, so that nothing overtakes it.       *)
THEOREM VersionsAreNew == Spec => VersionsAdvance
  <1>1. ServedInv /\ [Next]_vars => [Publishes /\ prog.resumes => poolVersion' > poolVersion]_vars
    <2> SUFFICES ASSUME ServedInv, Next, Publishes, prog.resumes
                 PROVE  poolVersion' > poolVersion
      OBVIOUS
    <2> PICK c \in running :
          c.op = "update" /\ c.life = life /\ running' = {} /\ reply'.got = "ok"
      BY DEF Publishes
    <2> USE DEF ServedInv
    <2>1. running # {} /\ running' # running
      OBVIOUS
    <2>2. Complete \/ Break
      BY <2>1, Steps DEF Stays, Moves, Posts, Post, Returns, Ends, Rerun, Serves, AnswerVersion,
                         Take, Replaced, ControllerRestarts, controller
    <2>3. PICK r : AnswerTo(c, r) /\ (r = Refusal \/ Complete)
      BY <2>2 DEF Complete, Break, CallsInv
    <2>4. reply.got # "ok" /\ reply'.got = "ok"
      BY Answers DEF CallsInv
    <2>5. at # 0 /\ reply' = r
      BY <2>3, <2>4, Answering
    <2>6. Complete
      BY <2>3, <2>4, <2>5, Answers
    <2>7. poolVersion' = c.version
      BY <2>6 DEF Complete, CallsInv
    <2>8. c.version = version /\ Phase = "update"
      BY <2>5 DEF CallsInv
    <2>9. Resumed
      BY <2>5, <2>8, UpdatesInLoop, Started
    <2>10. poolVersion < version
      BY <2>5, <2>9 DEF VersionInv
    <2> QED
      BY <2>7, <2>8, <2>10 DEF LoopsTyped
  <1> QED
    BY InitServed, NextServed, <1>1, PTL DEF Spec, VersionsAdvance

-----------------------------------------------------------------------------
(* What the learner learns from.                                           *)

(* An increasing function of 1..n into itself moves nothing.               *)
LEMMA Increasing ==
  ASSUME NEW n \in Nat, NEW g \in [1..n -> 1..n],
         \A j, k \in 1..n : j < k => g[j] < g[k]
  PROVE  \A k \in 1..n : g[k] = k
  <1> TAKE k \in 1..n
  <1>0. g[k] \in 1..n /\ \A m \in 1..n : g[m] \in 1..n
    OBVIOUS
  <1>1. k <= g[k]
    <2> DEFINE f == [m \in 1..k |-> g[m]]
    <2>1. \A m \in 1..k : m \in 1..n /\ (m = k \/ m < k)
      OBVIOUS
    <2>2. \A m \in 1..k : g[m] \in 1..g[k]
      <3> TAKE m \in 1..k
      <3>1. m \in 1..n /\ g[m] \in 1..n /\ (m = k \/ g[m] < g[k])
        BY <1>0, <2>1
      <3> QED
        BY <1>0, <3>1
    <2>3. \A l, m \in 1..k : g[l] = g[m] => l = m
      <3> TAKE l, m \in 1..k
      <3>1. l < m => g[l] < g[m]
        BY <2>1
      <3>2. m < l => g[m] < g[l]
        BY <2>1
      <3>3. g[l] \in Int /\ g[m] \in Int
        BY <1>0, <2>1
      <3> QED
        BY <3>1, <3>2, <3>3
    <2>4. f \in Injection(1..k, 1..g[k])
      BY <2>2, <2>3 DEF Injection, IsInjective
    <2>5. /\ IsFiniteSet(1..g[k]) /\ Cardinality(1..g[k]) = g[k] /\ Cardinality(1..k) = k
      BY <1>0, FS_Interval
    <2> HIDE DEF f
    <2> QED
      BY <2>4, <2>5, FS_Injection
  <1>2. g[k] <= k
    <2> DEFINE f == [m \in k..n |-> g[m]]
    <2>1. \A m \in k..n : m \in 1..n /\ (m = k \/ k < m)
      OBVIOUS
    <2>2. \A m \in k..n : g[m] \in g[k]..n
      <3> TAKE m \in k..n
      <3>1. m \in 1..n /\ g[m] \in 1..n /\ (m = k \/ g[k] < g[m])
        BY <1>0, <2>1
      <3>2. g[k] \in Int /\ g[m] \in Int /\ n \in Int /\ g[m] <= n
        BY <1>0, <3>1
      <3>3. g[k] <= g[m]
        BY <3>1, <3>2
      <3> QED
        BY <3>2, <3>3
    <2>3. \A l, m \in k..n : g[l] = g[m] => l = m
      <3> TAKE l, m \in k..n
      <3>1. l < m => g[l] < g[m]
        BY <2>1
      <3>2. m < l => g[m] < g[l]
        BY <2>1
      <3>3. g[l] \in Int /\ g[m] \in Int
        BY <1>0, <2>1
      <3> QED
        BY <3>1, <3>2, <3>3
    <2>4. f \in Injection(k..n, g[k]..n)
      BY <2>2, <2>3 DEF Injection, IsInjective
    <2>5. /\ IsFiniteSet(g[k]..n) /\ Cardinality(g[k]..n) = n - g[k] + 1
          /\ Cardinality(k..n) = n - k + 1
      BY <1>0, FS_Interval
    <2>6. Cardinality(k..n) <= Cardinality(g[k]..n)
      <3> HIDE DEF f
      <3> QED
        BY <2>4, <2>5, FS_Injection
    <2> QED
      BY <1>0, <2>5, <2>6
  <1> QED
    BY <1>0, <1>1, <1>2

-----------------------------------------------------------------------------
(* The parts of the invariant about batches and the policy: what is over   *)
(* or collected answers its prompt, and is on policy.                      *)

Fresh(a) == WakesFirst(prog) /\ step > 0 /\ grouped => a.by = Policy /\ a.tag = version

Own(i, a) == a = Placeholder \/ (a.answers = i /\ Fresh(a))

BatchInv ==
  /\ \E S : indexed \in Seq(S)
  /\ \A r \in finished : r[1] \in 1..prog.prompts /\ Own(r[1], r[2])
  /\ \A k \in 1..Len(indexed) :
       indexed[k][1] \in 1..prog.prompts /\ Own(indexed[k][1], indexed[k][2])
  /\ finished # {} \/ indexed # <<>> => at # 0 /\ Phase = "generate"

(* The batch is there until the policy is trained with it.                 *)
ResponsesInv ==
  responses # <<>> =>
    /\ Len(responses) = prog.prompts
    /\ \A k \in DOMAIN responses : Own(k, responses[k])
    /\ \A a, i, j \in 1..Loops :
         Synchronises(prog.loop, a, i, j) => Starts < at /\ at <= Starts + a

(* What the calls of a step have achieved so far.                          *)
Mapped == \A e \in Engines : "weights" \in mapped[e]
Synced == (\A e \in Engines : holds[e] = Policy) /\ poolVersion = version

PolicyInv ==
  \A a, i, j \in 1..Loops : Synchronises(prog.loop, a, i, j) /\ grouped =>
    /\ at = Starts + i /\ reply.got = "ok" => Mapped
    /\ Starts + i < at /\ at <= Starts + j => Mapped
    /\ at = Starts + j /\ reply.got = "ok" => Synced
    /\ Starts + j < at /\ at <= Starts + Loops => Synced
    /\ at = Starts + 1 /\ prog.loop[1] = "generate" /\ step > 0 => Synced

StepInv == at \in 1..Starts => step = 0

-----------------------------------------------------------------------------
(* Where the phases are.                                                   *)

LEMMA Later ==
  ASSUME LoopsTyped, at > Starts
  PROVE  /\ Phase # "init"
         /\ Phase = "generate" => at = Starts + 1 /\ prog.loop[1] = "generate"
  <1>1. /\ prog \in Programs /\ at \in Nat /\ at <= Len(Code(prog))
        /\ Starts \in Nat \ {0} /\ Loops \in Nat \ {0} /\ Len(prog.closing) \in Nat
        /\ DOMAIN prog.loop = 1..Loops /\ DOMAIN prog.closing = 1..Len(prog.closing)
    BY Programmed, Sized DEF LoopsTyped, Starts, Loops
  <1>2. /\ Len(Code(prog)) = Starts + Loops + Len(prog.closing)
        /\ \A k \in 1..Loops : Code(prog)[Starts + k] = prog.loop[k]
        /\ \A k \in 1..Len(prog.closing) : Code(prog)[Starts + Loops + k] = prog.closing[k]
    BY <1>1, Coded DEF Starts, Loops
  <1>3. CASE at <= Starts + Loops
    <2> DEFINE k == at - Starts
    <2>1. k \in 1..Loops /\ at = Starts + k
      BY <1>1, <1>3
    <2>2. Phase = prog.loop[k]
      BY <1>2, <2>1 DEF Phase
    <2>3. prog.loop[k] # "init" /\ (prog.loop[k] = "generate" => k = 1)
      BY <1>1, <2>1, ProgramsAssumption
    <2> QED
      BY <2>1, <2>2, <2>3
  <1>4. CASE at > Starts + Loops
    <2> DEFINE k == at - (Starts + Loops)
    <2>1. k \in 1..Len(prog.closing) /\ at = Starts + Loops + k
      <3>1. \A x, b, l, c \in Nat : x > b + l /\ x <= b + l + c =>
              x - (b + l) \in 1..c /\ x = b + l + (x - (b + l))
        OBVIOUS
      <3>2. /\ at \in Nat /\ Starts \in Nat /\ Loops \in Nat /\ Len(prog.closing) \in Nat
            /\ at > Starts + Loops /\ at <= Starts + Loops + Len(prog.closing)
        BY <1>1, <1>2, <1>4
      <3> QED
        <4> HIDE DEF k
        <4>1. at - (Starts + Loops) \in 1..Len(prog.closing)
          BY <3>1, <3>2
        <4>2. at = Starts + Loops + (at - (Starts + Loops))
          BY <3>1, <3>2
        <4>3. k = at - (Starts + Loops)
          BY DEF k
        <4>4. at = Starts + Loops + k
          BY <4>2, <4>3
        <4> QED
          BY <4>1, <4>3, <4>4
    <2>2. Phase = prog.closing[k]
      BY <1>2, <2>1 DEF Phase
    <2>3. prog.closing[k] \notin {"generate", "init"}
      BY <1>1, <2>1, ProgramsAssumption
    <2> QED
      BY <2>2, <2>3
  <1> QED
    BY <1>1, <1>3, <1>4

LEMMA Generates ==
  ASSUME LoopsTyped, at # 0, Phase = "generate"
  PROVE  at > Starts /\ at = Starts + 1 /\ prog.loop[1] = "generate"
  BY UpdatesInLoop, Later

(* One after the other, but from the end of a step.                        *)
LEMMA Follows ==
  ASSUME LoopsTyped, Advance, at # 0
  PROVE  at < Starts + Loops => at' = at + 1
  <1>1. /\ at \in 1..Len(Code(prog)) /\ Len(Code(prog)) \in Nat
        /\ Starts \in Nat \ {0} /\ Loops \in Nat \ {0} /\ Starts + Loops <= Len(Code(prog))
    BY Sized DEF LoopsTyped
  <1> SUFFICES ASSUME at < Starts + Loops PROVE at' = at + 1
    OBVIOUS
  <1>2. at' = (at + 1) % (Len(Code(prog)) + 1)
    <2>1. at # Starts + Loops
      BY <1>1
    <2> QED
      BY <2>1 DEF Advance, Starts, Loops
  <1>3. at < Len(Code(prog))
    BY <1>1
  <1> QED
    BY <1>1, <1>2, <1>3

(* The phases of a program that synchronises.                              *)
LEMMA Placed ==
  ASSUME LoopsTyped, NEW a \in 1..Loops, NEW i \in 1..Loops, NEW j \in 1..Loops,
         Synchronises(prog.loop, a, i, j)
  PROVE  /\ i < j /\ a < j
         /\ at = Starts + a => Phase = "actor"
         /\ at = Starts + i => Phase = "wakeWeights"
         /\ at = Starts + j => Phase = "update"
         /\ Starts < at /\ at < Starts + a => Phase # "update"
         /\ Starts + i < at /\ at <= Starts + Loops => Phase # "sleep"
         /\ Starts + j < at /\ at <= Starts + Loops => Phase \notin {"actor", "update"}
  <1>1. /\ at \in Nat /\ Starts \in Nat /\ Loops \in Nat
        /\ DOMAIN prog.loop = 1..Loops
        /\ \A k \in 1..Loops : Code(prog)[Starts + k] = prog.loop[k]
    BY Sized, Programmed DEF LoopsTyped, Loops
  <1>2. ASSUME Starts < at, at <= Starts + Loops
        PROVE  at - Starts \in 1..Loops /\ Phase = prog.loop[at - Starts]
    <2> DEFINE k == at - Starts
    <2>1. k \in 1..Loops /\ at = Starts + k
      BY <1>1, <1>2
    <2> QED
      BY <1>1, <2>1 DEF Phase
  <1>3. /\ at = Starts + a => Phase = prog.loop[a]
        /\ at = Starts + i => Phase = prog.loop[i]
        /\ at = Starts + j => Phase = prog.loop[j]
    BY <1>1 DEF Phase
  <1>4. /\ i < j /\ a < j /\ prog.loop[a] = "actor"
        /\ prog.loop[i] = "wakeWeights" /\ prog.loop[j] = "update"
        /\ \A k \in 1..Loops :
             /\ k < a => prog.loop[k] # "update"
             /\ k > i => prog.loop[k] # "sleep"
             /\ k > j => prog.loop[k] \notin {"actor", "update"}
    BY <1>1 DEF Synchronises
  <1>5. ASSUME Starts < at, at < Starts + a PROVE Phase # "update"
    BY <1>1, <1>2, <1>4, <1>5
  <1>6. ASSUME Starts + i < at, at <= Starts + Loops PROVE Phase # "sleep"
    BY <1>1, <1>2, <1>4, <1>6
  <1>7. ASSUME Starts + j < at, at <= Starts + Loops PROVE Phase \notin {"actor", "update"}
    BY <1>1, <1>2, <1>4, <1>7
  <1> QED
    BY <1>3, <1>4, <1>5, <1>6, <1>7

LEMMA Synchronising ==
  ASSUME LoopsTyped, WakesFirst(prog)
  PROVE  \E a, i, j \in 1..Loops : Synchronises(prog.loop, a, i, j)
  BY ProgramsAssumption, Programmed DEF LoopsTyped, Loops

-----------------------------------------------------------------------------
(* What a step may be to the batch and the policy.                         *)

Misses ==
  /\ Stays /\ In("generate") /\ UNCHANGED <<indexed, responses, learning>>
  /\ \E i \in Open : finished' = finished \cup {<<i, Placeholder>>}

Computes == Moves /\ step' = step /\ Phase \notin {"generate", "actor"} /\ UNCHANGED batch

Talks == (Posts \/ Returns) /\ UNCHANGED batch

LEMMA Kinds ==
  ASSUME LoopsTyped, Next
  PROVE  \/ Answered \/ Misses \/ Collect \/ BatchReturns \/ Actor
         \/ Computes \/ Talks \/ Ends \/ Rerun \/ Serves
  <1>1. CASE Failed
    <2>1. InFlight \subseteq Open
      BY DEF InFlight
    <2>2. CASE prog.workers > 0
      BY <1>1, <2>1, <2>2 DEF Failed, Misses, Stays, run
    <2>3. CASE ~(prog.workers > 0)
      BY <1>1, <2>3 DEF Failed, Ends
    <2> QED
      BY <2>2, <2>3
  <1>2. CASE Reward \/ RefLogProbs \/ Values \/ Advantages \/ Critic
    BY <1>2 DEF Reward, RefLogProbs, Values, Advantages, Critic, Proceed, In, Computes, Moves,
                Phase, Posting, Locking, run
  <1>3. CASE \/ GetStatus \/ GetVersion \/ InitTransfer \/ SleepEngines \/ UpdateWeights
             \/ WakeWeights \/ WakeCache \/ WakeAll
    BY <1>3 DEF GetStatus, GetVersion, InitTransfer, SleepEngines, UpdateWeights, WakeWeights,
                WakeCache, WakeAll, Posts, Post, Posting, Locking, Talks
  <1>4. CASE Returns
    BY <1>4 DEF Returns, Talks
  <1>5. CASE Health \/ WaitForReady \/ Join
    BY <1>5 DEF Health, WaitForReady, Join, Proceed, In, Computes, Moves, Ends, Phase, Posting,
                Locking, run
  <1>6. CASE NoEngineReady \/ Raises \/ TimesOut \/ Killed
    BY <1>6 DEF NoEngineReady, Raises, TimesOut, Killed, Ends
  <1> QED
    BY <1>1, <1>2, <1>3, <1>4, <1>5, <1>6 DEF Next, Generating, Learning, Calling, Serves

(* The kinds of before.                                                    *)
LEMMA Trains ==
  ASSUME LoopsTyped, Actor
  PROVE  Moves /\ step' = step + 1 /\ Phase = "actor"
  BY DEF Actor, In, Moves, Phase, Posting, Locking

LEMMA Batches ==
  ASSUME LoopsTyped, BatchReturns
  PROVE  Moves /\ step' = step /\ Phase = "generate"
  BY DEF BatchReturns, In, Moves, Phase, Posting, Locking, run

(* What the controller does past the start of a program it does for it.    *)
LEMMA Serving ==
  ASSUME LoopsTyped, CallsInv, OwnInv, Serves, at > Starts
  PROVE  /\ UNCHANGED <<run, at, batch>>
         /\ grouped' => grouped
         /\ \A c \in running : c.life = life /\ c.op = Phase /\ c.op \in Posting
                               /\ c.version = version /\ c.model = Policy
         /\ running # {} => reply = NoReply
  <1>1. at # 0
    BY Sized DEF LoopsTyped
  <1>2. \A c \in running : c.life = life
    BY <1>1, Started DEF OwnInv
  <1>3. \A c \in running : c.op = Phase /\ c.op \in Posting
                           /\ c.version = version /\ c.model = Policy /\ reply = NoReply
    BY <1>1, <1>2 DEF CallsInv
  <1>4. Phase # "init"
    BY Later
  <1>5. UNCHANGED <<run, at, batch>>
    BY DEF Serves, AnswerVersion, Take, Complete, Break, Replaced, ControllerRestarts
  <1>6. grouped' => grouped
    BY <1>3, <1>4 DEF Serves, AnswerVersion, Take, Complete, Break, Replaced, ControllerRestarts
  <1> QED
    BY <1>2, <1>3, <1>5, <1>6

-----------------------------------------------------------------------------
(* A step of training.                                                     *)

LEMMA StepKept ==
  ASSUME LoopsTyped, CallsInv, OwnInv, StepInv, Next
  PROVE  StepInv'
  <1>1. CASE Answered \/ Misses \/ Collect
    BY <1>1 DEF Answered, Misses, Stays, Collect, StepInv, Starts, run
  <1>2. CASE BatchReturns \/ Actor \/ Computes \/ (Returns /\ at # 0)
    <2>1. at # 0 /\ Advance /\ prog' = prog
      BY <1>2, Batches, Trains DEF Moves, Computes, Returns
    <2>2. at > Starts => ~(at' \in 1..Starts)
      BY <2>1, Advances, Sized DEF LoopsTyped
    <2>3. at \in 1..Starts => Phase # "actor"
      BY UpdatesInLoop, Sized
    <2>4. Phase # "actor" => step' = step
      BY <1>2, Batches, Trains DEF Computes, Returns
    <2>5. at \in 1..Starts \/ at > Starts
      BY <2>1, Sized DEF LoopsTyped
    <2> QED
      BY <2>1, <2>2, <2>3, <2>4, <2>5 DEF StepInv, Starts
  <1>3. CASE Posts
    BY <1>3 DEF Posts, Post, StepInv, Starts
  <1>4. CASE Ends \/ Rerun
    BY <1>4 DEF Ends, Exit, Rerun, Cleared, StepInv
  <1>5. CASE Serves
    BY <1>5 DEF Serves, AnswerVersion, Take, Complete, Break, Replaced, ControllerRestarts, run,
                StepInv, Starts
  <1>6. Returns => at # 0
    BY DEF Returns, CallsInv, NoReply
  <1> QED
    BY <1>1, <1>2, <1>3, <1>4, <1>5, <1>6, Kinds DEF Talks

-----------------------------------------------------------------------------
(* The policy.                                                             *)

LEMMA PolicyKept ==
  ASSUME LoopsTyped, CallsInv, OwnInv, StepInv, PolicyInv, Next
  PROVE  PolicyInv'
  <1>0. /\ at \in Nat /\ Starts \in Nat \ {0} /\ Loops \in Nat \ {0} /\ poolVersion \in Nat
    BY Sized DEF LoopsTyped
  <1>1. CASE Answered \/ Misses \/ Collect
    <2>1. UNCHANGED <<prog, life, at, step, version, reply, poolVersion, grouped, holds, mapped>>
      BY <1>1 DEF Answered, Misses, Stays, Collect, run, engines, controller
    <2>2. /\ Starts' = Starts /\ Loops' = Loops /\ Mapped' = Mapped /\ Synced' = Synced
      BY <2>1 DEF Starts, Loops, Mapped, Synced, Policy
    <2> QED
      BY <2>1, <2>2 DEF PolicyInv
  (* Moves of the program. *)
  <1>2. CASE BatchReturns \/ Actor \/ Computes \/ (Returns /\ at # 0)
    <2> SUFFICES ASSUME NEW a \in 1..Loops, NEW i \in 1..Loops, NEW j \in 1..Loops,
                        Synchronises(prog.loop, a, i, j), grouped
                 PROVE  /\ at' = Starts + i => reply'.got # "ok"
                        /\ at' = Starts + j => reply'.got # "ok"
                        /\ Starts + i < at' /\ at' <= Starts + j => Mapped
                        /\ Starts + j < at' /\ at' <= Starts + Loops => Synced'
                        /\ at' = Starts + 1 /\ step' > 0 => Synced'
      <3>1. UNCHANGED <<prog, grouped, mapped>>
        BY <1>2, Batches, Trains DEF Moves, Computes, Returns, controller, engines
      <3> QED
        BY <3>1 DEF PolicyInv, Mapped, Starts, Loops
    <2>1. at # 0 /\ Advance /\ UNCHANGED <<prog, life, controller, engines>>
      BY <1>2, Batches, Trains DEF Moves, Computes, Returns
    <2>2. reply' = NoReply
      BY <1>2, Batches, Trains DEF Moves, Computes, Returns, CallsInv
    <2>3. Phase # "actor" => step' = step
      BY <1>2, Batches, Trains DEF Computes, Returns
    <2>4. at > Starts => version' = version
      BY <1>0, <1>2, Batches, Trains DEF Moves, Computes, Returns, Resuming, Starting, Starts
    <2>5. /\ at = Starts + i => Mapped
          /\ at = Starts + j => Synced
          /\ Starts + i < at /\ at <= Starts + j => Mapped
          /\ Starts + j < at /\ at <= Starts + Loops => Synced
      <3>1. CASE BatchReturns \/ Actor \/ Computes
        <4>1. Phase \notin Posting
          BY <3>1, Batches, Trains DEF Moves, Computes
        <4>2. at # Starts + i /\ at # Starts + j
          BY <4>1, Placed DEF Posting, Locking
        <4> QED
          BY <4>2 DEF PolicyInv
      <3>2. CASE Returns
        BY <3>2 DEF Returns, PolicyInv
      <3> QED
        BY <1>2, <3>1, <3>2
    <2>6. Synced /\ Phase # "actor" /\ at > Starts => Synced'
      BY <2>1, <2>3, <2>4 DEF Synced, Policy, controller, engines
    <2>7. Starts + j <= at /\ at <= Starts + Loops => Synced'
      <3> SUFFICES ASSUME Starts + j <= at, at <= Starts + Loops PROVE Synced'
        OBVIOUS
      <3>1. at = Starts + j \/ Starts + j < at
        BY <1>0
      <3>2. Synced /\ Phase # "actor"
        BY <2>5, <3>1, Placed
      <3> QED
        BY <1>0, <2>6, <3>2
    <2>8. at' = at + 1 \/ (at = Starts + Loops /\ at' = Starts + 1) \/ at' = 0
      BY <2>1, Advances
    <2>9. i < j /\ a < j
      BY Placed
    <2>10. CASE at' = at + 1
      <3>1. Starts + i < at' /\ at' <= Starts + j => Mapped
        <4>1. Starts + i < at' /\ at' <= Starts + j =>
                at = Starts + i \/ (Starts + i < at /\ at <= Starts + j)
          BY <1>0, <2>10
        <4> QED
          BY <2>5, <4>1
      <3>2. Starts + j < at' /\ at' <= Starts + Loops => Synced'
        BY <1>0, <2>7, <2>10
      <3>3. at' = Starts + 1 => step' = 0
        <4> SUFFICES ASSUME at' = Starts + 1 PROVE step' = 0
          OBVIOUS
        <4>1. at = Starts /\ at \in 1..Starts
          BY <1>0, <2>10
        <4>2. Phase # "actor"
          BY <1>0, <2>1, <4>1, UpdatesInLoop
        <4> QED
          BY <2>3, <4>1, <4>2 DEF StepInv
      <3> QED
        BY <2>2, <3>1, <3>2, <3>3, Answers
    <2>11. CASE at = Starts + Loops /\ at' = Starts + 1
      <3>1. Synced'
        BY <1>0, <2>7, <2>11
      <3>2. ~(Starts + i < at')
        BY <1>0, <2>11
      <3> QED
        BY <2>2, <3>1, <3>2, Answers
    <2>12. CASE at' = 0
      BY <1>0, <2>12
    <2> QED
      BY <2>8, <2>10, <2>11, <2>12
  <1>3. CASE Posts
    <2> PICK op \in Posting :
          In(op) /\ Post(op, IF op = "update" THEN version + 1 ELSE version)
      BY <1>3 DEF Posts
    <2>1. /\ Phase = op /\ reply' = NoReply
          /\ UNCHANGED <<prog, life, at, step, poolVersion, grouped, engines>>
          /\ op # "update" => version' = version
      BY DEF In, Post, Phase
    <2> SUFFICES ASSUME NEW a \in 1..Loops, NEW i \in 1..Loops, NEW j \in 1..Loops,
                        Synchronises(prog.loop, a, i, j), grouped
                 PROVE  /\ Starts + i < at /\ at <= Starts + j => Mapped
                        /\ Starts + j < at /\ at <= Starts + Loops => Synced'
                        /\ at = Starts + 1 /\ prog.loop[1] = "generate" => FALSE
      BY <2>1, Answers DEF PolicyInv, Mapped, engines, Starts, Loops
    <2>2. Starts + i < at /\ at <= Starts + j => Mapped
      BY DEF PolicyInv
    <2>3. ASSUME Starts + j < at, at <= Starts + Loops PROVE Synced'
      <3>1. Synced /\ Phase # "update"
        BY <2>3, Placed DEF PolicyInv
      <3> QED
        BY <2>1, <3>1 DEF Synced, Policy, engines
    <2>4. ASSUME at = Starts + 1, prog.loop[1] = "generate" PROVE FALSE
      <3>1. Phase = "generate"
        <4>1. Code(prog)[Starts + 1] = prog.loop[1]
          BY <1>0, Sized
        <4> QED
          BY <2>4, <4>1 DEF Phase
      <3> QED
        BY <2>1, <3>1 DEF Posting, Locking
    <2> QED
      BY <2>2, <2>3, <2>4
  <1>4. CASE Ends
    <2>1. at' = 0 /\ Starts' = Starts /\ Loops' = Loops
      BY <1>4 DEF Ends, Exit, Starts, Loops
    <2> QED
      BY <1>0, <2>1 DEF PolicyInv
  <1>5. CASE Rerun
    <2>1. at' = 1 /\ prog' \in Programs
      BY <1>5 DEF Rerun
    <2>2. Starts' \in Nat \ {0} /\ Loops' \in Nat
      BY <2>1, Programmed DEF Starts, Loops
    <2> QED
      BY <2>1, <2>2 DEF PolicyInv
  <1>6. CASE Serves /\ at <= Starts
    <2>1. Starts' = Starts /\ Loops' = Loops /\ at' = at
      BY <1>6 DEF Serves, AnswerVersion, Take, Complete, Break, Replaced, ControllerRestarts, run,
                  Starts, Loops
    <2> QED
      BY <1>0, <1>6, <2>1 DEF PolicyInv
  (* The controller serves the call of the phase the program is in. *)
  <1>7. CASE Serves /\ at > Starts
    <2>1. /\ UNCHANGED <<prog, life, at, step, version>> /\ (grouped' => grouped)
          /\ \A c \in running : c.life = life /\ c.op = Phase /\ c.op \in Posting
                                /\ c.version = version /\ c.model = Policy
          /\ running # {} => reply = NoReply
      BY <1>7, Serving DEF run
    <2> SUFFICES ASSUME NEW a \in 1..Loops, NEW i \in 1..Loops, NEW j \in 1..Loops,
                        Synchronises(prog.loop, a, i, j), grouped, grouped'
                 PROVE  /\ at = Starts + i /\ reply'.got = "ok" => Mapped'
                        /\ Starts + i < at /\ at <= Starts + j => Mapped'
                        /\ at = Starts + j /\ reply'.got = "ok" => Synced'
                        /\ Starts + j < at /\ at <= Starts + Loops => Synced'
                        /\ at = Starts + 1 /\ prog.loop[1] = "generate" /\ step > 0 => Synced'
      BY <2>1 DEF PolicyInv, Starts, Loops
    <2>2. /\ at = Starts + i /\ reply.got = "ok" => Mapped
          /\ Starts + i < at /\ at <= Starts + j => Mapped
          /\ at = Starts + j /\ reply.got = "ok" => Synced
          /\ Starts + j < at /\ at <= Starts + Loops => Synced
          /\ at = Starts + 1 /\ prog.loop[1] = "generate" /\ step > 0 => Synced
      BY DEF PolicyInv
    <2>3. /\ i < j /\ a < j
          /\ at = Starts + i => Phase = "wakeWeights"
          /\ at = Starts + j => Phase = "update"
          /\ Starts + i < at /\ at <= Starts + Loops => Phase # "sleep"
          /\ Starts + j < at /\ at <= Starts + Loops => Phase # "update"
      BY Placed
    <2>4. at = Starts + 1 /\ prog.loop[1] = "generate" => Phase = "generate"
      <3>1. Code(prog)[Starts + 1] = prog.loop[1]
        BY <1>0, Sized
      <3> QED
        BY <3>1 DEF Phase
    <2>5. CASE AnswerVersion
      <3>1. UNCHANGED <<poolVersion, holds, mapped>>
        BY <2>5 DEF AnswerVersion, engines
      <3>2. reply' = reply \/ Phase = "version"
        <4> PICK c \in inbox :
              c.op = "version" /\ AnswerTo(c, [got |-> "ok", version |-> poolVersion])
          BY <2>5 DEF AnswerVersion
        <4> QED
          BY Answering DEF CallsInv
      <3> QED
        BY <2>1, <2>2, <2>3, <3>1, <3>2 DEF Mapped, Synced, Policy
    <2>6. CASE Take
      <3>1. UNCHANGED <<poolVersion, holds, mapped>> /\ reply' \in {reply, Refusal}
        BY <2>6 DEF Take, AnswerTo, engines
      <3> QED
        BY <2>1, <2>2, <3>1, Answers DEF Mapped, Synced, Policy
    <2>7. CASE Complete \/ Break
      <3> PICK c \in running, S \in SUBSET Engines :
            /\ Effect(c, S)
            /\ \/ /\ S = Engines
                  /\ poolVersion' = IF c.op = "update" THEN c.version ELSE poolVersion
               \/ /\ poolVersion' = poolVersion
                  /\ AnswerTo(c, Refusal)
        BY <2>7 DEF Complete, Break
      <3>1. c.op = Phase /\ Phase \in Posting /\ c.version = version /\ c.model = Policy
            /\ c.life = life /\ reply = NoReply
        BY <2>1
      <3>2. reply'.got = "ok" =>
              S = Engines /\ poolVersion' = IF c.op = "update" THEN c.version ELSE poolVersion
        BY <3>1, Answering, Answers
      <3>3. Phase # "sleep" => (Mapped => Mapped')
        BY <3>1 DEF Effect, Mapped, Tags
      <3>4. Phase \notin {"sleep", "update"} => holds' \in {holds, [e \in Engines |-> holds[e]]}
                                               /\ poolVersion' = poolVersion
        BY <3>1 DEF Effect
      <3>5. Phase \notin {"sleep", "update"} => (Synced => Synced')
        BY <2>1, <3>4 DEF Synced, Policy
      <3>6. Phase = "wakeWeights" /\ S = Engines => Mapped'
        BY <3>1 DEF Effect, Mapped, Tags
      <3>7. ASSUME Phase = "update", Mapped, reply'.got = "ok" PROVE Synced'
        <4>1. S = Engines /\ poolVersion' = version
          BY <3>1, <3>2, <3>7
        <4>2. \A e \in Engines : holds'[e] = Policy
          BY <3>1, <3>7, <4>1 DEF Effect, Mapped
        <4> QED
          BY <2>1, <4>1, <4>2 DEF Synced, Policy
      <3>8. at = Starts + 1 /\ prog.loop[1] = "generate" => FALSE
        BY <2>4, <3>1 DEF Posting, Locking
      <3>9. at = Starts + j => Starts + i < at /\ at <= Starts + j
        BY <1>0, <2>3
      <3>10. Starts + i < at /\ at <= Starts + j => at <= Starts + Loops
        BY <1>0
      <3>11. Starts + j < at => Starts + i < at
        BY <1>0, <2>3
      <3> QED
        BY <2>2, <2>3, <3>2, <3>3, <3>5, <3>6, <3>7, <3>8, <3>9, <3>10, <3>11
    <2>8. CASE Replaced \/ ControllerRestarts
      BY <2>8 DEF Replaced, ControllerRestarts
    <2> QED
      BY <1>7, <2>5, <2>6, <2>7, <2>8 DEF Serves
  <1>8. at <= Starts \/ at > Starts
    BY <1>0
  <1>9. Returns => at # 0
    BY DEF Returns, CallsInv, NoReply
  <1> QED
    BY <1>1, <1>2, <1>3, <1>4, <1>5, <1>6, <1>7, <1>8, <1>9, Kinds DEF Talks

-----------------------------------------------------------------------------
(* The batch.                                                              *)

(* A batch keeps while nothing it is compared with moves.                  *)
Still == UNCHANGED <<prog, life, step, version>> /\ (grouped' => grouped)

LEMMA OwnStill ==
  ASSUME Still, NEW i, NEW a, Own(i, a)
  PROVE  Own(i, a)'
  BY DEF Still, Own, Fresh, Policy

LEMMA BatchKept ==
  ASSUME LoopsTyped, CallsInv, OwnInv, StepInv, PolicyInv, BatchInv, Next
  PROVE  BatchInv'
  <1>0. /\ at \in Nat /\ Starts \in Nat \ {0} /\ Loops \in Nat \ {0}
    BY Sized DEF LoopsTyped
  (* Requests that are over. *)
  <1>1. CASE Answered \/ Misses \/ Collect
    <2>1. Stays /\ Still /\ at # 0 /\ Phase = "generate" /\ at' # 0 /\ Phase' = "generate"
      BY <1>1 DEF Answered, Misses, Collect, In, Stays, Still, Phase, run, controller
    <2>2. CASE Answered
      <3> PICK i \in InFlight, e \in Engines :
            finished' = finished \cup {<<i, Response(i, holds[e], poolVersion)>>}
        BY <2>2 DEF Answered
      <3> DEFINE a == Response(i, holds[e], poolVersion)
      <3>1. i \in 1..prog.prompts /\ indexed' = indexed
        BY <2>2 DEF Answered, InFlight, Open
      <3>2. a.answers = i /\ a.by = holds[e] /\ a.tag = poolVersion
        BY DEF Response
      <3>3. ASSUME WakesFirst(prog), step > 0, grouped PROVE a.by = Policy /\ a.tag = version
        <4>1. at = Starts + 1 /\ prog.loop[1] = "generate"
          BY <2>1, Generates
        <4>2. Synced
          BY <3>3, <4>1, Synchronising DEF PolicyInv
        <4> QED
          BY <3>2, <4>2 DEF Synced
      <3>4. Own(i, a)
        BY <3>2, <3>3 DEF Own, Fresh
      <3> HIDE DEF a
      <3>5. \A r \in finished' : r[1] \in 1..prog.prompts /\ Own(r[1], r[2])
        BY <3>1, <3>4 DEF a, BatchInv
      <3> QED
        BY <2>1, <3>1, <3>5, OwnStill DEF BatchInv, Still
    <2>3. CASE Misses
      BY <2>1, <2>3, OwnStill DEF Misses, Open, BatchInv, Own, Still
    <2>4. CASE Collect
      <3> PICK r \in finished : finished' = finished \ {r} /\ indexed' = Append(indexed, r)
        BY <2>4 DEF Collect
      <3> PICK S : indexed \in Seq(S)
        BY DEF BatchInv
      <3>1. indexed \in Seq(S \cup {r})
        BY SeqMonotonic
      <3>2. /\ indexed' \in Seq(S \cup {r}) /\ Len(indexed') = Len(indexed) + 1
            /\ \A k \in 1..Len(indexed) : indexed'[k] = indexed[k]
            /\ indexed'[Len(indexed) + 1] = r /\ Len(indexed) \in Nat
        BY <3>1, AppendProperties, LenProperties
      <3>3. \A k \in 1..Len(indexed') : k \in 1..Len(indexed) \/ k = Len(indexed) + 1
        BY <3>2
      <3>4. \A k \in 1..Len(indexed') :
              indexed'[k][1] \in 1..prog.prompts /\ Own(indexed'[k][1], indexed'[k][2])
        BY <3>2, <3>3 DEF BatchInv
      <3> QED
        BY <2>1, <3>2, <3>4, OwnStill DEF BatchInv, Still
    <2> QED
      BY <1>1, <2>2, <2>3, <2>4
  <1>2. CASE BatchReturns \/ Ends \/ Rerun
    <2>1. finished' = {} /\ indexed' = <<>>
      BY <1>2 DEF BatchReturns, Ends, Exit, Rerun, Cleared
    <2> QED
      BY <2>1, EmptySeq, LenProperties DEF BatchInv
  <1>3. CASE Actor \/ Computes \/ Talks
    <2>1. Phase # "generate" \/ at = 0
      BY <1>3, Trains DEF Computes, Talks, Posts, Returns, CallsInv, In, Phase, Posting, Locking,
                          NoReply
    <2>2. UNCHANGED <<finished, indexed>> /\ finished = {} /\ indexed = <<>>
      BY <1>3, <2>1 DEF Actor, Computes, Talks, batch, BatchInv
    <2> QED
      BY <2>2, EmptySeq, LenProperties DEF BatchInv
  <1>4. CASE Serves
    <2>1. UNCHANGED <<run, at, batch>>
      BY <1>4 DEF Serves, AnswerVersion, Take, Complete, Break, Replaced, ControllerRestarts
    <2>2. CASE finished = {} /\ indexed = <<>>
      BY <2>1, <2>2, EmptySeq, LenProperties DEF batch, BatchInv
    <2>3. CASE finished # {} \/ indexed # <<>>
      <3>1. at > Starts
        BY <2>3, Generates DEF BatchInv
      <3>2. Still
        BY <1>4, <3>1, Serving DEF Still, run
      <3> QED
        BY <2>1, <3>2, OwnStill DEF BatchInv, Still, batch, run, Phase
    <2> QED
      BY <2>2, <2>3
  <1> QED
    BY <1>1, <1>2, <1>3, <1>4, Kinds

LEMMA ResponsesKept ==
  ASSUME LoopsTyped, CallsInv, OwnInv, BatchInv, ResponsesInv, Next
  PROVE  ResponsesInv'
  <1>0. /\ at \in Nat /\ Starts \in Nat \ {0} /\ Loops \in Nat \ {0}
    BY Sized DEF LoopsTyped
  (* The batch of before is at hand. *)
  <1>1. ASSUME responses' = responses, responses # <<>>, prog' = prog,
               WakesFirst(prog) => Still,
               \A a, i, j \in 1..Loops : Synchronises(prog.loop, a, i, j) =>
                 Starts < at' /\ at' <= Starts + a
        PROVE  ResponsesInv'
    <2>1. \A k \in DOMAIN responses : Own(k, responses[k])'
      <3> TAKE k \in DOMAIN responses
      <3>1. Own(k, responses[k])
        BY <1>1 DEF ResponsesInv
      <3>2. CASE WakesFirst(prog)
        BY <1>1, <3>1, <3>2, OwnStill
      <3>3. CASE ~WakesFirst(prog)
        BY <1>1, <3>1, <3>3 DEF Own, Fresh
      <3> QED
        BY <3>2, <3>3
    <2> QED
      BY <1>1, <2>1 DEF ResponsesInv, Starts, Loops
  <1>2. CASE Answered \/ Misses \/ Collect
    <2>1. Still /\ UNCHANGED <<prog, responses, at>>
      BY <1>2 DEF Answered, Misses, Collect, Stays, Still, run, controller
    <2> QED
      BY <1>1, <2>1 DEF ResponsesInv
  <1>3. CASE BatchReturns
    <2>1. /\ Len(indexed) = prog.prompts /\ responses' \in InOrderOfRequests(indexed)
          /\ at # 0 /\ Phase = "generate" /\ Advance /\ UNCHANGED <<prog, life, step, version>>
          /\ grouped' = grouped
      BY <1>3 DEF BatchReturns, In, Phase, run, controller
    <2> PICK S : indexed \in Seq(S)
      BY DEF BatchInv
    <2> DEFINE n == prog.prompts
    <2>2. n \in Nat
      BY Programmed DEF LoopsTyped
    <2>3. \A k \in 1..n : indexed[k][1] \in 1..n /\ Own(indexed[k][1], indexed[k][2])
      BY <2>1 DEF BatchInv
    <2> HIDE DEF n
    <2> PICK place \in [1..n -> 1..n] :
          /\ \A l, k \in 1..n : l < k => indexed[place[l]][1] < indexed[place[k]][1]
          /\ responses' = [k \in 1..n |-> indexed[place[k]][2]]
      <3>1. DOMAIN indexed = 1..n
        BY <2>1 DEF n
      <3> QED
        BY <2>1, <3>1 DEF InOrderOfRequests
    <2> DEFINE g == [k \in 1..n |-> indexed[place[k]][1]]
    <2>4. \A k \in 1..n : g[k] = k
      <3>1. g \in [1..n -> 1..n]
        BY <2>3
      <3>2. \A l, k \in 1..n : l < k => g[l] < g[k]
        OBVIOUS
      <3> HIDE DEF g
      <3> QED
        BY <2>2, <3>1, <3>2, Increasing
    <2>5. Still
      BY <2>1 DEF Still
    <2>6. /\ Len(responses') = n
          /\ \A k \in DOMAIN responses' : Own(k, responses'[k])
      <3>1. DOMAIN responses' = 1..n /\ Len(responses') = n
        BY <2>2
      <3>2. \A k \in 1..n : place[k] \in 1..n /\ indexed[place[k]][1] = k
                            /\ responses'[k] = indexed[place[k]][2]
        BY <2>4
      <3>3. ASSUME NEW k \in 1..n PROVE Own(k, responses'[k])
        BY <2>3, <3>2
      <3> QED
        BY <3>1, <3>3
    <2>7. ASSUME NEW a \in 1..Loops, NEW i \in 1..Loops, NEW j \in 1..Loops,
                 Synchronises(prog.loop, a, i, j)
          PROVE  Starts < at' /\ at' <= Starts + a
      <3>1. at = Starts + 1 /\ at # Starts + a
        BY <2>1, <2>7, Generates, Placed
      <3>2. at' = at + 1
        BY <1>0, <2>1, <3>1, Follows
      <3> QED
        BY <1>0, <3>1, <3>2
    <2> QED
      BY <2>1, <2>5, <2>6, <2>7, OwnStill DEF ResponsesInv, Starts, Loops, n
  <1>4. CASE Actor \/ Ends \/ Rerun
    <2>1. responses' = <<>>
      BY <1>4 DEF Actor, Ends, Exit, Rerun, Cleared
    <2> QED
      BY <2>1 DEF ResponsesInv
  <1>5. CASE Computes \/ Talks
    <2> SUFFICES ASSUME responses # <<>> PROVE ResponsesInv'
      BY <1>5 DEF Computes, Talks, batch, ResponsesInv
    <2>1. UNCHANGED <<prog, life, step, responses>> /\ (grouped' => grouped)
      BY <1>5 DEF Computes, Moves, Talks, Posts, Post, Returns, batch, controller
    <2>2. ASSUME NEW a \in 1..Loops, NEW i \in 1..Loops, NEW j \in 1..Loops,
                 Synchronises(prog.loop, a, i, j)
          PROVE  Starts < at' /\ at' <= Starts + a /\ version' = version
      <3>1. Starts < at /\ at <= Starts + a
        BY <2>2 DEF ResponsesInv
      <3>2. CASE Computes \/ Returns
        <4>1. at # 0 /\ Advance /\ Phase # "actor" /\ version' = version
          BY <1>0, <3>1, <3>2 DEF Computes, Moves, Returns, Resuming, Starting, Starts, CallsInv,
                                  Posting, Locking, NoReply
        <4>2. at < Starts + a /\ at < Starts + Loops
          BY <1>0, <2>2, <3>1, <4>1, Placed
        <4>3. at' = at + 1
          BY <4>1, <4>2, Follows
        <4> QED
          BY <1>0, <3>1, <4>1, <4>2, <4>3
      <3>3. CASE Posts
        <4> PICK op \in Posting :
              In(op) /\ Post(op, IF op = "update" THEN version + 1 ELSE version)
          BY <3>3 DEF Posts
        <4>1. Phase = op /\ at' = at
          BY DEF In, Post, Phase
        <4>2. Phase # "update"
          BY <1>0, <2>2, <3>1, Placed
        <4> QED
          BY <3>1, <4>1, <4>2 DEF Post
      <3> QED
        BY <1>5, <3>2, <3>3 DEF Talks
    <2>3. WakesFirst(prog) => Still
      BY <2>1, <2>2, Synchronising DEF Still
    <2> QED
      BY <1>1, <2>1, <2>2, <2>3
  <1>6. CASE Serves
    <2> SUFFICES ASSUME responses # <<>> PROVE ResponsesInv'
      BY <1>6 DEF Serves, AnswerVersion, Take, Complete, Break, Replaced, ControllerRestarts, batch,
                  ResponsesInv
    <2>1. UNCHANGED <<run, at, batch>>
      BY <1>6 DEF Serves, AnswerVersion, Take, Complete, Break, Replaced, ControllerRestarts
    <2>2. WakesFirst(prog) => Still
      <3> SUFFICES ASSUME WakesFirst(prog) PROVE Still
        OBVIOUS
      <3>1. at > Starts
        BY <1>0, Synchronising DEF ResponsesInv
      <3> QED
        BY <1>6, <3>1, Serving DEF Still, run
    <2> QED
      BY <1>1, <2>1, <2>2 DEF ResponsesInv, run, batch
  <1> QED
    BY <1>2, <1>3, <1>4, <1>5, <1>6, Kinds

-----------------------------------------------------------------------------
RolloutsInv ==
  ServedInv /\ BatchInv /\ ResponsesInv /\ PolicyInv /\ StepInv

LEMMA InitRollouts == Init => RolloutsInv
  <1> SUFFICES ASSUME Init PROVE RolloutsInv
    OBVIOUS
  <1>1. ServedInv
    BY InitServed
  <1>2. /\ finished = {} /\ indexed = <<>> /\ responses = <<>> /\ grouped = FALSE /\ step = 0
    BY DEF Init
  <1> QED
    BY <1>1, <1>2, EmptySeq, LenProperties
    DEF RolloutsInv, BatchInv, ResponsesInv, PolicyInv, StepInv

LEMMA NextRollouts == RolloutsInv /\ [Next]_vars => RolloutsInv'
  <1> SUFFICES ASSUME RolloutsInv, [Next]_vars PROVE RolloutsInv'
    OBVIOUS
  <1>1. ServedInv'
    BY NextServed DEF RolloutsInv
  <1>2. CASE Next
    BY <1>1, <1>2, BatchKept, ResponsesKept, PolicyKept, StepKept DEF RolloutsInv, ServedInv
  <1>3. CASE UNCHANGED vars
    <2>1. /\ UNCHANGED <<prog, life, step, version, at, finished, indexed, responses, reply>>
          /\ UNCHANGED <<poolVersion, grouped, holds, mapped>>
      BY <1>3 DEF vars, run, batch, controller, engines
    <2>2. /\ Starts' = Starts /\ Loops' = Loops /\ Phase' = Phase /\ Mapped' = Mapped
          /\ Synced' = Synced
      BY <2>1 DEF Starts, Loops, Phase, Mapped, Synced, Policy
    <2>3. Still
      BY <2>1 DEF Still
    <2>4. BatchInv'
      BY <2>1, <2>2, <2>3, OwnStill DEF RolloutsInv, BatchInv
    <2>5. ResponsesInv'
      BY <2>1, <2>2, <2>3, OwnStill DEF RolloutsInv, ResponsesInv
    <2>6. PolicyInv' /\ StepInv'
      BY <2>1, <2>2 DEF RolloutsInv, PolicyInv, StepInv
    <2> QED
      BY <1>1, <2>4, <2>5, <2>6 DEF RolloutsInv
  <1> QED
    BY <1>2, <1>3

(* What the learner gets answers its prompts, in their order, and is on    *)
(* policy from the first synchronisation of the run on.                    *)
THEOREM LearnsFromItsOwn == Spec => []LearnsFromItsRollouts
  <1>1. RolloutsInv => LearnsFromItsRollouts
    BY DEF RolloutsInv, ResponsesInv, Own, Fresh, LearnsFromItsRollouts
  <1> QED
    BY InitRollouts, NextRollouts, <1>1, PTL DEF Spec

-----------------------------------------------------------------------------
(* Where the phases of the loop are that the rest of a program has not.    *)
Inner == {"generate", "actor", "update"} \cup Estimating

LEMMA Shaped ==
  ASSUME NEW p \in Programs
  PROVE  /\ \A k \in 1..Len(p.startup) : p.startup[k] \notin Inner
         /\ \A k \in 1..Len(p.closing) : p.closing[k] \notin Inner
         /\ TrainsOnce(p.loop) /\ EstimatesFirst(p.loop)
         /\ p.prompts \in 0..BatchSize /\ p.level \in 1..2
  <1>1. /\ DOMAIN p.startup = 1..Len(p.startup) /\ DOMAIN p.closing = 1..Len(p.closing)
    BY Programmed
  <1>2. /\ \A k \in DOMAIN p.startup :
             p.startup[k] \notin {"generate", "actor", "update"} \cup Estimating
        /\ \A k \in DOMAIN p.closing :
             p.closing[k] \notin {"generate", "init", "actor", "update"} \cup Estimating
        /\ TrainsOnce(p.loop) /\ EstimatesFirst(p.loop)
        /\ p.prompts \in 0..BatchSize /\ p.level \in 1..2
    BY ProgramsAssumption
  <1> QED
    BY <1>1, <1>2 DEF Inner

LEMMA InLoop ==
  ASSUME LoopsTyped, at # 0, Phase \in Inner
  PROVE  \E k \in 1..Loops : at = Starts + k /\ prog.loop[k] = Phase
  <1>1. /\ prog \in Programs /\ at \in Nat /\ at <= Len(Code(prog))
        /\ Starts \in Nat \ {0} /\ Loops \in Nat \ {0} /\ Len(prog.closing) \in Nat
        /\ DOMAIN prog.startup = 1..Starts /\ DOMAIN prog.closing = 1..Len(prog.closing)
    BY Programmed, Sized DEF LoopsTyped, Starts, Loops
  <1>2. /\ Len(Code(prog)) = Starts + Loops + Len(prog.closing)
        /\ \A k \in 1..Starts : Code(prog)[k] = prog.startup[k]
        /\ \A k \in 1..Loops : Code(prog)[Starts + k] = prog.loop[k]
        /\ \A k \in 1..Len(prog.closing) : Code(prog)[Starts + Loops + k] = prog.closing[k]
    BY <1>1, Coded DEF Starts, Loops
  <1>3. ~ (at \in 1..Starts)
    BY <1>1, <1>2, Shaped DEF Phase, Starts
  <1>4. ~ \E k \in 1..Len(prog.closing) : at = Starts + Loops + k
    BY <1>1, <1>2, Shaped DEF Phase
  <1>5. at > Starts
    BY <1>1, <1>3
  <1>6. PICK k \in 1..Loops : at = Starts + k
    <2> PICK n \in Nat : n = Len(prog.closing)
      BY <1>1
    <2>1. at <= Starts + Loops + n
      BY <1>1, <1>2
    <2>2. CASE at <= Starts + Loops
      <3>1. at - Starts \in 1..Loops /\ at = Starts + (at - Starts)
        BY <1>1, <1>5, <2>2
      <3> QED
        BY <3>1
    <2>3. CASE at > Starts + Loops
      <3> PICK b \in Nat : b = Starts + Loops
        BY <1>1
      <3>1. at \in Nat /\ at > b /\ at <= b + n
        BY <1>1, <2>1, <2>3
      <3>2. at - b \in 1..n
        BY <3>1
      <3>3. at = b + (at - b)
        BY <3>1
      <3>4. \A k \in 1..n : at # b + k
        BY <1>4
      <3> QED
        BY <3>2, <3>3, <3>4
    <2>4. at <= Starts + Loops \/ at > Starts + Loops
      BY <1>1
    <2> QED
      BY <2>2, <2>3, <2>4
  <1> QED
    BY <1>2, <1>6 DEF Phase

(* The one phase that trains the policy and the one that updates, as       *)
(* places in the program.                                                  *)
Trained(a) == a \in 1..Loops /\ prog.loop[a] = "actor"
Updated(j) == j \in 1..Loops /\ prog.loop[j] = "update"

LEMMA Once ==
  ASSUME LoopsTyped
  PROVE  \E a, j \in 1..Loops :
           /\ a < j /\ Trained(a) /\ Updated(j)
           /\ \A k : (Trained(k) => k = a) /\ (Updated(k) => k = j)
           /\ Phase = "actor" /\ at # 0 <=> at = Starts + a
           /\ Phase = "update" /\ at # 0 <=> at = Starts + j
  <1>1. prog \in Programs /\ DOMAIN prog.loop = 1..Loops
    BY Programmed DEF LoopsTyped, Loops
  <1>2. PICK a, j \in 1..Loops :
          /\ a < j
          /\ \A k \in 1..Loops :
               (prog.loop[k] = "actor" <=> k = a) /\ (prog.loop[k] = "update" <=> k = j)
    <2>1. TrainsOnce(prog.loop)
      BY <1>1, Shaped
    <2> QED
      BY <1>1, <2>1 DEF TrainsOnce
  <1>3. Trained(a) /\ Updated(j) /\ \A k : (Trained(k) => k = a) /\ (Updated(k) => k = j)
    BY <1>2 DEF Trained, Updated
  <1>4. \A k \in 1..Loops : at = Starts + k => Phase = prog.loop[k] /\ at # 0
    BY Sized DEF Phase
  <1>5. (at = Starts + a => Phase = "actor" /\ at # 0) /\ (at = Starts + j => Phase = "update" /\ at # 0)
    BY <1>2, <1>4
  <1>6. Phase = "actor" /\ at # 0 => at = Starts + a
    BY <1>2, InLoop DEF Inner
  <1>7. Phase = "update" /\ at # 0 => at = Starts + j
    BY <1>2, InLoop DEF Inner
  <1> QED
    BY <1>2, <1>3, <1>4, <1>5, <1>6, <1>7

-----------------------------------------------------------------------------
(* A program moves on.                                                     *)
Onward == BatchReturns \/ Actor \/ Computes \/ Returns

LEMMA Onwards ==
  ASSUME LoopsTyped, CallsInv, Onward
  PROVE  /\ at # 0 /\ Advance /\ UNCHANGED <<prog, life, controller, engines>> /\ reply' = NoReply
         /\ \/ Actor /\ Phase = "actor" /\ step' = step + 1
            \/ ~Actor /\ Phase # "actor" /\ step' = step
         /\ version' = version \/ (Resuming /\ version' = reply.version)
         /\ \A c \in inbox \cup running : c.life # life
  <1>1. CASE Actor
    BY <1>1, Trains, NoCall DEF Moves, CallsInv
  <1>2. CASE BatchReturns
    BY <1>2, Batches, NoCall DEF Moves, CallsInv, Actor, In, Phase
  <1>3. CASE Computes
    BY <1>3, NoCall DEF Computes, Moves, CallsInv, Actor, In, Phase
  <1>4. CASE Returns
    <2>1. at # 0 /\ Phase \in Posting /\ reply # NoReply
      BY <1>4 DEF Returns, CallsInv, NoReply
    <2>2. Phase # "actor"
      BY <2>1 DEF Posting, Locking
    <2> QED
      BY <1>4, <2>1, <2>2, NoCall DEF Returns, Actor, In, Phase
  <1> QED
    BY <1>1, <1>2, <1>3, <1>4 DEF Onward

Waits == Answered \/ Misses \/ Collect

LEMMA Waiting ==
  ASSUME Waits
  PROVE  UNCHANGED <<prog, life, at, step, version, reply, controller, engines, responses, learning>>
  BY DEF Waits, Answered, Misses, Collect, Stays, run, controller

LEMMA Sorts ==
  ASSUME LoopsTyped, Next
  PROVE  Waits \/ Onward \/ (Posts /\ UNCHANGED batch) \/ Ends \/ Rerun \/ Serves
  BY Kinds DEF Waits, Onward, Talks

-----------------------------------------------------------------------------
(* The steps: the last one is not trained again.                           *)
StepsInv ==
  /\ step \in 0..MaxSteps
  /\ \A a : Trained(a) /\ at # 0 /\ at <= Starts + a => step < MaxSteps

LEMMA StepsKept ==
  ASSUME LoopsTyped, CallsInv, StepsInv, Next
  PROVE  StepsInv'
  <1>0. /\ at \in Nat /\ Starts \in Nat \ {0} /\ Loops \in Nat \ {0} /\ step \in 0..MaxSteps
        /\ MaxSteps \in Nat \ {0}
    BY Sized, SizesAssumption DEF LoopsTyped, StepsInv
  <1>1. CASE Waits \/ Posts \/ Serves
    <2>1. UNCHANGED <<prog, at, step>>
      BY <1>1, Waiting DEF Posts, Post, Serves, AnswerVersion, Take, Complete, Break, Replaced,
                           ControllerRestarts, run
    <2> QED
      BY <2>1 DEF StepsInv, Trained, Starts, Loops
  <1>2. CASE Onward
    <2>1. /\ at # 0 /\ Advance /\ prog' = prog
          /\ \/ Phase = "actor" /\ step' = step + 1
             \/ Phase # "actor" /\ step' = step
      BY <1>2, Onwards
    <2> PICK a, j \in 1..Loops :
          /\ a < j /\ Trained(a) /\ Updated(j)
          /\ \A k : (Trained(k) => k = a) /\ (Updated(k) => k = j)
          /\ Phase = "actor" /\ at # 0 <=> at = Starts + a
      BY Once
    <2>2. at <= Starts + a => step < MaxSteps
      BY <2>1 DEF StepsInv
    <2>3. step' \in 0..MaxSteps
      BY <1>0, <2>1, <2>2
    <2>4. at' # 0 =>
            at' = at + 1 \/ (at = Starts + Loops /\ step < MaxSteps /\ at' = Starts + 1)
      BY <2>1, Advances
    <2>5. at' # 0 /\ at' <= Starts + a => step' < MaxSteps
      <3> SUFFICES ASSUME at' # 0, at' <= Starts + a PROVE step' < MaxSteps
        OBVIOUS
      <3>1. CASE at' = at + 1
        <4>1. at <= Starts + a /\ at # Starts + a
          BY <1>0, <3>1
        <4> QED
          BY <2>1, <2>2, <4>1
      <3>2. CASE at = Starts + Loops /\ step < MaxSteps
        <4>1. at # Starts + a
          BY <1>0, <3>2
        <4> QED
          BY <2>1, <3>2, <4>1
      <3> QED
        BY <2>4, <3>1, <3>2
    <2>6. Starts' = Starts /\ \A k : Trained(k)' => k = a
      BY <2>1 DEF Trained, Starts, Loops
    <2> QED
      BY <2>3, <2>5, <2>6 DEF StepsInv
  <1>3. CASE Ends \/ Rerun
    BY <1>0, <1>3 DEF Ends, Exit, Rerun, Cleared, StepsInv
  <1> QED
    BY <1>1, <1>2, <1>3, Sorts

-----------------------------------------------------------------------------
(* The versions: a run gives at most one for each of its steps.            *)
Cap(l) == l * MaxSteps

LEMMA Caps ==
  ASSUME NEW l \in Nat
  PROVE  /\ Cap(l) \in Nat /\ Cap(l + 1) = Cap(l) + MaxSteps /\ Cap(0) = 0
         /\ \A m \in Nat : l <= m => Cap(l) <= Cap(m)
         /\ l # 0 => Cap(l - 1) \in Nat /\ Cap(l) = Cap(l - 1) + MaxSteps
  <1>1. MaxSteps \in Nat
    BY SizesAssumption
  <1>2. \A a, b \in Nat : a * b \in Nat /\ (a + 1) * b = a * b + b /\ 0 * b = 0
    OBVIOUS
  <1>3. \A a, d, b \in Nat : (a + d) * b = a * b + d * b
    OBVIOUS
  <1>4. ASSUME NEW m \in Nat, l <= m PROVE Cap(l) <= Cap(m)
    <2> PICK d \in Nat : m = l + d
      <3>1. m - l \in Nat /\ m = l + (m - l)
        BY <1>4
      <3> QED
        BY <3>1
    <2>1. Cap(m) = Cap(l) + d * MaxSteps /\ d * MaxSteps \in Nat /\ Cap(l) \in Nat
      BY <1>1, <1>2, <1>3 DEF Cap
    <2> QED
      BY <2>1
  <1>5. l # 0 => Cap(l - 1) \in Nat /\ Cap(l) = Cap(l - 1) + MaxSteps
    <2> SUFFICES ASSUME l # 0 PROVE Cap(l - 1) \in Nat /\ Cap(l) = Cap(l - 1) + MaxSteps
      OBVIOUS
    <2> PICK k \in Nat : k = l - 1 /\ l = k + 1
      <3>1. l - 1 \in Nat /\ l = (l - 1) + 1
        OBVIOUS
      <3> QED
        BY <3>1
    <2> QED
      BY <1>1, <1>2 DEF Cap
  <1> QED
    BY <1>1, <1>2, <1>4, <1>5 DEF Cap

Unposted == reply = NoReply /\ ~Awaiting

CappedInv ==
  /\ life \in 1..MaxLives
  /\ \A c \in inbox \cup running : c.life \in 1..life /\ c.version <= Cap(c.life)
  /\ poolVersion <= Cap(life) /\ reply.version <= Cap(life)
  /\ at \in 1..Starts => poolVersion <= Cap(life - 1) /\ reply.version <= Cap(life - 1)
  /\ version <= Cap(life - 1) + step
  /\ \A a, j : /\ Trained(a) /\ Updated(j) /\ Starts + a < at /\ at <= Starts + j
               /\ at = Starts + j => Unposted
               => version + 1 <= Cap(life - 1) + step

(* What the controller does to the calls and the versions.                 *)
LEMMA Handled ==
  ASSUME LoopsTyped, CallsInv, Serves
  PROVE  /\ UNCHANGED <<run, at, batch, learning>>
         /\ inbox' \cup running' \subseteq inbox \cup running
         /\ \/ poolVersion' \in {poolVersion, 0}
            \/ \E c \in running : c.op = "update" /\ poolVersion' = c.version
         /\ reply' \in {reply, Refusal, [got |-> "ok", version |-> poolVersion']}
         /\ at # 0 /\ Unposted' => Unposted
  <1>1. CASE AnswerVersion
    <2> PICK c \in inbox :
          inbox' = inbox \ {c} /\ AnswerTo(c, [got |-> "ok", version |-> poolVersion])
      BY <1>1 DEF AnswerVersion
    <2>1. UNCHANGED <<run, at, batch, learning, running, poolVersion>>
      BY <1>1 DEF AnswerVersion
    <2>2. at # 0 /\ Unposted' => Unposted
      BY <2>1, Answers DEF Unposted, Awaiting, AnswerTo, Abandoned, run
    <2> QED
      BY <2>1, <2>2 DEF AnswerTo
  <1>2. CASE Take
    <2> PICK c \in inbox :
          /\ inbox' = inbox \ {c}
          /\ IF Abandoned(c) \/ (c.op = "update" /\ ~grouped)
             THEN AnswerTo(c, Refusal) /\ UNCHANGED running
             ELSE running' = {c} /\ UNCHANGED reply
      BY <1>2 DEF Take
    <2>1. UNCHANGED <<run, at, batch, learning, poolVersion>> /\ running = {}
      BY <1>2 DEF Take
    <2>2. at # 0 /\ Unposted' => Unposted
      BY <2>1, Answers DEF Unposted, Awaiting, AnswerTo, Abandoned, run
    <2> QED
      BY <2>1, <2>2 DEF AnswerTo
  <1>3. CASE Complete \/ Break
    <2> PICK c \in running, r \in {Refusal, [got |-> "ok", version |-> poolVersion']} :
          /\ running' = {} /\ AnswerTo(c, r)
          /\ \/ poolVersion' = poolVersion
             \/ c.op = "update" /\ poolVersion' = c.version
      BY <1>3 DEF Complete, Break
    <2>1. UNCHANGED <<run, at, batch, learning, inbox>>
      BY <1>3 DEF Complete, Break
    <2>2. at # 0 /\ Unposted' => Unposted
      <3>1. r # NoReply /\ \A d \in running : d = c
        BY Answers DEF CallsInv
      <3> QED
        BY <2>1, <3>1 DEF Unposted, Awaiting, AnswerTo, Abandoned, run
    <2> QED
      BY <2>1, <2>2 DEF AnswerTo
  <1>4. CASE Replaced
    BY <1>4 DEF Replaced, Unposted, Awaiting, run
  <1>5. CASE ControllerRestarts
    <2>1. /\ UNCHANGED <<run, at, batch, learning, running>> /\ poolVersion' = 0 /\ inbox' = {}
          /\ reply' = IF Awaiting /\ at # 0 THEN Refusal ELSE reply
      BY <1>5 DEF ControllerRestarts
    <2>2. at # 0 /\ Unposted' => Unposted
      BY <2>1, Answers DEF Unposted
    <2> QED
      BY <2>1, <2>2
  <1> QED
    BY <1>1, <1>2, <1>3, <1>4, <1>5 DEF Serves

LEMMA CappedKept ==
  ASSUME LoopsTyped, CallsInv, StepInv, StepsInv, CappedInv, Next
  PROVE  CappedInv'
  <1>0. /\ at \in Nat /\ Starts \in Nat \ {0} /\ Loops \in Nat \ {0}
        /\ step \in 0..MaxSteps /\ version \in Nat /\ poolVersion \in Nat /\ reply.version \in Nat
        /\ life \in 1..MaxLives
        /\ MaxSteps \in Nat \ {0} /\ MaxLives \in Nat \ {0}
    BY Sized, SizesAssumption DEF LoopsTyped, StepsInv, CappedInv
  <1> PICK before, most \in Nat : before = Cap(life - 1) /\ most = Cap(life)
    <2>1. life \in Nat /\ life # 0
      BY <1>0
    <2>2. Cap(life) \in Nat /\ Cap(life - 1) \in Nat
      BY <2>1, Caps
    <2> QED
      BY <2>2
  <1>00. most = before + MaxSteps
    <2>1. life \in Nat /\ life # 0
      BY <1>0
    <2>2. Cap(life) = Cap(life - 1) + MaxSteps
      BY <2>1, Caps
    <2> QED
      BY <2>2
  <1>1. CASE Waits
    BY <1>1, Waiting DEF CappedInv, Trained, Updated, Unposted, Awaiting, Starts, Loops, controller
  <1>2. CASE Onward
    <2>1. /\ at # 0 /\ Advance /\ UNCHANGED <<prog, life, inbox, running, poolVersion>>
          /\ reply' = NoReply /\ reply'.version = 0
          /\ step' \in {step, step + 1}
          /\ (Phase = "actor" <=> step' = step + 1)
          /\ version' = version \/ (Resuming /\ version' = reply.version)
      BY <1>0, <1>2, Onwards DEF controller, NoReply
    <2>2. at' # 0 =>
            at' = at + 1 \/ (at = Starts + Loops /\ step < MaxSteps /\ at' = Starts + 1)
      BY <2>1, Advances
    <2>3. at' \in 1..Starts => at \in 1..Starts
      BY <1>0, <2>1, <2>2
    <2>4. version' <= before + step'
      <3>1. CASE version' = version
        BY <1>0, <2>1, <3>1 DEF CappedInv
      <3>2. CASE Resuming /\ version' = reply.version
        <4>1. at \in 1..Starts
          BY <3>2 DEF Resuming, Starting, Starts
        <4>2. version' <= before
          BY <3>2, <4>1 DEF CappedInv
        <4> QED
          BY <1>0, <2>1, <3>2, <4>2
      <3> QED
        BY <2>1, <3>1, <3>2
    <2>5. ASSUME NEW a, NEW j, Trained(a), Updated(j), Starts + a < at', at' <= Starts + j
          PROVE  version' + 1 <= before + step'
      <3>1. a \in 1..Loops /\ j \in 1..Loops
        BY <2>5 DEF Trained, Updated
      <3>2. at' = at + 1
        BY <1>0, <2>2, <2>5, <3>1
      <3>3. at > Starts /\ version' = version
        <4>1. at > Starts
          BY <1>0, <2>5, <3>1, <3>2
        <4> QED
          BY <1>0, <2>1, <4>1 DEF Resuming, Starting, Starts
      <3>4. CASE at = Starts + a
        <4>1. Phase = "actor"
          BY <2>5, <3>4, Once
        <4> QED
          BY <1>0, <2>1, <3>3, <4>1 DEF CappedInv
      <3>5. CASE at # Starts + a
        <4>1. Starts + a < at /\ at <= Starts + j /\ at # Starts + j
          BY <1>0, <2>5, <3>1, <3>2, <3>5
        <4>2. version + 1 <= before + step
          BY <2>5, <4>1 DEF CappedInv
        <4> QED
          BY <1>0, <2>1, <3>3, <4>2
      <3> QED
        BY <3>4, <3>5
    <2>6. Starts' = Starts /\ \A k : Trained(k)' = Trained(k) /\ Updated(k)' = Updated(k)
      BY <2>1 DEF Trained, Updated, Starts, Loops
    <2>7. reply'.version <= most /\ reply'.version <= before
      BY <2>1
    <2> QED
      BY <2>1, <2>3, <2>4, <2>5, <2>6, <2>7 DEF CappedInv
  <1>3. CASE Posts
    <2> PICK op \in Posting :
          In(op) /\ Post(op, IF op = "update" THEN version + 1 ELSE version)
      BY <1>3 DEF Posts
    <2> PICK v : v = IF op = "update" THEN version + 1 ELSE version
      OBVIOUS
    <2>1. /\ Phase = op /\ at # 0 /\ Unposted /\ version' = v
          /\ inbox' = inbox \cup {Call(op, v)}
          /\ UNCHANGED <<prog, life, at, step, running, poolVersion, reply>>
          /\ Call(op, v).life = life /\ Call(op, v).version = v
      BY DEF In, Post, Phase, Call, Unposted
    <2>2. v \in Nat /\ v <= before + step
      <3>1. CASE op # "update"
        BY <1>0, <3>1 DEF CappedInv
      <3>2. CASE op = "update"
        <4> PICK a, j \in 1..Loops : a < j /\ Trained(a) /\ Updated(j) /\ at = Starts + j
          BY <2>1, <3>2, Once
        <4>1. Starts + a < at /\ at <= Starts + j
          BY <1>0
        <4>2. version + 1 <= before + step
          BY <2>1, <4>1 DEF CappedInv
        <4> QED
          BY <1>0, <3>2, <4>2
      <3> QED
        BY <3>1, <3>2
    <2>3. v <= most
      BY <1>0, <1>00, <2>2
    <2>4. Awaiting'
      BY <2>1 DEF Awaiting
    <2>5. ASSUME NEW a, NEW j, Trained(a), Updated(j), Starts + a < at, at <= Starts + j,
                 at # Starts + j
          PROVE  v + 1 <= before + step
      <3>1. op # "update"
        <4> PICK b, i \in 1..Loops :
              (\A k : Updated(k) => k = i) /\ (Phase = "update" /\ at # 0 <=> at = Starts + i)
          BY Once
        <4> QED
          BY <2>1, <2>5
      <3>2. version + 1 <= before + step
        BY <2>5 DEF CappedInv
      <3> QED
        BY <3>1, <3>2
    <2>6. Starts' = Starts /\ \A k : Trained(k)' = Trained(k) /\ Updated(k)' = Updated(k)
      BY <2>1 DEF Trained, Updated, Starts, Loops
    <2>7. life \in 1..life
      BY <1>0
    <2> QED
      BY <2>1, <2>2, <2>3, <2>4, <2>5, <2>6, <2>7 DEF CappedInv, Unposted
  <1>4. CASE Ends
    <2>1. /\ at' = 0 /\ version' = 0 /\ step' = 0 /\ reply'.version = 0
          /\ UNCHANGED <<prog, life, inbox, running, poolVersion>>
      BY <1>4 DEF Ends, Exit, Cleared, NoReply, controller
    <2>2. Starts' = Starts
      BY <2>1 DEF Starts
    <2>3. \A a : Trained(a)' => ~ (Starts + a < 0)
      BY <1>0, <2>1 DEF Trained, Loops
    <2> QED
      BY <1>0, <2>1, <2>2, <2>3 DEF CappedInv
  <1>5. CASE Rerun
    <2>1. /\ at' = 1 /\ version' = 0 /\ step' = 0 /\ reply'.version = 0
          /\ life < MaxLives /\ life' = life + 1 /\ prog' \in Programs
          /\ UNCHANGED <<inbox, running, poolVersion>>
      BY <1>5 DEF Rerun, Cleared, NoReply, controller
    <2>2. Starts' \in Nat \ {0} /\ \A a : Trained(a)' => a \in Nat \ {0}
      BY <2>1, Programmed DEF Starts, Trained, Loops
    <2>3. /\ life' \in 1..MaxLives /\ life' - 1 = life
      BY <1>0, <2>1
    <2>4. Cap(life') \in Nat /\ most <= Cap(life')
      BY <1>0, <2>1, Caps
    <2>5. \A c \in inbox \cup running : c.life \in 1..life' /\ c.version <= Cap(c.life)
      BY <1>0, <2>1 DEF CappedInv
    <2>6. poolVersion <= most /\ poolVersion <= Cap(life')
      BY <1>0, <2>4 DEF CappedInv
    <2>7. \A a : Trained(a)' => ~ (Starts' + a < 1)
      BY <2>2
    <2> QED
      BY <2>1, <2>3, <2>4, <2>5, <2>6, <2>7 DEF CappedInv
  <1>6. CASE Serves
    <2>1. /\ UNCHANGED <<prog, life, at, step, version>>
          /\ inbox' \cup running' \subseteq inbox \cup running
          /\ \/ poolVersion' \in {poolVersion, 0}
             \/ \E c \in running : c.op = "update" /\ poolVersion' = c.version
          /\ reply' \in {reply, Refusal, [got |-> "ok", version |-> poolVersion']}
          /\ at # 0 /\ Unposted' => Unposted
      BY <1>6, Handled DEF run
    <2>2. ASSUME NEW c \in running, c.op = "update", poolVersion' = c.version
          PROVE  poolVersion' \in Nat /\ poolVersion' <= most
                 /\ (at \in 1..Starts => poolVersion' <= before)
      <3>1. c.life \in 1..life /\ c.version <= Cap(c.life) /\ c.version \in Nat
        BY DEF CappedInv, CallsInv
      <3>2. Cap(c.life) \in Nat /\ Cap(c.life) <= most
        <4>1. c.life \in Nat /\ life \in Nat /\ c.life <= life
          BY <1>0, <3>1
        <4>2. Cap(c.life) \in Nat /\ Cap(c.life) <= Cap(life)
          BY <4>1, Caps
        <4> QED
          BY <4>2
      <3>3. ASSUME at \in 1..Starts PROVE c.version <= before
        <4>1. c.life # life
          BY <1>0, <3>3, UpdatesInLoop, <2>2 DEF CallsInv
        <4>2. c.life <= life - 1 /\ life - 1 \in Nat /\ c.life \in Nat
          BY <1>0, <3>1, <4>1
        <4>3. Cap(c.life) <= before
          BY <4>2, Caps
        <4> QED
          BY <3>1, <3>2, <4>3
      <3> QED
        BY <2>2, <3>1, <3>2, <3>3
    <2>3. poolVersion' \in Nat /\ poolVersion' <= most
          /\ (at \in 1..Starts => poolVersion' <= before)
      BY <1>0, <2>1, <2>2 DEF CappedInv
    <2>4. reply'.version <= most /\ (at \in 1..Starts => reply'.version <= before)
      BY <1>0, <2>1, <2>3 DEF CappedInv, Refusal
    <2>5. Starts' = Starts /\ \A k : Trained(k)' = Trained(k) /\ Updated(k)' = Updated(k)
      BY <2>1 DEF Trained, Updated, Starts, Loops
    <2>6. \A a : Trained(a) => ~ (Starts + a < 0)
      BY <1>0 DEF Trained
    <2> QED
      BY <1>0, <2>1, <2>3, <2>4, <2>5, <2>6 DEF CappedInv
  <1> QED
    BY <1>1, <1>2, <1>3, <1>4, <1>5, <1>6, Sorts

-----------------------------------------------------------------------------
Versions == 0..MaxLives * MaxSteps

Numbered ==
  /\ {version, poolVersion, reply.version, 0} \subseteq Versions
  /\ \A c \in inbox \cup running : c.version \in Versions
  /\ Policy \in Model

LEMMA Counted == LoopsTyped /\ CallsInv /\ StepsInv /\ CappedInv => Numbered
  <1> SUFFICES ASSUME LoopsTyped, CallsInv, StepsInv, CappedInv PROVE Numbered
    OBVIOUS
  <1>1. /\ life \in Nat /\ life # 0 /\ MaxLives \in Nat /\ life <= MaxLives
        /\ life \in 0..MaxLives /\ step \in 0..MaxSteps /\ MaxSteps \in Nat
    BY SizesAssumption DEF CappedInv, StepsInv
  <1> PICK before, most, all \in Nat :
        /\ before = Cap(life - 1) /\ most = Cap(life) /\ all = Cap(MaxLives)
    <2>1. Cap(life - 1) \in Nat /\ Cap(life) \in Nat /\ Cap(MaxLives) \in Nat
      BY <1>1, Caps
    <2> QED
      BY <2>1
  <1>2. most = before + MaxSteps /\ most <= all
    <2>1. Cap(life) = Cap(life - 1) + MaxSteps
      BY <1>1, Caps
    <2>2. Cap(life) <= Cap(MaxLives)
      BY <1>1, Caps
    <2> QED
      BY <2>1, <2>2
  <1>3. Versions = 0..all
    BY DEF Versions, Cap
  <1>4. version \in Nat /\ poolVersion \in Nat /\ reply.version \in Nat
    BY DEF LoopsTyped
  <1>5. version <= all
    BY <1>1, <1>2, <1>4 DEF CappedInv
  <1>6. poolVersion <= all /\ reply.version <= all
    BY <1>2, <1>4 DEF CappedInv
  <1>7. ASSUME NEW c \in inbox \cup running PROVE c.version \in 0..all
    <2>1. c.life \in 1..life /\ c.version <= Cap(c.life) /\ c.version \in Nat
      BY DEF CappedInv, CallsInv
    <2>2. c.life \in Nat /\ c.life <= MaxLives
      BY <1>1, <2>1
    <2>3. Cap(c.life) \in Nat /\ Cap(c.life) <= Cap(MaxLives)
      BY <1>1, <2>2, Caps
    <2> QED
      BY <2>1, <2>3
  <1>8. Policy \in Model
    BY <1>1 DEF Policy, Model
  <1> QED
    BY <1>3, <1>4, <1>5, <1>6, <1>7, <1>8 DEF Numbered

-----------------------------------------------------------------------------
(* The types of what is passed around.                                     *)
Answer == (1..BatchSize) \X Responses
Calls(l) == [life : 1..l, op : STRING, level : 1..2, model : Model, version : Versions]

BatchTyped ==
  finished \subseteq Answer /\ indexed \in Seq(Answer) /\ responses \in Seq(Responses)

ServiceTyped ==
  /\ inbox \cup running \subseteq Calls(life)
  /\ reply \in [got : {"none", "ok", "error"}, version : Versions]
  /\ grouped \in BOOLEAN /\ faults \in 0..MaxFaults
  /\ holds \in [Engines -> Model \cup {Lost}] /\ mapped \in [Engines -> SUBSET Memory]

LEMMA ResponseType ==
  ASSUME NEW i \in 0..BatchSize, NEW m \in Model \cup {Lost}, NEW v \in Versions
  PROVE  Response(i, m, v) \in Responses
  BY DEF Response, Responses, Versions

LEMMA OpenType ==
  ASSUME LoopsTyped
  PROVE  Open \subseteq 1..prog.prompts /\ 1..prog.prompts \subseteq 1..BatchSize
         /\ IsFiniteSet(1..prog.prompts) /\ Cardinality(1..prog.prompts) = prog.prompts
         /\ prog.prompts \in Nat
  <1>1. prog.prompts \in 0..BatchSize /\ BatchSize \in Nat
    BY Shaped, SizesAssumption DEF LoopsTyped
  <1>2. IsFiniteSet(1..prog.prompts) /\ Cardinality(1..prog.prompts) = prog.prompts
    <2> PICK n \in Nat : n = prog.prompts
      BY <1>1
    <2>1. IsFiniteSet(1..n) /\ Cardinality(1..n) = n
      BY FS_Interval
    <2> QED
      BY <2>1
  <1> QED
    BY <1>1, <1>2 DEF Open

LEMMA PhaseType ==
  ASSUME LoopsTyped, at # 0
  PROVE  Phase \in STRING
  <1> PICK s, l, c \in Seq(STRING) : s = prog.startup /\ l = prog.loop /\ c = prog.closing
    BY Programmed DEF LoopsTyped
  <1>1. (s \o l) \o c \in Seq(STRING)
    BY ConcatProperties
  <1>2. Code(prog) \in Seq(STRING)
    BY <1>1 DEF Code
  <1>3. at \in 1..Len(Code(prog))
    BY Sized DEF LoopsTyped
  <1> QED
    BY <1>2, <1>3, ElementOfSeq DEF Phase

LEMMA BatchTypeKept ==
  ASSUME LoopsTyped, CallsInv, StepsInv, CappedInv, ServiceTyped, BatchTyped, Next
  PROVE  BatchTyped'
  <1>1. CASE Answered
    <2> PICK i \in InFlight, e \in Engines :
          finished' = finished \cup {<<i, Response(i, holds[e], poolVersion)>>}
      BY <1>1 DEF Answered
    <2>1. UNCHANGED <<indexed, responses>>
      BY <1>1 DEF Answered
    <2>2. i \in 1..BatchSize /\ i \in 0..BatchSize
      BY OpenType DEF InFlight
    <2>3. holds[e] \in Model \cup {Lost} /\ poolVersion \in Versions
      BY Counted DEF Numbered, ServiceTyped
    <2>4. <<i, Response(i, holds[e], poolVersion)>> \in Answer
      BY <2>2, <2>3, ResponseType DEF Answer
    <2> QED
      BY <2>1, <2>4 DEF BatchTyped
  <1>2. CASE Misses
    <2> PICK i \in Open : finished' = finished \cup {<<i, Placeholder>>}
      BY <1>2 DEF Misses
    <2>1. UNCHANGED <<indexed, responses>>
      BY <1>2 DEF Misses
    <2>2. i \in 1..BatchSize
      BY OpenType
    <2>3. Placeholder \in Responses
      <3>1. 0 \in 0..BatchSize /\ 0 \in Versions
        BY Counted, SizesAssumption DEF Numbered
      <3> QED
        BY <3>1, ResponseType DEF Placeholder
    <2> QED
      BY <2>1, <2>2, <2>3 DEF BatchTyped, Answer
  <1>3. CASE Collect
    <2> PICK r \in finished : finished' = finished \ {r} /\ indexed' = Append(indexed, r)
      BY <1>3 DEF Collect
    <2>1. responses' = responses
      BY <1>3 DEF Collect
    <2>2. indexed' \in Seq(Answer)
      <3>1. r \in Answer /\ indexed \in Seq(Answer)
        BY DEF BatchTyped
      <3> QED
        BY <3>1, AppendProperties
    <2> QED
      BY <2>1, <2>2 DEF BatchTyped
  <1>4. CASE BatchReturns
    <2>1. /\ responses' \in InOrderOfRequests(indexed)
          /\ finished' = {} /\ indexed' = <<>>
      BY <1>4 DEF BatchReturns
    <2> PICK n \in Nat : n = Len(indexed) /\ DOMAIN indexed = 1..n
      BY LenProperties DEF BatchTyped
    <2> PICK place \in [1..n -> 1..n] : responses' = [k \in 1..n |-> indexed[place[k]][2]]
      BY <2>1 DEF InOrderOfRequests
    <2>2. \A k \in 1..n : indexed[place[k]] \in Answer
      <3>1. \A k \in 1..n : indexed[k] \in Answer
        BY ElementOfSeq DEF BatchTyped
      <3> QED
        BY <3>1
    <2>3. \A k \in 1..n : indexed[place[k]][2] \in Responses
      BY <2>2 DEF Answer
    <2>4. responses' \in Seq(Responses)
      BY <2>3, IsASeq
    <2> QED
      BY <2>1, <2>4, EmptySeq DEF BatchTyped
  <1>5. CASE Actor
    BY <1>5, EmptySeq DEF Actor, BatchTyped
  <1>6. CASE Computes \/ Talks \/ Serves
    <2>1. UNCHANGED batch
      BY <1>6, Handled DEF Computes, Talks
    <2> QED
      BY <2>1 DEF batch, BatchTyped
  <1>7. CASE Ends \/ Rerun
    BY <1>7, EmptySeq DEF Ends, Exit, Rerun, Cleared, BatchTyped
  <1> QED
    BY <1>1, <1>2, <1>3, <1>4, <1>5, <1>6, <1>7, Kinds

(* The calls are of phases.                                                *)
LEMMA ServiceTypeKept ==
  ASSUME LoopsTyped, CallsInv, CappedInv, Numbered, Numbered', ServiceTyped, Next
  PROVE  ServiceTyped'
  <1>0. {version', poolVersion', reply'.version, 0} \subseteq Versions /\ Policy \in Model
    BY DEF Numbered
  <1>1. CASE Waits
    BY <1>1, Waiting DEF ServiceTyped, controller, engines
  <1>2. NoReply \in [got : {"none", "ok", "error"}, version : Versions]
    BY <1>0 DEF NoReply
  <1>3. CASE Onward
    BY <1>2, <1>3, Onwards DEF ServiceTyped, controller, engines
  <1>4. CASE Posts
    <2> PICK op \in Posting :
          In(op) /\ Post(op, IF op = "update" THEN version + 1 ELSE version)
      BY <1>4 DEF Posts
    <2> PICK v : v = IF op = "update" THEN version + 1 ELSE version
      OBVIOUS
    <2>1. /\ version' = v /\ inbox' = inbox \cup {Call(op, v)}
          /\ UNCHANGED <<prog, life, running, reply, grouped, faults, engines>>
      BY DEF Post
    <2>2. prog.level \in 1..2 /\ op \in STRING /\ life \in 1..life
      <3>1. prog.level \in 1..2
        BY Shaped DEF LoopsTyped
      <3>2. op \in STRING
        BY PhaseType DEF In, Phase
      <3>3. life \in 1..life
        BY SizesAssumption DEF CappedInv
      <3> QED
        BY <3>1, <3>2, <3>3
    <2>3. Call(op, v) \in Calls(life)
      BY <1>0, <2>1, <2>2 DEF Call, Calls
    <2> QED
      BY <2>1, <2>3 DEF ServiceTyped, engines
  <1>5. CASE Ends
    BY <1>2, <1>5 DEF Ends, Exit, Cleared, ServiceTyped, controller, engines
  <1>6. CASE Rerun
    <2>1. /\ life' = life + 1 /\ reply' = NoReply
          /\ UNCHANGED <<inbox, running, grouped, faults, holds, mapped>>
      BY <1>6 DEF Rerun, Cleared, controller, engines
    <2>2. 1..life \subseteq 1..life + 1
      BY DEF CappedInv
    <2>3. Calls(life) \subseteq Calls(life + 1)
      BY <2>2 DEF Calls
    <2> QED
      BY <1>2, <2>1, <2>3 DEF ServiceTyped
  <1>7. CASE Serves
    <2>1. /\ UNCHANGED life
          /\ inbox' \cup running' \subseteq inbox \cup running
          /\ reply' \in {reply, Refusal, [got |-> "ok", version |-> poolVersion']}
      BY <1>7, Handled DEF run
    <2>2. reply' \in [got : {"none", "ok", "error"}, version : Versions]
      BY <1>0, <2>1 DEF ServiceTyped, Refusal
    <2>3. grouped' \in BOOLEAN /\ faults' \in 0..MaxFaults
      <3>1. faults \in 0..MaxFaults /\ MaxFaults \in Nat /\ grouped \in BOOLEAN
        BY SizesAssumption DEF ServiceTyped
      <3>2. grouped' \in BOOLEAN
        BY <1>7, <3>1 DEF Serves, AnswerVersion, Take, Complete, Break, Replaced,
                          ControllerRestarts
      <3>3. faults' = faults \/ (faults < MaxFaults /\ faults' = faults + 1)
        BY <1>7 DEF Serves, AnswerVersion, Take, Complete, Break, Replaced, ControllerRestarts
      <3> QED
        BY <3>1, <3>2, <3>3
    <2>4. holds' \in [Engines -> Model \cup {Lost}] /\ mapped' \in [Engines -> SUBSET Memory]
      <3>1. CASE AnswerVersion \/ Take \/ ControllerRestarts
        BY <3>1 DEF AnswerVersion, Take, ControllerRestarts, engines, ServiceTyped
      <3>2. CASE Complete \/ Break
        <4> PICK c \in running, S \in SUBSET Engines : Effect(c, S)
          BY <3>2 DEF Complete, Break
        <4>1. c.model \in Model /\ Tags(c.op) \in SUBSET Memory
          BY DEF ServiceTyped, Calls, Tags, Memory
        <4>2. \A e \in Engines : mapped[e] \in SUBSET Memory /\ holds[e] \in Model \cup {Lost}
          BY DEF ServiceTyped
        <4> QED
          BY <4>1, <4>2 DEF Effect
      <3>3. CASE Replaced
        <4>1. Checkpoint \in Model
          <5>1. 0 \in 0..MaxLives /\ 0 \in 0..MaxSteps
            BY SizesAssumption
          <5> QED
            BY <5>1 DEF Checkpoint, Model
        <4> QED
          BY <3>3, <4>1 DEF Replaced, ServiceTyped
      <3> QED
        BY <1>7, <3>1, <3>2, <3>3 DEF Serves
    <2> QED
      BY <2>1, <2>2, <2>3, <2>4 DEF ServiceTyped
  <1> QED
    BY <1>1, <1>3, <1>4, <1>5, <1>6, <1>7, Sorts

-----------------------------------------------------------------------------
(* What compute_gae computes: first the powers of the discount.            *)

Powers(h, n) ==
  h \in [0..n -> Int] /\ h[0] = 1 /\ \A i \in 1..n : h[i] = Gamma * Lam * h[i - 1]

LEMMA PowersExist == \A n \in Nat : \E h : Powers(h, n)
  <1> DEFINE Bad == {n \in Nat : ~ \E h : Powers(h, n)}
  <1> SUFFICES ASSUME Bad # {} PROVE FALSE
    OBVIOUS
  <1>1. PICK n \in Bad : \A m \in Bad : n <= m
    <2>1. Bad \subseteq Nat
      OBVIOUS
    <2> HIDE DEF Bad
    <2> QED
      BY <2>1, LeastNatural
  <1>2. n \in Nat /\ ~ \E h : Powers(h, n)
    OBVIOUS
  <1>3. n # 0
    <2>1. Powers([i \in 0..0 |-> 1], 0)
      BY DEF Powers
    <2> QED
      BY <1>2, <2>1
  <1>4. n - 1 \in Nat /\ n - 1 \notin Bad
    <2>1. n - 1 \in Nat /\ ~ (n <= n - 1)
      BY <1>2, <1>3
    <2> HIDE DEF Bad
    <2> QED
      BY <1>1, <2>1
  <1>5. PICK h : Powers(h, n - 1)
    BY <1>4
  <1> DEFINE e == [i \in 0..n |-> IF i = n THEN Gamma * Lam * h[n - 1] ELSE h[i]]
  <1>6. \A i \in 0..n : i # n => i \in 0..n - 1
    BY <1>2
  <1>7. Gamma * Lam \in Int /\ h[n - 1] \in Int /\ \A a, b \in Int : a * b \in Int
    BY <1>4, <1>5, NumbersAssumption DEF Powers
  <1>8. e \in [0..n -> Int]
    <2>1. Gamma * Lam * h[n - 1] \in Int
      BY <1>7
    <2> QED
      BY <1>5, <1>6, <2>1 DEF Powers
  <1>9. e[0] = 1
    BY <1>2, <1>3, <1>5 DEF Powers
  <1>10. ASSUME NEW i \in 1..n PROVE e[i] = Gamma * Lam * e[i - 1]
    <2>1. i - 1 \in 0..n /\ i - 1 # n /\ i \in 0..n /\ (i # n => i \in 1..n - 1)
      BY <1>2
    <2>2. e[i - 1] = h[i - 1] /\ (i # n => e[i] = h[i]) /\ (i = n => e[i] = Gamma * Lam * h[n - 1])
      BY <2>1
    <2> HIDE DEF e
    <2> QED
      BY <1>5, <2>1, <2>2 DEF Powers
  <1>11. Powers(e, n)
    BY <1>8, <1>9, <1>10 DEF Powers
  <1> QED
    BY <1>2, <1>11

LEMMA DiscountDef ==
  /\ Discount \in [0..BatchSize -> Int] /\ Discount[0] = 1
  /\ \A k \in Nat : k < BatchSize => Discount[k + 1] = Gamma * Lam * Discount[k]
  <1> DEFINE Rec(f) == f = [k \in 0..BatchSize |-> IF k = 0 THEN 1 ELSE Gamma * Lam * f[k - 1]]
             c == CHOOSE f : Rec(f)
  <1>0. BatchSize \in Nat
    BY SizesAssumption
  <1>1. Discount = c
    BY DEF Discount
  <1>2. Rec(c)
    <2>1. PICK h : Powers(h, BatchSize)
      BY <1>0, PowersExist
    <2>2. h = [k \in 0..BatchSize |-> h[k]]
      BY <2>1 DEF Powers
    <2>3. \A k \in 0..BatchSize : h[k] = IF k = 0 THEN 1 ELSE Gamma * Lam * h[k - 1]
      <3>1. \A k \in 0..BatchSize : k # 0 => k \in 1..BatchSize
        BY <1>0
      <3> QED
        BY <2>1, <3>1 DEF Powers
    <2>4. Rec(h)
      BY <2>2, <2>3
    <2> HIDE DEF Rec
    <2> QED
      BY <2>4
  <1> HIDE DEF c
  <1>3. /\ Discount[0] = 1 /\ DOMAIN Discount = 0..BatchSize
        /\ Discount = [k \in 0..BatchSize |-> Discount[k]]
    BY <1>0, <1>1, <1>2
  <1>4. \A k \in Nat : k < BatchSize => Discount[k + 1] = Gamma * Lam * Discount[k]
    <2> TAKE k \in Nat
    <2> HAVE k < BatchSize
    <2>1. k + 1 \in 0..BatchSize /\ k + 1 # 0 /\ (k + 1) - 1 = k
      BY <1>0
    <2>2. c[k + 1] = IF k + 1 = 0 THEN 1 ELSE Gamma * Lam * c[(k + 1) - 1]
      BY <1>2, <2>1
    <2> QED
      BY <1>1, <2>1, <2>2
  <1>5. \A k \in 0..BatchSize : Discount[k] \in Int
    <2> DEFINE Bad == {k \in Nat : k <= BatchSize /\ Discount[k] \notin Int}
    <2>0. ASSUME Bad # {} PROVE FALSE
      <3>1. PICK k \in Bad : \A m \in Bad : k <= m
        <4>1. Bad \subseteq Nat
          OBVIOUS
        <4> HIDE DEF Bad
        <4> QED
          BY <2>0, <4>1, LeastNatural
      <3>2. k \in Nat /\ k <= BatchSize /\ Discount[k] \notin Int
        OBVIOUS
      <3>3. k # 0
        BY <1>3, <3>2
      <3>4. /\ k - 1 \in Nat /\ ~ (k <= k - 1) /\ (k - 1) + 1 = k
            /\ k - 1 < BatchSize /\ k - 1 <= BatchSize
        BY <1>0, <3>2, <3>3
      <3>5. k - 1 \notin Bad
        <4> HIDE DEF Bad
        <4> QED
          BY <3>1, <3>4
      <3>6. Discount[k - 1] \in Int
        BY <3>4, <3>5
      <3>7. Discount[k] = Gamma * Lam * Discount[k - 1]
        BY <1>4, <3>4
      <3>8. Gamma * Lam \in Int /\ \A a, b \in Int : a * b \in Int
        BY NumbersAssumption
      <3> QED
        BY <3>2, <3>6, <3>7, <3>8
    <2>1. ASSUME NEW k \in 0..BatchSize PROVE Discount[k] \in Int
      <3>1. k \in Nat /\ k <= BatchSize
        BY <1>0
      <3>2. k \notin Bad
        BY <2>0
      <3> QED
        BY <3>1, <3>2
    <2> QED
      BY <2>1
  <1> QED
    BY <1>3, <1>4, <1>5

LEMMA Associative ==
  ASSUME NEW a \in Int, NEW b \in Int, NEW c \in Int
  PROVE  a * b * c = a * (b * c)
  OBVIOUS

(* Terms that start one later are discounted once less.                    *)
LEMMA Discounted ==
  ASSUME NEW t \in Int, NEW k \in Int, t < k, k - t <= BatchSize, NEW x \in Int
  PROVE  Discount[k - t] * x = Gamma * Lam * (Discount[k - (t + 1)] * x)
  <1>1. /\ k - (t + 1) \in Nat /\ k - t = (k - (t + 1)) + 1
        /\ k - (t + 1) < BatchSize /\ k - (t + 1) \in 0..BatchSize
    BY SizesAssumption
  <1> DEFINE j == k - (t + 1)
  <1> HIDE DEF j
  <1>2. Discount[j + 1] = Gamma * Lam * Discount[j] /\ Discount[j] \in Int
    BY <1>1, DiscountDef DEF j
  <1> DEFINE d == Gamma * Lam
             q == Discount[j]
  <1>3. d \in Int
    BY NumbersAssumption
  <1>4. Discount[j + 1] = d * q /\ q \in Int
    BY <1>2
  <1> HIDE DEF d, q
  <1>5. Discount[j + 1] * x = d * (q * x)
    BY <1>3, <1>4, Associative
  <1> QED
    BY <1>1, <1>5 DEF j, d, q

LEMMA SumDiscounted ==
  ASSUME NEW w, NEW v, NEW t \in Int, NEW n \in Int,
         \A k \in (t + 1)..n : v[k] \in Int /\ w[k] = Gamma * Lam * v[k]
  PROVE  SumFunctionOnSet(w, (t + 1)..n) = Gamma * Lam * SumFunctionOnSet(v, (t + 1)..n)
  <1> DEFINE S == (t + 1)..n
             d == Gamma * Lam
  <1>1. IsFiniteSet(S)
    BY FS_Interval
  <1>2. d \in Int
    BY NumbersAssumption
  <1>3. \A k \in S : v[k] \in Int /\ w[k] = d * v[k]
    OBVIOUS
  <1> HIDE DEF S, d
  <1>4. SumFunctionOnSet(w, S) = d * SumFunctionOnSet(v, S)
    BY <1>1, <1>2, <1>3, SumScale
  <1> QED
    BY <1>4 DEF S, d

LEMMA DiscountType == \A k \in 0..BatchSize : Discount[k] \in Int
  BY DiscountDef

(* The discounted differences from t on, and their sum.                    *)
Terms(D, n, t) == [k \in t..n |-> Discount[k - t] * D[k]]
Total(D, n, t) == SumFunctionOnSet(Terms(D, n, t), t..n)

LEMMA TotalStep ==
  ASSUME NEW n \in 0..BatchSize, NEW D \in [1..n -> Int], NEW t \in 1..n
  PROVE  Total(D, n, t) = D[t] + Gamma * Lam * Total(D, n, t + 1) /\ Total(D, n, t + 1) \in Int
  <1> PICK w, v : w = Terms(D, n, t) /\ v = Terms(D, n, t + 1)
    OBVIOUS
  <1>1. \A k \in t..n :
          k - t \in 0..BatchSize /\ k \in 1..n /\ w[k] = Discount[k - t] * D[k]
    BY SizesAssumption DEF Terms
  <1>2. \A k \in (t + 1)..n :
          k \in t..n /\ k - (t + 1) \in 0..BatchSize /\ v[k] = Discount[k - (t + 1)] * D[k]
    BY SizesAssumption DEF Terms
  <1>3. \A a, b \in Int : a * b \in Int
    OBVIOUS
  <1>4. \A k \in t..n : w[k] \in Int
    BY <1>1, <1>3, DiscountType
  <1>5. \A k \in (t + 1)..n : v[k] \in Int /\ w[k] = Gamma * Lam * v[k]
    <2> TAKE k \in (t + 1)..n
    <2>1. /\ k \in 1..n /\ k \in Int /\ t \in Int /\ t < k /\ k - t <= BatchSize
          /\ D[k] \in Int /\ Discount[k - (t + 1)] \in Int
      <3>1. k \in t..n /\ k \in 1..n /\ k - t \in 0..BatchSize /\ k - (t + 1) \in 0..BatchSize
        BY <1>1, <1>2
      <3>2. BatchSize \in Int /\ t < k /\ k - t <= BatchSize
        BY <3>1, SizesAssumption
      <3> QED
        BY <3>1, <3>2, DiscountType
    <2>2. Discount[k - t] * D[k] = Gamma * Lam * (Discount[k - (t + 1)] * D[k])
      BY <2>1, Discounted
    <2> QED
      BY <1>1, <1>2, <1>3, <2>1, <2>2
  <1>6. w[t] = D[t]
    <2>1. t \in t..n /\ t - t = 0 /\ D[t] \in Int /\ 1 * D[t] = D[t]
      OBVIOUS
    <2> QED
      BY <1>1, <2>1, DiscountDef
  <1>7. t \in Int /\ n \in Int /\ t <= n
    OBVIOUS
  <1>8. SumFunctionOnSet(w, t..n) = w[t] + SumFunctionOnSet(w, (t + 1)..n)
    BY <1>4, <1>7, SumFirst
  <1>9. SumFunctionOnSet(w, (t + 1)..n) = Gamma * Lam * SumFunctionOnSet(v, (t + 1)..n)
    BY <1>5, <1>7, SumDiscounted
  <1>10. SumFunctionOnSet(v, (t + 1)..n) \in Int
    <2>1. IsFiniteSet((t + 1)..n)
      BY <1>7, FS_Interval
    <2> DEFINE S == (t + 1)..n
    <2>2. IsFiniteSet(S) /\ \A k \in S : v[k] \in Int
      BY <1>5, <2>1
    <2> HIDE DEF S
    <2>3. SumFunctionOnSet(v, S) \in Int
      BY <2>2, SumRemove
    <2> QED
      BY <2>3 DEF S
  <1> QED
    BY <1>6, <1>8, <1>9, <1>10 DEF Total

(* What satisfies the recurrence is the discounted sum.                    *)
LEMMA DiscountedSum ==
  ASSUME NEW n \in 0..BatchSize, NEW D \in [1..n -> Int], NEW F,
         F[n + 1] = 0, \A k \in 1..n : F[k] = D[k] + Gamma * Lam * F[k + 1]
  PROVE  \A t \in 1..n : F[t] = SumFunction(Terms(D, n, t))
  <1> DEFINE Bad == {m \in Nat : m <= n /\ F[n + 1 - m] # Total(D, n, n + 1 - m)}
  <1>1. Bad = {}
    <2> SUFFICES ASSUME Bad # {} PROVE FALSE
      OBVIOUS
    <2>1. PICK m \in Bad : \A l \in Bad : m <= l
      <3>1. Bad \subseteq Nat
        OBVIOUS
      <3> HIDE DEF Bad
      <3> QED
        BY <3>1, LeastNatural
    <2>2. m \in Nat /\ m <= n /\ F[n + 1 - m] # Total(D, n, n + 1 - m)
      OBVIOUS
    <2>3. m # 0
      <3>1. n + 1 - 0 = n + 1 /\ (n + 1)..n = {}
        OBVIOUS
      <3>2. Total(D, n, n + 1) = 0
        BY <3>1, SumEmpty DEF Total
      <3> QED
        BY <2>2, <3>1, <3>2
    <2>4. m - 1 \in Nat /\ m - 1 <= n /\ ~ (m <= m - 1)
      BY <2>2, <2>3
    <2>5. m - 1 \notin Bad
      <3> HIDE DEF Bad
      <3> QED
        BY <2>1, <2>4
    <2>6. F[n + 1 - (m - 1)] = Total(D, n, n + 1 - (m - 1))
      BY <2>4, <2>5
    <2>7. PICK t \in 1..n : t = n + 1 - m /\ t + 1 = n + 1 - (m - 1)
      <3>1. n + 1 - m \in 1..n /\ (n + 1 - m) + 1 = n + 1 - (m - 1)
        BY <2>2, <2>3
      <3> QED
        BY <3>1
    <2>8. Total(D, n, t) = D[t] + Gamma * Lam * Total(D, n, t + 1)
      BY TotalStep
    <2>9. F[t] = Total(D, n, t)
      BY <2>6, <2>7, <2>8
    <2> QED
      BY <2>2, <2>7, <2>9
  <1>2. ASSUME NEW t \in 1..n PROVE F[t] = Total(D, n, t)
    <2>1. n + 1 - t \in Nat /\ n + 1 - t <= n /\ n + 1 - (n + 1 - t) = t
      OBVIOUS
    <2>2. n + 1 - t \notin Bad
      BY <1>1
    <2>3. F[n + 1 - (n + 1 - t)] = Total(D, n, n + 1 - (n + 1 - t))
      BY <2>1, <2>2
    <2> QED
      BY <2>1, <2>3
  <1>3. \A t \in 1..n : SumFunction(Terms(D, n, t)) = Total(D, n, t)
    BY DEF SumFunction, SumFunctionOnSet, FoldFunction, Total, Terms
  <1> QED
    BY <1>2, <1>3

-----------------------------------------------------------------------------
(* The fold of compute_gae: g has its result over each set of positions.   *)
Delta(rs, vs, t) == rs[t] + Gamma * (IF t < Len(vs) THEN vs[t + 1] ELSE 0) - vs[t]

Ahead(rs, vs, t, acc) == <<Delta(rs, vs, t) + Gamma * Lam * Head(acc)>> \o acc

Folded(g, rs, vs, C) ==
  g = [s \in C |-> IF s = {} THEN <<0>>
                   ELSE Ahead(rs, vs, [t \in 1..Len(rs) |-> t][Min(s)], g[s \ {Min(s)}])]

LEMMA MinIsMember ==
  ASSUME NEW s \in SUBSET Nat, s # {}
  PROVE  Min(s) \in s /\ \A x \in s : Min(s) <= x
  <1>1. \E x \in s : \A y \in s : x <= y
    BY LeastNatural
  <1> QED
    BY <1>1 DEF Min

LEMMA FoldExists ==
  ASSUME NEW rs, NEW vs, Len(rs) \in Nat
  PROVE  \E g : Folded(g, rs, vs, SUBSET (1..Len(rs)))
  <1> DEFINE S == 1..Len(rs)
             Small(k) == {s \in SUBSET S : Cardinality(s) <= k}
             Bad == {k \in Nat : ~ \E g : Folded(g, rs, vs, Small(k))}
  <1>0. IsFiniteSet(S) /\ S \subseteq Nat
    BY FS_Interval
  <1> HIDE DEF S
  <1>1. \A s \in SUBSET S : Cardinality(s) \in Nat /\ IsFiniteSet(s)
    BY <1>0, FS_Subset, FS_CardinalityType
  <1>2. Bad = {}
    <2> SUFFICES ASSUME Bad # {} PROVE FALSE
      OBVIOUS
    <2>1. PICK k \in Bad : \A m \in Bad : k <= m
      <3> HIDE DEF Bad
      <3>1. Bad \subseteq Nat
        BY DEF Bad
      <3> QED
        BY <3>1, LeastNatural
    <2>2. k # 0
      <3> SUFFICES ASSUME k = 0 PROVE FALSE
        OBVIOUS
      <3>1. Small(0) = {{}}
        BY <1>1, FS_EmptySet
      <3>2. Folded([s \in {{}} |-> <<0>>], rs, vs, Small(0))
        BY <3>1 DEF Folded
      <3> QED
        BY <3>2
    <2>3. k - 1 \in Nat /\ k - 1 \notin Bad
      <3>1. k \in Nat /\ k - 1 \in Nat /\ ~ (k <= k - 1)
        BY <2>2
      <3> HIDE DEF Bad
      <3> QED
        BY <2>1, <3>1
    <2>4. PICK g : Folded(g, rs, vs, Small(k - 1))
      BY <2>3
    <2> DEFINE Value(e, s) == IF s = {} THEN <<0>>
                              ELSE Ahead(rs, vs, [t \in 1..Len(rs) |-> t][Min(s)], e[s \ {Min(s)}])
               h == [s \in Small(k) |-> Value(g, s)]
    <2>5. \A s \in Small(k) : s # {} => s \ {Min(s)} \in Small(k - 1)
      <3> TAKE s \in Small(k)
      <3> HAVE s # {}
      <3>1. Min(s) \in s
        BY <1>0, MinIsMember
      <3>2. Cardinality(s \ {Min(s)}) = Cardinality(s) - 1
        BY <1>1, <3>1, FS_RemoveElement
      <3> QED
        BY <1>1, <3>2
    <2>6. \A s \in Small(k - 1) : h[s] = g[s]
      <3>1. \A s \in Small(k - 1) : s \in Small(k)
        BY <1>1
      <3>2. g = [s \in Small(k - 1) |-> Value(g, s)]
        BY <2>4 DEF Folded
      <3> HIDE DEF Value, Small
      <3> QED
        BY <3>1, <3>2
    <2>7. Folded(h, rs, vs, Small(k))
      <3>1. \A s \in Small(k) : Value(g, s) = Value(h, s)
        <4> TAKE s \in Small(k)
        <4>1. s # {} => h[s \ {Min(s)}] = g[s \ {Min(s)}]
          BY <2>5, <2>6
        <4> HIDE DEF h
        <4> QED
          BY <4>1
      <3>2. h = [s \in Small(k) |-> Value(h, s)]
        <4> HIDE DEF Value, Small
        <4> QED
          BY <3>1
      <3> HIDE DEF h
      <3> QED
        BY <3>2 DEF Folded
    <2> QED
      BY <2>7
  <1>3. Small(Cardinality(S)) = SUBSET S
    BY <1>0, FS_Subset
  <1>4. Cardinality(S) \in Nat
    BY <1>0, FS_CardinalityType
  <1> QED
    BY <1>2, <1>3, <1>4 DEF S

LEMMA GaeIsFold ==
  ASSUME NEW rs, NEW vs, Len(rs) \in Nat
  PROVE  \E g : /\ Folded(g, rs, vs, SUBSET (1..Len(rs)))
                /\ ComputeGae(rs, vs) = SubSeq(g[1..Len(rs)], 1, Len(rs))
  <1> DEFINE g == CHOOSE g : Folded(g, rs, vs, SUBSET (1..Len(rs)))
  <1>1. Folded(g, rs, vs, SUBSET (1..Len(rs)))
    BY FoldExists
  <1>2. ComputeGae(rs, vs) = SubSeq(g[1..Len(rs)], 1, Len(rs))
    BY DEF ComputeGae, FoldRight, MapThenFoldSet, Folded, Ahead, Delta
  <1> QED
    BY <1>1, <1>2

LEMMA DeltaType ==
  ASSUME NEW rs \in Seq(Int), NEW vs \in Seq(Int), Len(vs) = Len(rs), NEW t \in 1..Len(rs)
  PROVE  Delta(rs, vs, t) \in Int
  <1>1. rs[t] \in Int /\ vs[t] \in Int /\ (t < Len(vs) => vs[t + 1] \in Int)
    OBVIOUS
  <1> DEFINE x == IF t < Len(vs) THEN vs[t + 1] ELSE 0
  <1>2. x \in Int
    BY <1>1
  <1> HIDE DEF x
  <1>3. Gamma * x \in Int
    BY <1>2, NumbersAssumption
  <1>4. \A a, b, c \in Int : a + b - c \in Int
    OBVIOUS
  <1>5. Delta(rs, vs, t) = rs[t] + Gamma * x - vs[t]
    BY DEF Delta, x
  <1> QED
    BY <1>1, <1>3, <1>4, <1>5

(* One step back.                                                          *)
LEMMA AheadOf ==
  ASSUME NEW rs, NEW vs, NEW t, Delta(rs, vs, t) \in Int,
         NEW acc \in Seq(Int), Len(acc) # 0
  PROVE  /\ Ahead(rs, vs, t, acc) \in Seq(Int)
         /\ Len(Ahead(rs, vs, t, acc)) = Len(acc) + 1
         /\ Ahead(rs, vs, t, acc)[1] = Delta(rs, vs, t) + Gamma * Lam * acc[1]
         /\ \A k \in 1..Len(acc) : Ahead(rs, vs, t, acc)[k + 1] = acc[k]
  <1>1. Head(acc) = acc[1] /\ acc[1] \in Int /\ Len(acc) \in Nat
    OBVIOUS
  <1> PICK x : x = Delta(rs, vs, t) + Gamma * Lam * Head(acc)
    OBVIOUS
  <1>2. x \in Int
    <2>1. \A a, b \in Int : a * b \in Int /\ a + b \in Int
      OBVIOUS
    <2> QED
      BY <1>1, <2>1, NumbersAssumption
  <1> DEFINE one == <<x>>
  <1>3. one \in Seq(Int) /\ Len(one) = 1 /\ one[1] = x
    BY <1>2
  <1>4. Ahead(rs, vs, t, acc) = one \o acc
    BY DEF Ahead
  <1> HIDE DEF one
  <1>5. /\ one \o acc \in Seq(Int) /\ Len(one \o acc) = Len(one) + Len(acc)
        /\ \A k \in 1..Len(one) + Len(acc) :
             (one \o acc)[k] = IF k <= Len(one) THEN one[k] ELSE acc[k - Len(one)]
    BY <1>3, ConcatProperties
  <1>6. (one \o acc)[1] = x
    BY <1>1, <1>3, <1>5
  <1>7. ASSUME NEW k \in 1..Len(acc) PROVE (one \o acc)[k + 1] = acc[k]
    <2>1. k + 1 \in 1..1 + Len(acc) /\ ~ (k + 1 <= 1) /\ k + 1 - 1 = k
      BY <1>1
    <2> QED
      BY <1>3, <1>5, <2>1
  <1>8. Len(one \o acc) = Len(acc) + 1
    BY <1>1, <1>3, <1>5
  <1> QED
    BY <1>1, <1>4, <1>5, <1>6, <1>7, <1>8

(* h has the advantages of the responses from t on, with a zero behind.    *)
Suffix(rs, vs, t, h) ==
  /\ h \in Seq(Int) /\ Len(h) = Len(rs) + 2 - t /\ h[Len(h)] = 0
  /\ \A k \in 1..Len(h) - 1 : h[k] = Delta(rs, vs, t - 1 + k) + Gamma * Lam * h[k + 1]

LEMMA SuffixStep ==
  ASSUME NEW rs \in Seq(Int), NEW vs \in Seq(Int), Len(vs) = Len(rs), NEW t \in 1..Len(rs),
         NEW h, Suffix(rs, vs, t + 1, h)
  PROVE  Suffix(rs, vs, t, Ahead(rs, vs, t, h))
  <1> DEFINE n == Len(rs)
             e == Ahead(rs, vs, t, h)
  <1>1. n \in Nat /\ t \in Int /\ t >= 1 /\ t <= n
    OBVIOUS
  <1>2. h \in Seq(Int) /\ Len(h) = n + 2 - (t + 1) /\ h[Len(h)] = 0
    BY DEF Suffix
  <1>3. Len(h) \in Nat \ {0} /\ Len(h) + 1 = n + 2 - t
    <2> HIDE DEF n
    <2> QED
      BY <1>1, <1>2
  <1>4. /\ e \in Seq(Int) /\ Len(e) = Len(h) + 1
        /\ e[1] = Delta(rs, vs, t) + Gamma * Lam * h[1]
        /\ \A k \in 1..Len(h) : e[k + 1] = h[k]
    <2>1. Delta(rs, vs, t) \in Int
      BY DeltaType
    <2>2. h \in Seq(Int) /\ Len(h) # 0
      BY <1>2, <1>3
    <2> HIDE DEF n
    <2> QED
      BY <2>1, <2>2, AheadOf
  <1> HIDE DEF e, n
  <1>5. e[Len(e)] = 0
    <2>1. Len(h) \in 1..Len(h)
      BY <1>3
    <2>2. e[Len(h) + 1] = h[Len(h)]
      BY <1>4, <2>1
    <2> QED
      BY <1>2, <1>4, <2>2
  <1>6. ASSUME NEW k \in 1..Len(e) - 1
        PROVE  e[k] = Delta(rs, vs, t - 1 + k) + Gamma * Lam * e[k + 1]
    <2>1. k \in 1..Len(h)
      BY <1>3, <1>4
    <2>2. e[k + 1] = h[k]
      BY <1>4, <2>1
    <2>3. CASE k = 1
      BY <1>1, <1>4, <2>2, <2>3
    <2>4. CASE k # 1
      <3>1. k - 1 \in 1..Len(h) - 1 /\ k - 1 \in 1..Len(h) /\ (k - 1) + 1 = k
            /\ (t + 1) - 1 + (k - 1) = t - 1 + k
        BY <1>1, <1>3, <2>1, <2>4
      <3>2. e[k] = h[k - 1]
        BY <1>4, <3>1
      <3>3. h[k - 1] = Delta(rs, vs, (t + 1) - 1 + (k - 1)) + Gamma * Lam * h[(k - 1) + 1]
        BY <3>1 DEF Suffix
      <3> QED
        BY <2>2, <3>1, <3>2, <3>3
    <2> QED
      BY <2>3, <2>4
  <1> QED
    BY <1>3, <1>4, <1>5, <1>6 DEF Suffix, e, n

LEMMA FoldSuffix ==
  ASSUME NEW rs \in Seq(Int), NEW vs \in Seq(Int), Len(vs) = Len(rs),
         NEW g, Folded(g, rs, vs, SUBSET (1..Len(rs)))
  PROVE  Suffix(rs, vs, 1, g[1..Len(rs)])
  <1> DEFINE n == Len(rs)
             Bad == {m \in Nat : m <= n /\ ~ Suffix(rs, vs, n + 1 - m, g[(n + 1 - m)..n])}
  <1>0. n \in Nat
    OBVIOUS
  <1>1. Bad = {}
    <2> SUFFICES ASSUME Bad # {} PROVE FALSE
      OBVIOUS
    <2>1. PICK m \in Bad : \A l \in Bad : m <= l
      <3>1. Bad \subseteq Nat
        OBVIOUS
      <3> HIDE DEF Bad
      <3> QED
        BY <3>1, LeastNatural
    <2>2. m \in Nat /\ m <= n /\ ~ Suffix(rs, vs, n + 1 - m, g[(n + 1 - m)..n])
      OBVIOUS
    <2>3. m # 0
      <3>1. n + 1 - 0 = n + 1 /\ (n + 1)..n = {} /\ n + 2 - (n + 1) = 1
        BY <1>0
      <3>2. g[{}] = <<0>>
        BY DEF Folded
      <3>3. Suffix(rs, vs, n + 1, <<0>>)
        BY <3>1 DEF Suffix
      <3> QED
        BY <2>2, <3>1, <3>2, <3>3
    <2>4. m - 1 \in Nat /\ m - 1 <= n /\ ~ (m <= m - 1)
      BY <1>0, <2>2, <2>3
    <2>5. m - 1 \notin Bad
      <3> HIDE DEF Bad
      <3> QED
        BY <2>1, <2>4
    <2>6. Suffix(rs, vs, n + 1 - (m - 1), g[(n + 1 - (m - 1))..n])
      BY <2>4, <2>5
    <2>7. PICK t \in 1..n : t = n + 1 - m /\ t + 1 = n + 1 - (m - 1)
      <3>1. n + 1 - m \in 1..n /\ (n + 1 - m) + 1 = n + 1 - (m - 1)
        BY <1>0, <2>2, <2>3
      <3> QED
        BY <3>1
    <2>8. g[t..n] = Ahead(rs, vs, t, g[(t + 1)..n])
      <3>1. t \in t..n /\ t..n \in SUBSET (1..n) /\ (t..n) \ {t} = (t + 1)..n
            /\ t..n \in SUBSET Nat /\ \A x \in t..n : t <= x
        BY <1>0
      <3>2. Min(t..n) = t
        <4> PICK S : S = t..n
          OBVIOUS
        <4>1. t \in S /\ S \in SUBSET Nat /\ (\A x \in S : t <= x) /\ S # {}
          BY <3>1
        <4>2. Min(S) \in S /\ \A x \in S : Min(S) <= x
          BY <4>1, MinIsMember
        <4>3. Min(S) \in Nat /\ Min(S) <= t /\ t <= Min(S)
          BY <4>1, <4>2
        <4>4. Min(S) = t
          BY <4>1, <4>3
        <4> QED
          BY <4>4
      <3>3. [x \in 1..n |-> x][t] = t
        OBVIOUS
      <3> QED
        BY <3>1, <3>2, <3>3 DEF Folded
    <2>9. Suffix(rs, vs, t, g[t..n])
      <3>1. Suffix(rs, vs, t + 1, g[(t + 1)..n])
        BY <2>6, <2>7
      <3> QED
        BY <2>8, <3>1, SuffixStep
    <2> QED
      BY <2>2, <2>7, <2>9
  <1>2. n \in Nat /\ n <= n /\ n + 1 - n = 1
    BY <1>0
  <1>3. Suffix(rs, vs, n + 1 - n, g[(n + 1 - n)..n])
    BY <1>1, <1>2
  <1> QED
    BY <1>2, <1>3

Deltas(rs, vs) == [k \in 1..Len(rs) |-> Delta(rs, vs, k)]

(* compute_gae has the discounted sums of the differences.                 *)
LEMMA GaeIsSum ==
  ASSUME NEW rs \in Seq(Int), NEW vs \in Seq(Int), Len(vs) = Len(rs), Len(rs) <= BatchSize
  PROVE  /\ ComputeGae(rs, vs) \in Seq(Int) /\ Len(ComputeGae(rs, vs)) = Len(rs)
         /\ \A t \in 1..Len(rs) :
              ComputeGae(rs, vs)[t] = SumFunction(Terms(Deltas(rs, vs), Len(rs), t))
  <1> DEFINE n == Len(rs)
             D == Deltas(rs, vs)
  <1>0. n \in 0..BatchSize
    BY SizesAssumption
  <1>1. n \in Nat
    OBVIOUS
  <1>2. PICK g : /\ Folded(g, rs, vs, SUBSET (1..n))
                 /\ ComputeGae(rs, vs) = SubSeq(g[1..n], 1, n)
    BY <1>1, GaeIsFold
  <1> PICK F : F = g[1..n]
    OBVIOUS
  <1>3. Suffix(rs, vs, 1, F)
    BY <1>2, FoldSuffix
  <1>4. /\ F \in Seq(Int) /\ Len(F) = n + 1 /\ F[n + 1] = 0
        /\ \A k \in 1..n : F[k] = Delta(rs, vs, k) + Gamma * Lam * F[k + 1]
    <2>1. n + 2 - 1 = n + 1 /\ n + 1 - 1 = n /\ \A k \in 1..n : 1 - 1 + k = k
      BY <1>1
    <2> QED
      BY <1>3, <2>1 DEF Suffix
  <1>5. D \in [1..n -> Int] /\ \A k \in 1..n : D[k] = Delta(rs, vs, k)
    BY DeltaType DEF Deltas
  <1>6. \A t \in 1..n : F[t] = SumFunction(Terms(D, n, t))
    <2> HIDE DEF D, n
    <2>1. \A k \in 1..n : F[k] = D[k] + Gamma * Lam * F[k + 1]
      BY <1>4, <1>5
    <2> QED
      BY <1>0, <1>4, <1>5, <2>1, DiscountedSum
  <1>7. /\ SubSeq(F, 1, n) \in Seq(Int) /\ Len(SubSeq(F, 1, n)) = n
        /\ \A t \in 1..n : SubSeq(F, 1, n)[t] = F[t]
    <2> HIDE DEF n
    <2>1. \A k \in 1..n : k \in 1..n + 1 /\ F[k] \in Int
      BY <1>1, <1>4
    <2>2. SubSeq(F, 1, n) = [k \in 1..n |-> F[k]]
      BY <1>1, <1>4
    <2> QED
      BY <1>1, <2>1, <2>2
  <1> QED
    BY <1>2, <1>6, <1>7

-----------------------------------------------------------------------------
(* A request is over once.                                                 *)
OnceInv ==
  IsFiniteSet(finished) /\ Cardinality(Over) = Len(indexed) + Cardinality(finished)

LEMMA OverType ==
  ASSUME LoopsTyped, BatchInv, BatchTyped
  PROVE  /\ Over \subseteq 1..prog.prompts /\ IsFiniteSet(Over) /\ Cardinality(Over) \in Nat
         /\ Cardinality(Over) <= prog.prompts
  <1>1. DOMAIN indexed = 1..Len(indexed)
    BY LenProperties DEF BatchTyped
  <1>2. Over \subseteq 1..prog.prompts
    BY <1>1 DEF Over, BatchInv
  <1>3. IsFiniteSet(1..prog.prompts) /\ Cardinality(1..prog.prompts) = prog.prompts
    BY OpenType
  <1> QED
    BY <1>2, <1>3, FS_Subset, FS_CardinalityType

LEMMA OnceAdded ==
  ASSUME LoopsTyped, BatchInv, BatchTyped, OnceInv, NEW i \in Open, NEW x,
         finished' = finished \cup {<<i, x>>}, indexed' = indexed
  PROVE  OnceInv'
  <1>1. i \notin Over /\ <<i, x>> \notin finished
    BY DEF Open, Over
  <1>2. Over' = Over \cup {i}
    <2>1. <<i, x>>[1] = i
      OBVIOUS
    <2>2. {r[1] : r \in finished'} = {r[1] : r \in finished} \cup {i}
      BY <2>1
    <2> QED
      BY <2>2 DEF Over
  <1>3. IsFiniteSet(Over) /\ IsFiniteSet(finished)
    BY OverType DEF OnceInv
  <1>4. Cardinality(Over \cup {i}) = Cardinality(Over) + 1
    BY <1>1, <1>3, FS_AddElement
  <1>5. /\ IsFiniteSet(finished \cup {<<i, x>>})
        /\ Cardinality(finished \cup {<<i, x>>}) = Cardinality(finished) + 1
    BY <1>1, <1>3, FS_AddElement
  <1>6. Cardinality(finished) \in Nat /\ Len(indexed) \in Nat
    BY <1>3, FS_CardinalityType, LenProperties DEF BatchTyped
  <1>7. Cardinality(Over) = Len(indexed) + Cardinality(finished)
    BY DEF OnceInv
  <1> QED
    BY <1>2, <1>4, <1>5, <1>6, <1>7 DEF OnceInv

LEMMA OnceKept ==
  ASSUME LoopsTyped, CallsInv, BatchInv, BatchTyped, OnceInv, Next
  PROVE  OnceInv'
  <1>1. CASE Answered
    BY <1>1, OnceAdded DEF Answered, InFlight
  <1>2. CASE Misses
    BY <1>2, OnceAdded DEF Misses
  <1>3. CASE Collect
    <2> PICK r \in finished : finished' = finished \ {r} /\ indexed' = Append(indexed, r)
      BY <1>3 DEF Collect
    <2>1. /\ indexed \in Seq(Answer) /\ r \in Answer /\ DOMAIN indexed = 1..Len(indexed)
          /\ Len(indexed) \in Nat
      BY LenProperties DEF BatchTyped
    <2>2. /\ Len(indexed') = Len(indexed) + 1 /\ indexed' \in Seq(Answer)
          /\ \A k \in 1..Len(indexed) : indexed'[k] = indexed[k]
          /\ indexed'[Len(indexed) + 1] = r
      BY <2>1, AppendProperties
    <2>3. DOMAIN indexed' = 1..Len(indexed) + 1
      BY <2>2, LenProperties
    <2>4. \A k \in 1..Len(indexed) + 1 : k \in 1..Len(indexed) \/ k = Len(indexed) + 1
      BY <2>1
    <2>5. \A k \in 1..Len(indexed) : k \in 1..Len(indexed) + 1
      BY <2>1
    <2>6. Len(indexed) + 1 \in 1..Len(indexed) + 1
      BY <2>1
    <2>7. {indexed'[k][1] : k \in DOMAIN indexed'}
            = {indexed[k][1] : k \in DOMAIN indexed} \cup {r[1]}
      BY <2>1, <2>2, <2>3, <2>4, <2>5, <2>6
    <2>8. {q[1] : q \in finished} = {q[1] : q \in finished \ {r}} \cup {r[1]}
      OBVIOUS
    <2>9. Over' = Over
      BY <2>7, <2>8 DEF Over
    <2>10. IsFiniteSet(finished') /\ Cardinality(finished') = Cardinality(finished) - 1
           /\ Cardinality(finished) \in Nat
      BY FS_RemoveElement, FS_CardinalityType DEF OnceInv
    <2> QED
      BY <2>1, <2>2, <2>9, <2>10 DEF OnceInv
  <1>4. CASE BatchReturns \/ Ends \/ Rerun
    <2>1. finished' = {} /\ indexed' = <<>>
      BY <1>4 DEF BatchReturns, Ends, Exit, Rerun, Cleared
    <2>2. Over' = {}
      BY <2>1 DEF Over
    <2> QED
      BY <2>1, <2>2, FS_EmptySet DEF OnceInv
  <1>5. CASE Actor \/ Computes \/ Talks \/ Serves
    <2>1. UNCHANGED <<finished, indexed>>
      BY <1>5, Handled DEF Actor, Computes, Talks, batch
    <2> QED
      BY <2>1 DEF OnceInv, Over
  <1> QED
    BY <1>1, <1>2, <1>3, <1>4, <1>5, Kinds

-----------------------------------------------------------------------------
(* The scores and estimates of a step, up to its advantages.               *)
LearningInv ==
  /\ rewards \in Seq(Scores) /\ values \in Seq(Nat)
  /\ \A i, k \in 1..Loops :
       i < k /\ prog.loop[k] = "advantages" /\ Starts + i < at /\ at <= Starts + k =>
         /\ prog.loop[i] = "reward" => Len(rewards) = Len(responses)
         /\ prog.loop[i] = "values" => Len(values) = Len(responses)

GaeInv ==
  advantages # <<>> =>
    /\ Len(rewards) = Len(responses) /\ Len(values) = Len(responses)
    /\ advantages = ComputeGae(rewards, values)
    /\ \E k, a \in 1..Loops : /\ prog.loop[k] = "advantages" /\ prog.loop[a] = "actor"
                              /\ Starts + k < at /\ at <= Starts + a

(* A step that leaves the batch and the learner alone.                     *)
Passes ==
  /\ at # 0 /\ Phase \notin {"generate", "actor"} \cup Estimating
  /\ (Advance \/ at' = at) /\ UNCHANGED <<prog, batch, learning>>

LEMMA Ways ==
  ASSUME LoopsTyped, CallsInv, Next
  PROVE  \/ Waits \/ BatchReturns \/ Actor \/ Reward \/ Values \/ Advantages
         \/ Passes \/ Ends \/ Rerun \/ Serves
  <1>1. CASE Failed
    <2>1. CASE prog.workers > 0
      <3>1. Misses
        BY <1>1, <2>1 DEF Failed, InFlight, Misses, Stays, run
      <3> QED
        BY <3>1 DEF Waits
    <2>2. CASE ~ (prog.workers > 0)
      BY <1>1, <2>2 DEF Failed, Ends
    <2> QED
      BY <2>1, <2>2
  <1>2. CASE RefLogProbs \/ Critic
    BY <1>2 DEF RefLogProbs, Critic, Proceed, In, Passes, Phase, Estimating, run
  <1>3. CASE \/ GetStatus \/ GetVersion \/ InitTransfer \/ SleepEngines \/ UpdateWeights
             \/ WakeWeights \/ WakeCache \/ WakeAll
    BY <1>3 DEF GetStatus, GetVersion, InitTransfer, SleepEngines, UpdateWeights,
                WakeWeights, WakeCache, WakeAll, Post, In, Passes, Phase, Estimating
  <1>4. CASE Returns
    <2>1. at # 0 /\ Phase \in Posting
      BY <1>4 DEF Returns, CallsInv, NoReply
    <2>2. Phase \notin {"generate", "actor"} \cup Estimating
      BY <2>1 DEF Posting, Locking, Estimating
    <2> QED
      BY <1>4, <2>1, <2>2 DEF Returns, Passes
  <1>5. CASE Health \/ WaitForReady \/ Join
    BY <1>5 DEF Health, WaitForReady, Join, Proceed, In, Passes, Ends, Phase, Estimating,
                run
  <1>6. CASE NoEngineReady \/ Raises \/ TimesOut \/ Killed
    BY <1>6 DEF NoEngineReady, Raises, TimesOut, Killed, Ends
  <1>7. CASE Answered \/ Collect
    BY <1>7 DEF Waits
  <1> QED
    BY <1>1, <1>2, <1>3, <1>4, <1>5, <1>6, <1>7 DEF Next, Generating, Learning, Calling, Serves

LEMMA Beyond ==
  ASSUME NEW b \in Nat \ {0}, NEW l \in Nat, NEW i \in 1..l
  PROVE  ~ (b + i < 1)
  OBVIOUS

LEMMA AheadInLoop ==
  ASSUME LoopsTyped, at # 0, Advance, at' # 0, NEW i \in 1..Loops, Starts + i < at'
  PROVE  at' = at + 1 /\ (at = Starts + i \/ Starts + i < at)
  <1>1. at \in Nat /\ Starts \in Nat /\ Loops \in Nat
    BY Sized DEF LoopsTyped
  <1>2. at' = at + 1 \/ at' = Starts + 1
    BY Advances
  <1> QED
    BY <1>1, <1>2

(* Where advantages are computed.                                          *)
LEMMA Placing ==
  ASSUME LoopsTyped, NEW k \in 1..Loops, prog.loop[k] = "advantages"
  PROVE  /\ \E i \in 1..Loops : i < k /\ prog.loop[i] = "reward"
         /\ \E i \in 1..Loops : i < k /\ prog.loop[i] = "values"
         /\ \E a \in 1..Loops : k < a /\ prog.loop[a] = "actor"
         /\ \A a \in 1..Loops : prog.loop[a] = "actor" => k < a
         /\ \A i \in 1..Loops : prog.loop[i] \in Estimating => i <= k
         /\ k # 1
  <1>1. prog \in Programs /\ DOMAIN prog.loop = 1..Loops
    BY Programmed DEF LoopsTyped, Loops
  <1>2. EstimatesFirst(prog.loop)
    BY <1>1, Shaped
  <1>3. PICK a \in 1..Loops : k < a /\ prog.loop[a] = "actor"
    BY <1>1, <1>2 DEF EstimatesFirst
  <1>4. \A b \in 1..Loops : prog.loop[b] = "actor" => b = a
    BY <1>3, Once DEF Trained
  <1>5. PICK i \in 1..Loops : i < k /\ prog.loop[i] = "reward"
    BY <1>1, <1>2 DEF EstimatesFirst
  <1>6. \E m \in 1..Loops : m < k /\ prog.loop[m] = "values"
    BY <1>1, <1>2 DEF EstimatesFirst
  <1>7. \A m \in 1..Loops : prog.loop[m] \in Estimating => m <= k
    BY <1>1, <1>2 DEF EstimatesFirst
  <1>8. k # 1
    BY <1>5, Sized
  <1> QED
    BY <1>3, <1>4, <1>5, <1>6, <1>7, <1>8

LEMMA LearningKept ==
  ASSUME LoopsTyped, CallsInv, BatchTyped, LearningInv, Next
  PROVE  LearningInv'
  <1>0. /\ at \in Nat /\ Starts \in Nat \ {0} /\ Loops \in Nat \ {0}
        /\ DOMAIN responses = 1..Len(responses) /\ Len(responses) \in Nat
    BY Sized, LenProperties DEF LoopsTyped, BatchTyped
  <1>1. CASE Waits \/ Serves
    <2>1. UNCHANGED <<prog, at, responses, learning>>
      BY <1>1, Waiting, Handled DEF run, batch
    <2> QED
      BY <2>1 DEF LearningInv, learning, Starts, Loops
  (* The program goes on from one phase to another. *)
  <1>2. ASSUME NEW i \in 1..Loops, NEW k \in 1..Loops, i < k, prog.loop[k] = "advantages",
               at # 0, Advance, Starts + i < at', at' <= Starts + k
        PROVE  \/ at = Starts + i /\ Phase = prog.loop[i]
               \/ /\ Starts + i < at /\ at <= Starts + k
                  /\ prog.loop[i] = "reward" => Len(rewards) = Len(responses)
                  /\ prog.loop[i] = "values" => Len(values) = Len(responses)
    <2>1. at' = at + 1 /\ (at = Starts + i \/ Starts + i < at)
      <3>1. at' # 0 /\ Starts + i < at'
        BY <1>0, <1>2
      <3> QED
        BY <1>2, <3>1, AheadInLoop
    <2>2. at = Starts + i => Phase = prog.loop[i]
      BY Sized DEF Phase
    <2>3. at <= Starts + k
      BY <1>0, <1>2, <2>1
    <2> QED
      BY <1>2, <2>1, <2>2, <2>3 DEF LearningInv
  <1>3. CASE BatchReturns
    <2>1. /\ at # 0 /\ Advance /\ Phase = "generate" /\ UNCHANGED <<prog, rewards, values>>
      BY <1>3 DEF BatchReturns, In, Phase, run, learning
    <2>2. at = Starts + 1 /\ prog.loop[1] = "generate"
      BY <2>1, Generates
    <2>3. ASSUME NEW i \in 1..Loops, NEW k \in 1..Loops, i < k, Starts + i < at',
                 at' <= Starts + k
          PROVE  prog.loop[i] \notin {"reward", "values"}
      <3>1. at' = at + 1
        BY <1>0, <2>1, <2>3, AheadInLoop
      <3>2. i = 1
        BY <1>0, <2>2, <2>3, <3>1
      <3> QED
        BY <2>2, <3>2
    <2> QED
      BY <2>1, <2>3 DEF LearningInv, Starts, Loops
  <1>4. CASE Reward
    <2>1. /\ at # 0 /\ Advance /\ Phase = "reward" /\ UNCHANGED <<prog, responses, values>>
          /\ rewards' \in [1..Len(responses) -> Scores]
      BY <1>0, <1>4 DEF Reward, In, Phase, run, batch
    <2>2. rewards' \in Seq(Scores) /\ Len(rewards') = Len(responses)
      BY <1>0, <2>1
    <2> QED
      BY <1>2, <2>1, <2>2 DEF LearningInv, Starts, Loops
  <1>5. CASE Values
    <2>1. /\ at # 0 /\ Advance /\ Phase = "values" /\ UNCHANGED <<prog, responses, rewards>>
          /\ values' = [k \in 1..Len(responses) |-> 4 + k]
      BY <1>0, <1>5 DEF Values, In, Phase, run, batch
    <2>2. values' \in Seq(Nat) /\ Len(values') = Len(responses)
      BY <1>0, <2>1
    <2> QED
      BY <1>2, <2>1, <2>2 DEF LearningInv, Starts, Loops
  <1>6. CASE Advantages
    <2>1. /\ at # 0 /\ Advance /\ Phase = "advantages"
          /\ UNCHANGED <<prog, responses, rewards, values>>
      BY <1>6 DEF Advantages, In, Phase, run, batch
    <2> QED
      BY <1>2, <2>1 DEF LearningInv, Starts, Loops
  <1>7. CASE Passes
    <2>1. /\ at # 0 /\ Phase \notin {"reward", "values"} /\ (Advance \/ at' = at)
          /\ UNCHANGED <<prog, responses, rewards, values>>
      BY <1>7 DEF Passes, batch, learning, Estimating
    <2>2. CASE at' = at
      BY <2>1, <2>2 DEF LearningInv, Starts, Loops
    <2>3. CASE Advance
      BY <1>2, <2>1, <2>3 DEF LearningInv, Starts, Loops
    <2> QED
      BY <2>1, <2>2, <2>3
  <1>8. CASE Actor
    <2>1. /\ at # 0 /\ Advance /\ Phase = "actor" /\ prog' = prog
          /\ rewards' = <<>> /\ values' = <<>>
      BY <1>8 DEF Actor, In, Phase
    <2>2. ASSUME NEW i \in 1..Loops, NEW k \in 1..Loops, i < k, prog.loop[k] = "advantages",
                 Starts + i < at', at' <= Starts + k
          PROVE  FALSE
      <3>1. at' = at + 1
        BY <1>0, <2>1, <2>2, AheadInLoop
      <3> PICK a \in 1..Loops : at = Starts + a /\ prog.loop[a] = "actor"
        BY <2>1, InLoop DEF Inner
      <3>2. k < a
        BY <2>2, Placing
      <3> QED
        BY <1>0, <2>2, <3>1, <3>2
    <2> QED
      BY <2>1, <2>2, EmptySeq DEF LearningInv, Starts, Loops
  <1>9. CASE Ends
    <2>1. at' = 0 /\ rewards' = <<>> /\ values' = <<>> /\ prog' = prog
      BY <1>9 DEF Ends, Exit, Cleared
    <2>2. \A i \in 1..Loops : ~ (Starts + i < 0)
      BY <1>0
    <2> QED
      BY <2>1, <2>2, EmptySeq DEF LearningInv, Starts, Loops
  <1>10. CASE Rerun
    <2>1. at' = 1 /\ rewards' = <<>> /\ values' = <<>> /\ prog' \in Programs
      BY <1>10 DEF Rerun, Cleared
    <2>2. Starts' \in Nat \ {0} /\ Loops' \in Nat
      BY <2>1, Programmed DEF Starts, Loops
    <2>3. \A i \in 1..Loops' : ~ (Starts' + i < 1)
      BY <2>2, Beyond
    <2> QED
      BY <2>1, <2>3, EmptySeq DEF LearningInv
  <1> QED
    BY <1>1, <1>3, <1>4, <1>5, <1>6, <1>7, <1>8, <1>9, <1>10, Ways

(* The advantages, from when they are computed until the policy is trained *)
(* with them.                                                              *)
LEMMA GaeKept ==
  ASSUME LoopsTyped, CallsInv, BatchTyped, LearningInv, GaeInv, Next
  PROVE  GaeInv'
  <1>0. /\ at \in Nat /\ Starts \in Nat \ {0} /\ Loops \in Nat \ {0}
    BY Sized DEF LoopsTyped
  <1>1. CASE Waits \/ Serves
    <2>1. UNCHANGED <<prog, at, responses, learning>>
      BY <1>1, Waiting, Handled DEF run, batch
    <2> QED
      BY <2>1 DEF GaeInv, learning, Starts, Loops
  (* No computation before the advantages is reached while they are there. *)
  <1>2. ASSUME at # 0, NEW i \in 1..Loops, at = Starts + i,
               i = 1 \/ prog.loop[i] \in Estimating
        PROVE  advantages = <<>>
    <2> SUFFICES ASSUME advantages # <<>> PROVE FALSE
      OBVIOUS
    <2> PICK k \in 1..Loops : prog.loop[k] = "advantages" /\ Starts + k < at
      BY DEF GaeInv
    <2>1. i <= k
      BY <1>0, <1>2, Placing
    <2> QED
      BY <1>0, <1>2, <2>1
  <1>3. CASE BatchReturns
    <2>1. advantages = <<>>
      <3>1. at # 0 /\ Phase = "generate"
        BY <1>3 DEF BatchReturns, In, Phase
      <3>2. at = Starts + 1 /\ 1 \in 1..Loops
        BY <1>0, <3>1, Generates
      <3> QED
        BY <1>2, <3>1, <3>2
    <2> QED
      BY <1>3, <2>1 DEF BatchReturns, GaeInv, learning
  <1>4. CASE Reward \/ Values
    <2>1. advantages = <<>>
      <3>1. at # 0 /\ Phase \in Estimating
        BY <1>4 DEF Reward, Values, In, Phase, Estimating
      <3>2. PICK i \in 1..Loops : at = Starts + i /\ prog.loop[i] = Phase
        BY <3>1, InLoop DEF Inner
      <3> QED
        BY <1>2, <3>1, <3>2
    <2> QED
      BY <1>4, <2>1 DEF Reward, Values, GaeInv
  <1>5. CASE Advantages
    <2>1. /\ at # 0 /\ Advance /\ Phase = "advantages"
          /\ UNCHANGED <<prog, responses, rewards, values>>
          /\ advantages' = ComputeGae(rewards, values)
      BY <1>5 DEF Advantages, In, Phase, run, batch
    <2> PICK k \in 1..Loops : at = Starts + k /\ prog.loop[k] = "advantages"
      BY <2>1, InLoop DEF Inner, Estimating
    <2>2. Len(rewards) = Len(responses) /\ Len(values) = Len(responses)
      <3>1. PICK i \in 1..Loops : i < k /\ prog.loop[i] = "reward"
        BY Placing
      <3>2. PICK m \in 1..Loops : m < k /\ prog.loop[m] = "values"
        BY Placing
      <3>3. Starts + i < at /\ Starts + m < at /\ at <= Starts + k
        BY <1>0, <3>1, <3>2
      <3> QED
        BY <3>1, <3>2, <3>3 DEF LearningInv
    <2>3. PICK a \in 1..Loops : k < a /\ prog.loop[a] = "actor"
      BY Placing
    <2>4. at' = at + 1
      BY <1>0, <2>1, <2>3, Follows
    <2>5. Starts + k < at' /\ at' <= Starts + a
      BY <1>0, <2>3, <2>4
    <2> QED
      BY <2>1, <2>2, <2>3, <2>5 DEF GaeInv, Starts, Loops
  <1>6. CASE Passes
    <2>1. /\ at # 0 /\ Phase # "actor" /\ (Advance \/ at' = at)
          /\ UNCHANGED <<prog, responses, rewards, values, advantages>>
      BY <1>6 DEF Passes, batch, learning
    <2>2. ASSUME NEW k \in 1..Loops, NEW a \in 1..Loops, prog.loop[a] = "actor",
                 Starts + k < at, at <= Starts + a
          PROVE  Starts + k < at' /\ at' <= Starts + a
      <3>1. at # Starts + a
        BY <2>1, <2>2, Sized DEF Phase
      <3>2. at < Starts + Loops /\ at < Starts + a
        BY <1>0, <2>2, <3>1
      <3>3. at' = at + 1 \/ at' = at
        BY <2>1, <3>2, Follows
      <3> QED
        BY <1>0, <2>2, <3>2, <3>3
    <2> QED
      BY <2>1, <2>2 DEF GaeInv, Starts, Loops
  <1>7. CASE Actor \/ Ends \/ Rerun
    BY <1>7 DEF Actor, Ends, Exit, Rerun, Cleared, GaeInv
  <1> QED
    BY <1>1, <1>3, <1>4, <1>5, <1>6, <1>7, Ways

(* What was computed is what generalized advantage estimation says.        *)
LEMMA GaeIsRight ==
  ASSUME LoopsTyped, ResponsesInv, LearningInv, GaeInv
  PROVE  advantages \in Seq(Int) /\ AdvantagesAreGae
  <1> CASE advantages = <<>>
    BY EmptySeq DEF AdvantagesAreGae
  <1> CASE advantages # <<>>
    <2> DEFINE n == Len(rewards)
    <2>1. /\ n = Len(responses) /\ Len(values) = n
          /\ advantages = ComputeGae(rewards, values)
      BY DEF GaeInv
    <2>2. rewards \in Seq(Int) /\ values \in Seq(Int) /\ n \in Nat
      <3>1. Scores \subseteq Int /\ Nat \subseteq Int
        BY NumbersAssumption
      <3> QED
        BY <3>1, SeqMonotonic, LenProperties DEF LearningInv
    <2>0. n <= BatchSize
      <3>1. prog \in Programs
        BY DEF LoopsTyped
      <3>2. prog.prompts <= BatchSize /\ BatchSize \in Nat
        BY <3>1, Shaped, SizesAssumption
      <3>3. responses = <<>> => Len(responses) = 0
        OBVIOUS
      <3>4. responses # <<>> => Len(responses) = prog.prompts
        BY DEF ResponsesInv
      <3> QED
        BY <2>1, <3>2, <3>3, <3>4
    <2>3. /\ advantages \in Seq(Int) /\ Len(advantages) = n
          /\ \A t \in 1..n : advantages[t] = SumFunction(Terms(Deltas(rewards, values), n, t))
      BY <2>0, <2>1, <2>2, GaeIsSum
    <2>4. DOMAIN advantages = 1..n
      BY <2>3, LenProperties
    <2>5. \A k \in 1..n : Deltas(rewards, values)[k] = Difference(k)
      <3> TAKE k \in 1..n
      <3>1. k < n <=> k # n
        BY <2>2
      <3>2. Gamma * 0 = 0
        BY NumbersAssumption
      <3> QED
        BY <2>1, <3>1, <3>2 DEF Deltas, Delta, Difference
    <2>6. ASSUME NEW t \in 1..n
          PROVE  advantages[t] = SumFunction([k \in t..n |-> Discount[k - t] * Difference(k)])
      <3>1. \A k \in t..n : k \in 1..n
        BY <2>2
      <3>2. Terms(Deltas(rewards, values), n, t) = [k \in t..n |-> Discount[k - t] * Difference(k)]
        BY <2>5, <3>1 DEF Terms
      <3> QED
        BY <2>3, <3>2
    <2> QED
      BY <2>1, <2>3, <2>4, <2>6 DEF AdvantagesAreGae
  <1> QED
    OBVIOUS

-----------------------------------------------------------------------------
LearnerInv ==
  /\ RolloutsInv /\ StepsInv /\ CappedInv /\ ServiceTyped
  /\ BatchTyped /\ OnceInv /\ LearningInv /\ GaeInv

LEMMA InitLearner == Init => LearnerInv
  <1> SUFFICES ASSUME Init PROVE LearnerInv
    OBVIOUS
  <1>1. RolloutsInv
    BY InitRollouts
  <1>2. /\ prog \in Programs /\ life = 1 /\ at = 1 /\ step = 0 /\ version = 0 /\ poolVersion = 0
        /\ reply = NoReply /\ reply.version = 0 /\ inbox = {} /\ running = {}
        /\ finished = {} /\ indexed = <<>> /\ responses = <<>>
        /\ rewards = <<>> /\ values = <<>> /\ advantages = <<>>
        /\ grouped = FALSE /\ faults = 0
        /\ holds = [e \in Engines |-> Checkpoint] /\ mapped = [e \in Engines |-> Memory]
    BY DEF Init, NoReply
  <1>3. MaxSteps \in Nat \ {0} /\ MaxLives \in Nat \ {0} /\ MaxFaults \in Nat
    BY SizesAssumption
  <1>4. Starts \in Nat \ {0} /\ Loops \in Nat \ {0}
    BY <1>2, Programmed DEF Starts, Loops
  <1>5. \A i \in 1..Loops : ~ (Starts + i < 1)
    BY <1>4, Beyond
  <1>6. StepsInv
    BY <1>2, <1>3 DEF StepsInv
  <1>7. CappedInv
    <2>1. Cap(0) = 0 /\ Cap(1) \in Nat
      BY Caps
    <2>2. 1 - 1 = 0 /\ 1 \in 1..MaxLives
      BY <1>3
    <2> QED
      BY <1>2, <1>5, <2>1, <2>2 DEF CappedInv, Trained
  <1>8. ServiceTyped
    <2>1. 0 \in Versions
      <3>1. Versions = 0..Cap(MaxLives) /\ Cap(MaxLives) \in Nat
        BY <1>3, Caps DEF Versions, Cap
      <3> QED
        BY <3>1
    <2>2. Checkpoint \in Model
      BY <1>3 DEF Checkpoint, Model
    <2>3. holds \in [Engines -> Model \cup {Lost}] /\ mapped \in [Engines -> SUBSET Memory]
      BY <1>2, <2>2
    <2>4. reply \in [got : {"none", "ok", "error"}, version : Versions]
      BY <1>2, <2>1 DEF NoReply
    <2>5. inbox \cup running \subseteq Calls(life)
      BY <1>2
    <2>6. grouped \in BOOLEAN
      BY <1>2
    <2>7. faults \in 0..MaxFaults
      BY <1>2, <1>3
    <2> QED
      BY <2>3, <2>4, <2>5, <2>6, <2>7 DEF ServiceTyped
  <1>9. BatchTyped
    BY <1>2, EmptySeq DEF BatchTyped
  <1>10. OnceInv
    <2>1. Over = {}
      BY <1>2 DEF Over
    <2> QED
      BY <1>2, <2>1, FS_EmptySet DEF OnceInv
  <1>11. LearningInv /\ GaeInv
    BY <1>2, <1>5, EmptySeq DEF LearningInv, GaeInv
  <1> QED
    BY <1>1, <1>6, <1>7, <1>8, <1>9, <1>10, <1>11 DEF LearnerInv

LEMMA NextLearner == LearnerInv /\ [Next]_vars => LearnerInv'
  <1> SUFFICES ASSUME LearnerInv, [Next]_vars PROVE LearnerInv'
    OBVIOUS
  <1>1. RolloutsInv'
    BY NextRollouts DEF LearnerInv
  <1>2. LoopsTyped /\ CallsInv /\ StepInv /\ BatchInv
    BY DEF LearnerInv, RolloutsInv, ServedInv
  <1>3. CASE Next
    <2>1. StepsInv' /\ CappedInv'
      BY <1>2, <1>3, StepsKept, CappedKept DEF LearnerInv
    <2>2. Numbered
      BY <1>2, Counted DEF LearnerInv
    <2>3. LoopsTyped' /\ CallsInv'
      BY <1>1 DEF RolloutsInv, ServedInv
    <2>4. Numbered'
      BY <2>1, <2>3, Counted, PTL
    <2>5. ServiceTyped'
      BY <1>2, <1>3, <2>2, <2>4, ServiceTypeKept DEF LearnerInv
    <2>6. BatchTyped'
      BY <1>2, <1>3, BatchTypeKept DEF LearnerInv
    <2>7. OnceInv'
      BY <1>2, <1>3, OnceKept DEF LearnerInv
    <2>8. LearningInv' /\ GaeInv'
      BY <1>2, <1>3, LearningKept, GaeKept DEF LearnerInv
    <2> QED
      BY <1>1, <2>1, <2>5, <2>6, <2>7, <2>8 DEF LearnerInv
  <1>4. CASE UNCHANGED vars
    <2>1. /\ UNCHANGED <<prog, life, step, version, at, finished, indexed, responses>>
          /\ UNCHANGED <<rewards, values, advantages, inbox, running, reply, poolVersion>>
          /\ UNCHANGED <<grouped, faults, holds, mapped>>
      BY <1>4 DEF vars, run, batch, learning, controller, engines
    <2>2. Starts' = Starts /\ Loops' = Loops
      BY <2>1 DEF Starts, Loops
    <2>3. StepsInv' /\ CappedInv'
      BY <2>1, <2>2 DEF LearnerInv, StepsInv, CappedInv, Trained, Updated, Unposted, Awaiting
    <2>4. ServiceTyped' /\ BatchTyped' /\ OnceInv'
      BY <2>1 DEF LearnerInv, ServiceTyped, BatchTyped, OnceInv, Over
    <2>5. LearningInv' /\ GaeInv'
      BY <2>1, <2>2 DEF LearnerInv, LearningInv, GaeInv
    <2> QED
      BY <1>1, <2>3, <2>4, <2>5 DEF LearnerInv
  <1> QED
    BY <1>3, <1>4

LEMMA AtMostOne ==
  ASSUME NEW S, \A c, d \in S : c = d
  PROVE  Cardinality(S) <= 1
  <1>1. CASE S = {}
    BY <1>1, FS_EmptySet
  <1>2. CASE S # {}
    <2> PICK c \in S : TRUE
      BY <1>2
    <2>1. S = {c}
      OBVIOUS
    <2>2. Cardinality({c}) = 1
      BY FS_Singleton
    <2> QED
      BY <2>1, <2>2
  <1> QED
    BY <1>1, <1>2

LEMMA LearnerTypes == LearnerInv => TypeOK
  <1> SUFFICES ASSUME LearnerInv PROVE TypeOK
    OBVIOUS
  <1>1. /\ LoopsTyped /\ CallsInv /\ BatchInv /\ ResponsesInv /\ StepsInv /\ CappedInv /\ ServiceTyped
        /\ BatchTyped /\ OnceInv /\ LearningInv /\ GaeInv
    BY DEF LearnerInv, RolloutsInv, ServedInv
  <1>2. Numbered
    BY <1>1, Counted
  <1>3. prog \in Programs /\ life \in 1..MaxLives /\ at \in 0..Len(Code(prog))
    BY <1>1 DEF LoopsTyped, CappedInv
  <1>4. step \in 0..MaxSteps /\ {version, poolVersion} \subseteq 0..MaxLives * MaxSteps
    BY <1>1, <1>2 DEF StepsInv, Numbered, Versions
  <1>5. Len(indexed) + Cardinality(finished) <= prog.prompts
    BY <1>1, OverType DEF OnceInv
  <1>6. Cardinality(running) <= 1
    BY <1>1, AtMostOne DEF CallsInv
  <1>7. Cardinality({c \in inbox \cup running : c.life = life}) <= 1
    <2> DEFINE S == {c \in inbox \cup running : c.life = life}
    <2>1. \A c, d \in S : c = d
      BY <1>1 DEF CallsInv
    <2> HIDE DEF S
    <2>2. Cardinality(S) <= 1
      BY <2>1, AtMostOne
    <2> QED
      BY <2>2 DEF S
  <1>8. advantages \in Seq(Int)
    BY <1>1, GaeIsRight
  <1>9. /\ rewards \in Seq(Scores) /\ values \in Seq(Nat)
        /\ finished \subseteq (1..BatchSize) \X Responses
        /\ indexed \in Seq((1..BatchSize) \X Responses) /\ responses \in Seq(Responses)
    BY <1>1 DEF LearningInv, BatchTyped, Answer
  <1>10. /\ inbox \cup running \subseteq [life : 1..life, op : STRING, level : 1..2, model : Model,
                                          version : 0..MaxLives * MaxSteps]
         /\ reply \in [got : {"none", "ok", "error"}, version : 0..MaxLives * MaxSteps]
         /\ grouped \in BOOLEAN /\ faults \in 0..MaxFaults
         /\ holds \in [Engines -> Model \cup {Lost}] /\ mapped \in [Engines -> SUBSET Memory]
    BY <1>1 DEF ServiceTyped, Calls, Versions
  <1> QED
    BY <1>3, <1>4, <1>5, <1>6, <1>7, <1>8, <1>9, <1>10 DEF TypeOK

(* Every variable of a program and of the controller keeps its type: at    *)
(* most as many requests are over as there are prompts, a run has one call *)
(* outstanding, the controller serves one at a time, and the versions of   *)
(* all runs together stay within one per step.                             *)
THEOREM LoopsKeepTypes == Spec => []TypeOK
  BY InitLearner, NextLearner, LearnerTypes, PTL DEF Spec

(* compute_gae returns, for any scores, discount and smoothing, the        *)
(* discounted sum of the temporal differences, one for each response of    *)
(* the batch that is trained with.                                         *)
THEOREM AdvantagesAreEstimates == Spec => []AdvantagesAreGae
  <1>1. LearnerInv => AdvantagesAreGae
    BY GaeIsRight DEF LearnerInv, RolloutsInv, ServedInv
  <1> QED
    BY InitLearner, NextLearner, <1>1, PTL DEF Spec
=============================================================================
