----------------------------- MODULE RobotProofs -----------------------------
(***************************************************************************)
(* Proofs about the episodes of RobotEpisode, for every plan of runs, every *)
(* set of configurations and every library call that may raise: there is    *)
(* never a second environment, a run that has its result left nothing in    *)
(* the service, the events of a run are those of its policy's calls, the    *)
(* backend remembers one episode, a verdict is about the final state, and a *)
(* completed run accounts for each step that was made.                      *)
(***************************************************************************)
EXTENDS RobotEpisode, SequenceTheorems, TLAPS

(* The backend is a record with an environment, also when there is none.    *)
HasEnv == "env" \in DOMAIN backend

IInv == HasEnv /\ live \subseteq {backend.env}

(* What a reset leaves, raising or not, on a backend b beside whose         *)
(* environment no other is alive.                                           *)
LEMMA EnvResetKeeps ==
  ASSUME NEW r, NEW b, NEW cfg, NEW L, "env" \in DOMAIN b, L \subseteq {b.env},
         EnvReset(r, b, cfg, L)
  PROVE  IInv'
<1>1. CASE backend' \in {b, [b EXCEPT !.ep = r.id]} /\ live' \in {L, L \ {b.env}}
  BY <1>1 DEF IInv, HasEnv
<1>2. CASE backend' = Begun(b, r.id) /\ live' = L \cup {b.env}
  BY <1>2 DEF IInv, HasEnv, Begun
<1> QED
  BY <1>1, <1>2 DEF EnvReset

(* A reset on the backend that is there, or on a new one.                   *)
LEMMA ResetKeeps ==
  ASSUME IInv, NEW r, ServeReset(r)
  PROVE  IInv'
<1>1. CASE EnvReset(r, backend, config, live)
  BY <1>1, EnvResetKeeps DEF IInv, HasEnv
<1>2. CASE CloseRaises(r)
  BY <1>2 DEF CloseRaises, Closed, IInv, HasEnv
<1>3. CASE backend' = NoBackend /\ live' = Closed
  BY <1>3 DEF Closed, NoBackend, IInv, HasEnv
<1>4. CASE EnvReset(r, NewBackend(r.id), r.config, Closed \cup {r.id})
  <2>1. Closed = {}
    BY DEF Closed, IInv
  <2>2. NewBackend(r.id).env = r.id /\ "env" \in DOMAIN NewBackend(r.id)
    BY DEF NewBackend
  <2> QED
    BY <1>4, <2>1, <2>2, EnvResetKeeps
<1> QED
  BY <1>1, <1>2, <1>3, <1>4 DEF ServeReset

(* A step, raising or not, moves the robot of the same environment.         *)
LEMMA SteppedKeeps ==
  ASSUME HasEnv, NEW id, NEW k
  PROVE  "env" \in DOMAIN Stepped(id, k) /\ Stepped(id, k).env = backend.env
BY DEF HasEnv, Stepped

(* A step that raises leaves the environment with its owner.                *)
LEMMA StepRaisesKeeps ==
  ASSUME IInv, NEW r, NEW k, StepRaises(r, k), UNCHANGED live
  PROVE  IInv'
<1>1. PICK v : backend' \in {Stepped(r.id, k), [Stepped(r.id, k) EXCEPT !.raw = v]}
  BY DEF StepRaises
<1>2. "env" \in DOMAIN Stepped(r.id, k) /\ Stepped(r.id, k).env = backend.env
  BY SteppedKeeps DEF IInv
<1> QED
  BY <1>1, <1>2 DEF IInv, HasEnv

(* So does every step, of a client or of the reference policy.              *)
LEMMA StepKeeps ==
  ASSUME IInv, NEW r, ServeStep(r) \/ ServeReference(r)
  PROVE  IInv'
<1>1. CASE UNCHANGED <<backend, live>>
  BY <1>1 DEF IInv, HasEnv
<1>2. CASE \E k : StepRaises(r, k) /\ UNCHANGED live
  BY <1>2, StepRaisesKeeps
<1>3. CASE \E k : backend' = Stepped(r.id, k) /\ UNCHANGED live
  BY <1>3, SteppedKeeps DEF IInv, HasEnv
<1> QED
  BY <1>1, <1>2, <1>3 DEF ServeStep, ServeReference, Refused, simVars

(* No handler leaves an environment behind.                                 *)
LEMMA HandleKeeps ==
  ASSUME IInv, NEW r, Handle(r)
  PROVE  IInv'
<1>1. CASE ServeReset(r)
  BY <1>1, ResetKeeps
<1>2. CASE ServeStep(r) \/ ServeReference(r)
  BY <1>2, StepKeeps
<1>3. CASE ServeObserve(r) \/ ServeSuccess(r)
  BY <1>3 DEF ServeObserve, ServeSuccess, Refused, simVars, IInv, HasEnv
<1>4. CASE ServeClose(r)
  BY <1>4 DEF ServeClose, CloseRaises, Closed, NoBackend, IInv, HasEnv
<1> QED
  BY <1>1, <1>2, <1>3, <1>4 DEF Handle

(* The harness and the worker reach the service through the queue only.     *)
LEMMA NextKeeps == IInv /\ [EpisodeNext]_vars => IInv'
<1> SUFFICES ASSUME IInv, [EpisodeNext]_vars PROVE IInv'
  OBVIOUS
<1>1. CASE UNCHANGED <<backend, live>>
  BY <1>1 DEF IInv, HasEnv
<1>2. CASE RunBegins
  BY <1>1, <1>2 DEF RunBegins
<1>3. CASE HarnessStep
  BY <1>1, <1>3 DEF HarnessStep, ResetAnswered, ReferenceAnswered, NoOpStepAnswered, PolicyOver,
     PolicyTimesOut, RefreshAnswered, VerdictAnswered, CloseAnswered, simVars
<1>4. CASE WorkerStep
  BY <1>1, <1>4 DEF WorkerStep, WorkerAttaches, AttachAnswered, SensorCall, MotionCall, StepAnswered,
     CallReturns, PolicyReturns, WorkerExits, simVars, serviceVars
<1>5. CASE ServiceStep
  <2>1. CASE Serve
    BY <2>1, HandleKeeps DEF Serve
  <2>2. CASE CallFails("harness") \/ CallFails("worker")
    BY <1>1, <2>2 DEF CallFails, simVars
  <2> QED
    BY <1>5, <2>1, <2>2 DEF ServiceStep
<1>6. CASE UNCHANGED vars
  BY <1>1, <1>6 DEF vars
<1> QED
  BY <1>2, <1>3, <1>4, <1>5, <1>6 DEF EpisodeNext

(* The service holds one environment at most, and its backend owns it,      *)
(* wherever a reset, a step or a close raises (server.py:50-71, 127-131).   *)
THEOREM OneLiveEnvironmentHolds == EpisodeSpec => []OneLiveEnvironment
<1>1. EpisodeInit => IInv
  BY DEF EpisodeInit, ServiceInit, NoBackend, IInv, HasEnv
<1>2. IInv => OneLiveEnvironment
  BY DEF IInv, OneLiveEnvironment
<1> QED
  BY <1>1, <1>2, NextKeeps, PTL DEF EpisodeSpec

-----------------------------------------------------------------------------
(* What is left of a run.  A report is written when the close was answered, *)
(* so one must know that the close is the last request on the wire.         *)
Operations == {"reset", "session", "step", "reference", "observation", "success", "close"}

Wire == [id : Nat, from : Clients, op : Operations, config : Configs \cup {NoConfig}]

WireOK ==
  /\ sent \in Nat
  /\ queue \in Seq(Wire)
  /\ \A i \in 1..Len(queue) : queue[i].id \in 1..sent
  /\ \A i, j \in 1..Len(queue) : i < j => queue[i].id < queue[j].id
  /\ call \in [Clients -> Nat]
  /\ DOMAIN answer = Clients

(* The harness asks for the configuration of its run; the worker is at work *)
(* only while the harness waits for the policy.                             *)
PartiesOK ==
  /\ runs \in Nat
  /\ "pc" \in DOMAIN harness /\ harness.config \in Configs \cup {NoConfig}
  /\ "pc" \in DOMAIN worker
  /\ worker.pc \in {"off", "exited"} \/ harness.pc = "policy"

Quiet == backend = NoBackend /\ live = {} /\ queue = <<>>

ClosingOK ==
  harness.pc = "closing" =>
    /\ answer["harness"] \in {NoAnswer, Error, [ok |-> TRUE]}
    /\ answer["harness"] = NoAnswer =>
         /\ queue # <<>>
         /\ queue[Len(queue)].id = call["harness"]
         /\ queue[Len(queue)].from = "harness" /\ queue[Len(queue)].op = "close"
    /\ answer["harness"] = [ok |-> TRUE] => Quiet

ReportOK == report # NoReport => harness.pc = "idle" /\ Quiet

RInv == IInv /\ WireOK /\ PartiesOK /\ ClosingOK /\ ReportOK

(* The three answers are different.                                         *)
LEMMA Answers == NoAnswer # Error /\ NoAnswer # [ok |-> TRUE] /\ Error # [ok |-> TRUE]
<1>1. "ok" \notin DOMAIN NoAnswer /\ "ok" \in DOMAIN Error /\ "ok" \in DOMAIN [ok |-> TRUE]
  BY DEF NoAnswer, Error
<1>2. Error.ok = FALSE /\ [ok |-> TRUE].ok = TRUE
  BY DEF Error
<1> QED
  BY <1>1, <1>2

(* A request goes to the end of the queue, under a number of its own.       *)
LEMMA SendKeeps ==
  ASSUME WireOK, NEW n \in Nat, n = sent \/ queue = <<>>, NEW c \in Clients, NEW op \in Operations,
         NEW cfg \in Configs \cup {NoConfig}, SendAfter(n, c, op, cfg)
  PROVE  /\ WireOK'
         /\ queue' # <<>>
         /\ queue'[Len(queue')] = [id |-> n + 1, from |-> c, op |-> op, config |-> cfg]
         /\ call'[c] = n + 1
         /\ answer'[c] = NoAnswer
<1> DEFINE r == [id |-> n + 1, from |-> c, op |-> op, config |-> cfg]
<1>1. r \in Wire
  BY DEF Wire
<1>2. /\ queue' = Append(queue, r) /\ queue' \in Seq(Wire)
      /\ Len(queue) \in Nat /\ Len(queue') = Len(queue) + 1
      /\ \A i \in 1..Len(queue) : queue'[i] = queue[i]
      /\ queue'[Len(queue) + 1] = r
  BY <1>1 DEF WireOK, SendAfter
<1>3. \A i \in 1..Len(queue) : queue[i].id \in Nat /\ queue[i].id <= n
  BY <1>2 DEF WireOK
<1>4. \A i \in 1..Len(queue') : queue'[i].id \in 1..(n + 1)
  BY <1>2, <1>3 DEF WireOK
<1>5. \A i, j \in 1..Len(queue') : i < j => queue'[i].id < queue'[j].id
  <2> SUFFICES ASSUME NEW i \in 1..Len(queue'), NEW j \in 1..Len(queue'), i < j
               PROVE  queue'[i].id < queue'[j].id
    OBVIOUS
  <2>1. i \in 1..Len(queue)
    BY <1>2
  <2>2. CASE j \in 1..Len(queue)
    BY <1>2, <2>1, <2>2 DEF WireOK
  <2>3. CASE j = Len(queue) + 1
    BY <1>2, <1>3, <2>1, <2>3
  <2> QED
    BY <1>2, <2>2, <2>3
<1>6. sent' = n + 1 /\ call' = [call EXCEPT ![c] = n + 1] /\ answer' = [answer EXCEPT ![c] = NoAnswer]
  BY DEF SendAfter
<1>7. WireOK'
  BY <1>2, <1>4, <1>5, <1>6 DEF WireOK
<1>8. queue' # <<>>
  BY <1>2
<1> QED
  BY <1>2, <1>6, <1>7, <1>8 DEF WireOK

(* The first request leaves the queue.                                      *)
LEMMA ServedKeeps ==
  ASSUME WireOK, queue # <<>>, queue' = SubSeq(queue, 1, 0) \o SubSeq(queue, 2, Len(queue)),
         UNCHANGED wireVars, DOMAIN answer' = Clients
  PROVE  /\ WireOK'
         /\ Len(queue') = Len(queue) - 1
         /\ \A i \in 1..Len(queue') : queue'[i] = queue[i + 1]
<1>1. Len(queue) \in Nat \ {0} /\ \A i \in 1..Len(queue) : queue[i] \in Wire
  BY EmptySeq, ElementOfSeq DEF WireOK
<1>2. SubSeq(queue, 1, 0) = <<>>
  BY SubSeqEmpty
<1>3. /\ SubSeq(queue, 2, Len(queue)) \in Seq(Wire)
      /\ Len(SubSeq(queue, 2, Len(queue))) = Len(queue) - 1
      /\ \A i \in 1..(Len(queue) - 1) : SubSeq(queue, 2, Len(queue))[i] = queue[i + 1]
  <2>1. \A i \in 2..Len(queue) : queue[i] \in Wire
    BY <1>1
  <2>2. Len(queue) \in Int /\ 2 \in Int
    BY <1>1
  <2>3. /\ SubSeq(queue, 2, Len(queue)) \in Seq(Wire)
        /\ Len(SubSeq(queue, 2, Len(queue))) = IF 2 <= Len(queue) THEN Len(queue) - 2 + 1 ELSE 0
        /\ \A i \in 1..(Len(queue) - 2 + 1) : SubSeq(queue, 2, Len(queue))[i] = queue[2 + i - 1]
    BY <2>1, <2>2, SubSeqProperties
  <2> QED
    BY <1>1, <2>3
<1>4. queue' = SubSeq(queue, 2, Len(queue))
  BY <1>2, <1>3, ConcatEmptySeq
<1>5. WireOK'
  BY <1>1, <1>3, <1>4 DEF WireOK, wireVars
<1> QED
  BY <1>3, <1>4, <1>5

(* Every handler answers, if the client still waits.                        *)
LEMMA HandleReplies ==
  ASSUME NEW r, Handle(r)
  PROVE  \E a : Reply(r, a)
<1>1. CASE ServeReset(r)
  BY <1>1 DEF ServeReset, EnvReset, CloseRaises, Observed
<1>2. CASE ServeStep(r)
  BY <1>2 DEF ServeStep, Refused
<1>3. CASE ServeReference(r)
  BY <1>3 DEF ServeReference, Refused, Observed
<1>4. CASE ServeObserve(r) \/ ServeSuccess(r) \/ ServeClose(r)
  BY <1>4 DEF ServeObserve, ServeSuccess, ServeClose, CloseRaises, Refused, Observed
<1> QED
  BY <1>1, <1>2, <1>3, <1>4 DEF Handle

(* The service serves a request while the harness is not idle, or while it  *)
(* is and has no report.                                                    *)
LEMMA ServeKeeps ==
  ASSUME RInv, EpisodeAssumption, Serve, UNCHANGED <<harness, worker, file, report, runs>>
  PROVE  RInv'
<1> DEFINE r == queue[1]
<1>1. /\ queue # <<>> /\ Handle(r) /\ UNCHANGED wireVars
      /\ queue' = SubSeq(queue, 1, 0) \o SubSeq(queue, 2, Len(queue))
  BY DEF Serve, NextRequest
<1>2. PICK a : Reply(r, a)
  BY <1>1, HandleReplies
<1>3. /\ WireOK' /\ Len(queue') = Len(queue) - 1
      /\ \A i \in 1..Len(queue') : queue'[i] = queue[i + 1]
  BY <1>1, <1>2, ServedKeeps DEF RInv, WireOK, Reply
<1>4. /\ Len(queue) \in Nat \ {0} /\ Len(queue') \in Nat
      /\ (queue' = <<>> <=> Len(queue') = 0)
  <2>1. queue \in Seq(Wire) /\ queue' \in Seq(Wire)
    BY <1>3 DEF RInv, WireOK
  <2>2. Len(queue) \in Nat \ {0} /\ Len(queue') \in Nat
    BY <1>1, <2>1, EmptySeq
  <2>3. queue' # <<>> => Len(queue') # 0
    BY <2>1, EmptySeq
  <2>4. Len(<<>>) = 0
    OBVIOUS
  <2> QED
    BY <2>2, <2>3, <2>4
<1>5. IInv'
  BY <1>1, HandleKeeps DEF RInv
<1>6. PartiesOK'
  BY DEF RInv, PartiesOK
<1>7. ReportOK'
  BY <1>1 DEF RInv, ReportOK, Quiet
<1>8. ClosingOK'
  <2> SUFFICES ASSUME harness.pc = "closing" PROVE ClosingOK'
    BY DEF ClosingOK
  <2>1. answer["harness"] \in {NoAnswer, Error, [ok |-> TRUE]}
    BY DEF RInv, ClosingOK
  <2>2. CASE answer["harness"] = [ok |-> TRUE]
    BY <1>1, <2>2 DEF RInv, ClosingOK, Quiet
  <2>3. CASE answer["harness"] = Error
    <3>1. answer'["harness"] = Error
      BY <1>2, <2>3, Answers DEF Reply, RInv, WireOK, EpisodeAssumption
    <3> QED
      BY <3>1, Answers DEF ClosingOK
  <2>4. CASE answer["harness"] = NoAnswer
    <3>1. /\ queue[Len(queue)].id = call["harness"]
          /\ queue[Len(queue)].from = "harness" /\ queue[Len(queue)].op = "close"
      BY <2>4 DEF RInv, ClosingOK
    <3>2. CASE Len(queue) = 1
      <4>1. r.op = "close" /\ r.from = "harness" /\ r.id = call["harness"]
        BY <3>1, <3>2
      <4>2. ServeClose(r)
        BY <1>1, <4>1 DEF Handle
      <4>3. CASE CloseRaises(r)
        <5>1. answer'["harness"] = Error
          BY <2>4, <4>1, <4>3 DEF CloseRaises, Reply, RInv, WireOK, EpisodeAssumption
        <5> QED
          BY <5>1, Answers DEF ClosingOK
      <4>4. CASE backend' = NoBackend /\ live' = Closed /\ Reply(r, [ok |-> TRUE])
        <5>1. answer'["harness"] = [ok |-> TRUE]
          BY <2>4, <4>1, <4>4 DEF Reply, RInv, WireOK, EpisodeAssumption
        <5>2. Quiet'
          BY <1>3, <1>4, <3>2, <4>4 DEF Quiet, Closed, RInv, IInv
        <5> QED
          BY <5>1, <5>2, Answers DEF ClosingOK
      <4> QED
        BY <4>2, <4>3, <4>4 DEF ServeClose
    <3>3. CASE Len(queue) > 1
      <4>1. r.id # call["harness"]
        <5>1. r.id < queue[Len(queue)].id /\ r.id \in Nat /\ queue[Len(queue)].id \in Nat
          BY <1>4, <3>3 DEF RInv, WireOK
        <5> QED
          BY <3>1, <5>1
      <4>2. answer'["harness"] = NoAnswer
        BY <1>2, <2>4, <4>1 DEF Reply, RInv, WireOK, EpisodeAssumption
      <4>3. queue' # <<>> /\ queue'[Len(queue')] = queue[Len(queue)]
        BY <1>3, <1>4, <3>3
      <4>4. call' = call
        BY <1>1 DEF wireVars
      <4> QED
        BY <3>1, <4>2, <4>3, <4>4, Answers DEF ClosingOK
    <3>4. Len(queue) = 1 \/ Len(queue) > 1
      <4> DEFINE n == Len(queue)
      <4>1. n \in Nat \ {0}
        BY <1>4
      <4> HIDE DEF n
      <4>2. n = 1 \/ n > 1
        BY <4>1
      <4> QED
        BY <4>2 DEF n
    <3> QED
      BY <3>2, <3>3, <3>4
  <2> QED
    BY <2>1, <2>2, <2>3, <2>4
<1> QED
  BY <1>3, <1>5, <1>6, <1>7, <1>8 DEF RInv

(* A wait that ends leaves the request where it is.                         *)
LEMMA CallFailsKeeps ==
  ASSUME RInv, EpisodeAssumption, NEW c \in Clients, CallFails(c),
         UNCHANGED <<harness, worker, file, report, runs>>
  PROVE  RInv'
<1>1. answer[c] = NoAnswer /\ answer' = [answer EXCEPT ![c] = Error]
      /\ UNCHANGED <<queue, simVars, wireVars>>
  BY DEF CallFails
<1>2. IInv' /\ WireOK' /\ PartiesOK' /\ ReportOK'
  BY <1>1 DEF RInv, IInv, HasEnv, WireOK, PartiesOK, ReportOK, Quiet, simVars, wireVars
<1>3. CASE c = "harness"
  <2>1. answer'["harness"] = Error
    BY <1>1, <1>3 DEF RInv, WireOK, EpisodeAssumption
  <2> QED
    BY <1>2, <2>1, Answers DEF RInv, ClosingOK
<1>4. CASE c # "harness"
  <2>1. answer'["harness"] = answer["harness"]
    BY <1>1, <1>4 DEF RInv, WireOK, EpisodeAssumption
  <2> QED
    BY <1>1, <1>2, <2>1 DEF RInv, ClosingOK, Quiet, simVars, wireVars
<1> QED
  BY <1>3, <1>4

(* The harness asks for op and is then at pc.                               *)
LEMMA AskKeeps ==
  ASSUME RInv, EpisodeAssumption, harness.pc # "idle", NEW op \in Operations, Ask("harness", op),
         UNCHANGED <<simVars, report, runs>>,
         "pc" \in DOMAIN harness', harness'.config = harness.config, harness'.pc # "idle",
         harness'.pc = "closing" => op = "close",
         "pc" \in DOMAIN worker', worker'.pc \in {"off", "exited"}
  PROVE  RInv'
<1>1. /\ WireOK' /\ queue' # <<>> /\ answer'["harness"] = NoAnswer
      /\ queue'[Len(queue')] = [id |-> sent + 1, from |-> "harness", op |-> op, config |-> harness.config]
      /\ call'["harness"] = sent + 1
  <2>1. "harness" \in Clients /\ sent \in Nat /\ harness.config \in Configs \cup {NoConfig}
    BY DEF EpisodeAssumption, RInv, WireOK, PartiesOK
  <2>2. SendAfter(sent, "harness", op, harness.config)
    BY DEF Ask, Send
  <2> QED
    BY <2>1, <2>2, SendKeeps DEF RInv
<1>2. IInv' /\ PartiesOK' /\ ReportOK'
  BY DEF RInv, IInv, HasEnv, PartiesOK, ReportOK, simVars
<1>3. ClosingOK'
  <2>1. harness'.pc = "closing" => queue'[Len(queue')].id = call'["harness"]
                                   /\ queue'[Len(queue')].from = "harness"
                                   /\ queue'[Len(queue')].op = "close"
    BY <1>1
  <2> QED
    BY <1>1, <2>1, Answers DEF ClosingOK
<1> QED
  BY <1>1, <1>2, <1>3 DEF RInv

(* The run has failed, or asks for the verdict.                             *)
LEMMA EndsKeep ==
  ASSUME RInv, EpisodeAssumption, harness.pc # "idle", NEW h, "pc" \in DOMAIN h,
         h.config = harness.config, FailedRun(h) \/ Checking(h), UNCHANGED <<simVars, report, runs>>,
         "pc" \in DOMAIN worker', worker'.pc \in {"off", "exited"}
  PROVE  RInv'
<1>1. CASE FailedRun(h)
  <2>1. Ask("harness", "close") /\ "pc" \in DOMAIN harness' /\ harness'.config = harness.config
        /\ harness'.pc = "closing"
    BY <1>1 DEF FailedRun
  <2>2. "close" \in Operations /\ harness'.pc # "idle"
    BY <2>1 DEF Operations
  <2> QED
    BY <2>1, <2>2, AskKeeps, SMTT(30)
<1>2. CASE Checking(h)
  <2>1. Ask("harness", "success") /\ "pc" \in DOMAIN harness' /\ harness'.config = harness.config
        /\ harness'.pc = "checking"
    BY <1>2 DEF Checking
  <2>2. "success" \in Operations /\ harness'.pc # "idle" /\ harness'.pc # "closing"
    BY <2>1 DEF Operations
  <2> QED
    BY <2>1, <2>2, AskKeeps, SMTT(30)
<1> QED
  BY <1>1, <1>2

(* A run begins with a request for a reset, and without a report.           *)
LEMMA RunBeginsKeeps ==
  ASSUME RInv, EpisodeAssumption, RunBegins
  PROVE  RInv'
<1> DEFINE n == IF NamesFree THEN 0 ELSE sent
<1>1. PICK p \in Policies, cfg \in Plan[runs + 1].configs :
        /\ harness' = [IdleHarness EXCEPT !.pc = "resetting", !.policy = p, !.config = cfg,
                                          !.first = n + 1]
        /\ SendAfter(n, "harness", "reset", cfg)
  BY DEF RunBegins
<1>2. cfg \in Configs
  <2>1. runs + 1 \in 1..Len(Plan)
    BY DEF RunBegins, RInv, PartiesOK, EpisodeAssumption
  <2>2. Plan[runs + 1] \in [configs : SUBSET Configs, calls : Nat]
    BY <2>1, ElementOfSeq DEF EpisodeAssumption
  <2> QED
    BY <2>2
<1>3. n \in Nat /\ (n = sent \/ queue = <<>>)
  BY DEF NamesFree, RInv, WireOK
<1>4. WireOK'
  <2> HIDE DEF n
  <2>1. "harness" \in Clients /\ "reset" \in Operations
    BY DEF EpisodeAssumption, Operations
  <2> QED
    BY <1>1, <1>2, <1>3, <2>1, SendKeeps DEF RInv
<1>5. harness'.pc = "resetting" /\ harness'.config = cfg /\ "pc" \in DOMAIN harness'
  BY <1>1 DEF IdleHarness
<1>6. PartiesOK'
  <2>1. runs \in Nat /\ runs' = runs + 1 /\ worker' = worker /\ harness.pc = "idle"
    BY DEF RunBegins, Harness, RInv, PartiesOK
  <2>2. "pc" \in DOMAIN worker /\ worker.pc \in {"off", "exited"}
    BY <2>1 DEF RInv, PartiesOK
  <2>3. runs' \in Nat
    BY <2>1
  <2> QED
    BY <1>2, <1>5, <2>1, <2>2, <2>3 DEF PartiesOK
<1>7. IInv' /\ ClosingOK' /\ ReportOK'
  BY <1>5 DEF RunBegins, RInv, IInv, HasEnv, ClosingOK, ReportOK
<1> QED
  BY <1>4, <1>6, <1>7 DEF RInv

(* The environment is reset and a policy begins, in a worker or not.        *)
LEMMA ResetAnsweredKeeps ==
  ASSUME RInv, EpisodeAssumption, ResetAnswered
  PROVE  RInv'
<1> DEFINE h == [harness EXCEPT !.initial = Taken(answer["harness"]), !.last = Taken(answer["harness"])]
<1>1. harness.pc = "resetting" /\ "pc" \in DOMAIN worker /\ worker.pc \in {"off", "exited"}
      /\ "pc" \in DOMAIN harness
  BY DEF ResetAnswered, Harness, RInv, PartiesOK
<1>2. h.config = harness.config /\ "pc" \in DOMAIN h
  BY <1>1
<1>3. CASE FailedRun(harness) /\ worker' = worker
  BY <1>1, <1>3, EndsKeep DEF ResetAnswered
<1>4. CASE /\ worker' = worker
           /\ \/ harness' = [h EXCEPT !.pc = "reference"] /\ Ask("harness", "reference")
              \/ harness' = [h EXCEPT !.pc = "stepping", !.left = MaxSteps] /\ Ask("harness", "step")
  <2>1. "pc" \in DOMAIN harness' /\ harness'.config = harness.config
        /\ harness'.pc \in {"reference", "stepping"}
    <3> HIDE DEF h
    <3>1. CASE harness' = [h EXCEPT !.pc = "reference"]
      BY <1>2, <3>1
    <3>2. CASE harness' = [h EXCEPT !.pc = "stepping", !.left = MaxSteps]
      BY <1>2, <3>2
    <3> QED
      BY <1>4, <3>1, <3>2
  <2>2. PICK op \in Operations : Ask("harness", op)
    <3>1. "reference" \in Operations /\ "step" \in Operations
      BY DEF Operations
    <3> QED
      BY <1>4, <3>1
  <2>3. UNCHANGED <<simVars, report, runs>>
    BY DEF ResetAnswered
  <2>4. harness.pc # "idle" /\ harness'.pc # "idle" /\ harness'.pc # "closing"
        /\ "pc" \in DOMAIN worker' /\ worker'.pc \in {"off", "exited"}
    BY <1>1, <1>4, <2>1
  <2> QED
    BY <2>1, <2>2, <2>3, <2>4, AskKeeps, SMTT(30)
<1>5. CASE /\ harness' = [h EXCEPT !.pc = "policy"] /\ Heard("harness") /\ UNCHANGED <<queue, sent>>
           /\ worker' = [NoWorker EXCEPT !.pc = "starting"]
  <2>1. harness'.pc = "policy" /\ harness'.config = harness.config /\ "pc" \in DOMAIN harness'
        /\ "pc" \in DOMAIN worker'
    BY <1>2, <1>5 DEF NoWorker
  <2>2. WireOK'
    BY <1>5 DEF Heard, RInv, WireOK
  <2>3. report = NoReport
    BY <1>1 DEF RInv, ReportOK
  <2> QED
    BY <2>1, <2>2, <2>3 DEF ResetAnswered, RInv, IInv, HasEnv, PartiesOK, ClosingOK, ReportOK, simVars
<1>6. CASE FailedRun(h) /\ worker' = worker
  <2> HIDE DEF h
  <2> QED
    BY <1>1, <1>2, <1>6, EndsKeep DEF ResetAnswered
<1> QED
  BY <1>3, <1>4, <1>5, <1>6 DEF ResetAnswered

(* The other answers, up to the verdict.                                    *)
LEMMA AnsweredKeeps ==
  ASSUME RInv, EpisodeAssumption, ReferenceAnswered \/ NoOpStepAnswered \/ RefreshAnswered \/ VerdictAnswered
  PROVE  RInv'
<1>1. /\ harness.pc \in {"reference", "stepping", "refreshing", "checking"}
      /\ "pc" \in DOMAIN worker /\ worker.pc \in {"off", "exited"} /\ "pc" \in DOMAIN harness
      /\ UNCHANGED <<simVars, worker, report, runs>>
  BY DEF ReferenceAnswered, NoOpStepAnswered, RefreshAnswered, VerdictAnswered, Harness, RInv, PartiesOK
<1>2. CASE \E h : /\ "pc" \in DOMAIN h /\ h.config = harness.config
                  /\ FailedRun(h) \/ Checking(h)
  BY <1>1, <1>2, EndsKeep
<1>3. CASE ReferenceAnswered
  <2> DEFINE h == [harness EXCEPT !.last = Taken(answer["harness"]), !.trace = answer["harness"].trace]
  <2>1. "pc" \in DOMAIN h /\ h.config = harness.config
    BY <1>1
  <2> QED
    BY <1>1, <1>2, <1>3, <2>1 DEF ReferenceAnswered
<1>4. CASE RefreshAnswered
  <2> DEFINE h == [harness EXCEPT !.last = Taken(answer["harness"]), !.trace = harness.exec.trace]
  <2>1. "pc" \in DOMAIN h /\ h.config = harness.config
    BY <1>1
  <2> QED
    BY <1>1, <1>2, <1>4, <2>1 DEF RefreshAnswered
<1>5. CASE NoOpStepAnswered
  <2> DEFINE h == Acknowledged(harness, "harness")
  <2>1. "pc" \in DOMAIN h /\ h.config = harness.config /\ h.pc = harness.pc
    BY <1>1 DEF Acknowledged
  <2>2. CASE harness' = h /\ Ask("harness", "step")
    <3>1. /\ "step" \in Operations /\ harness.pc # "idle" /\ harness'.pc # "idle"
          /\ harness'.pc # "closing" /\ harness'.config = harness.config
          /\ "pc" \in DOMAIN harness' /\ "pc" \in DOMAIN worker' /\ worker'.pc \in {"off", "exited"}
      BY <1>1, <2>1, <2>2 DEF Operations
    <3> QED
      BY <1>1, <2>2, <3>1, AskKeeps, SMTT(30)
  <2> QED
    BY <1>1, <1>2, <1>5, <2>1, <2>2 DEF NoOpStepAnswered
<1>6. CASE VerdictAnswered
  <2>1. CASE /\ harness' = [harness EXCEPT !.pc = "closing", !.status = "completed",
                                           !.verdict = answer["harness"].now]
             /\ Ask("harness", "close")
    <3>1. "pc" \in DOMAIN harness' /\ harness'.config = harness.config /\ harness'.pc = "closing"
      BY <1>1, <2>1
    <3>2. /\ "close" \in Operations /\ harness.pc # "idle" /\ harness'.pc # "idle"
          /\ "pc" \in DOMAIN worker' /\ worker'.pc \in {"off", "exited"}
      BY <1>1, <3>1 DEF Operations
    <3> QED
      BY <1>1, <2>1, <3>1, <3>2, AskKeeps, SMTT(30)
  <2> QED
    BY <1>1, <1>2, <1>6, <2>1 DEF VerdictAnswered
<1> QED
  BY <1>3, <1>4, <1>5, <1>6

(* The policy is over, or was killed: no worker is at work any more.        *)
LEMMA PolicyOverKeeps ==
  ASSUME RInv, EpisodeAssumption, PolicyOver \/ PolicyTimesOut
  PROVE  RInv'
<1>1. PICK status : Refreshing(status)
  BY DEF PolicyOver, PolicyTimesOut
<1>2. harness.pc = "policy" /\ "pc" \in DOMAIN harness /\ "pc" \in DOMAIN worker
      /\ UNCHANGED <<simVars, report, runs>>
  BY DEF PolicyOver, PolicyTimesOut, Harness, RInv, PartiesOK
<1>3. "pc" \in DOMAIN worker' /\ worker'.pc \in {"off", "exited"}
  BY <1>2 DEF PolicyOver, PolicyTimesOut
<1>4. "pc" \in DOMAIN harness' /\ harness'.config = harness.config /\ harness'.pc = "refreshing"
      /\ Ask("harness", "observation")
  BY <1>1, <1>2 DEF Refreshing
<1>5. /\ "observation" \in Operations /\ harness.pc # "idle" /\ harness'.pc # "idle"
      /\ harness'.pc # "closing"
  BY <1>2, <1>4 DEF Operations
<1> QED
  BY <1>2, <1>3, <1>4, <1>5, AskKeeps, SMTT(30)

(* A report is written when the close was answered, and then all is quiet.  *)
LEMMA CloseAnsweredKeeps ==
  ASSUME RInv, CloseAnswered
  PROVE  RInv'
<1>1. harness.pc = "closing" /\ answer["harness"] # NoAnswer
  BY DEF CloseAnswered, Harness, Answered
<1>2. CASE answer["harness"] = Error
  <2>1. report' = NoReport
    BY <1>2 DEF CloseAnswered, Error
  <2> QED
    BY <2>1 DEF CloseAnswered, IdleHarness, NoWorker, RInv, IInv, HasEnv, WireOK, PartiesOK, ClosingOK,
       ReportOK, simVars
<1>3. CASE answer["harness"] = [ok |-> TRUE]
  <2>1. Quiet
    BY <1>1, <1>3 DEF RInv, ClosingOK
  <2> QED
    BY <2>1 DEF CloseAnswered, IdleHarness, NoWorker, RInv, IInv, HasEnv, WireOK, PartiesOK, ClosingOK,
       ReportOK, Quiet, simVars
<1> QED
  BY <1>1, <1>2, <1>3 DEF RInv, ClosingOK

(* The worker acts while the harness waits for the policy.                  *)
LEMMA WorkerKeeps ==
  ASSUME RInv, EpisodeAssumption, WorkerStep
  PROVE  RInv'
<1>1. worker.pc \notin {"off", "exited"} /\ "pc" \in DOMAIN worker
      /\ UNCHANGED <<simVars, harness, report, runs>>
  BY DEF WorkerStep, WorkerAttaches, AttachAnswered, SensorCall, MotionCall, StepAnswered, CallReturns,
     PolicyReturns, WorkerExits, Worker, serviceVars, simVars, RInv, PartiesOK
<1>2. harness.pc = "policy" /\ report = NoReport
  <2>1. harness.pc = "policy"
    BY <1>1 DEF RInv, PartiesOK
  <2> QED
    BY <2>1 DEF RInv, ReportOK
<1>3. WireOK'
  <2>1. CASE \E op \in Operations : Ask("worker", op)
    <3>1. PICK op \in Operations : SendAfter(sent, "worker", op, harness.config)
      BY <2>1 DEF Ask, Send
    <3>2. "worker" \in Clients /\ sent \in Nat /\ harness.config \in Configs \cup {NoConfig}
      BY DEF EpisodeAssumption, RInv, WireOK, PartiesOK
    <3> QED
      BY <3>1, <3>2, SendKeeps DEF RInv
  <2>2. CASE Heard("worker") /\ UNCHANGED <<queue, sent>>
    BY <2>2 DEF Heard, RInv, WireOK
  <2>3. CASE UNCHANGED serviceVars
    BY <2>3 DEF serviceVars, RInv, WireOK
  <2>4. "session" \in Operations /\ "step" \in Operations
    BY DEF Operations
  <2>5. CASE WorkerAttaches
    BY <2>1, <2>4, <2>5 DEF WorkerAttaches
  <2>6. CASE AttachAnswered
    BY <2>2, <2>6 DEF AttachAnswered
  <2>7. CASE MotionCall
    BY <2>1, <2>4, <2>7 DEF MotionCall
  <2>8. CASE StepAnswered
    BY <2>1, <2>2, <2>4, <2>8 DEF StepAnswered
  <2>9. CASE SensorCall \/ CallReturns \/ PolicyReturns \/ WorkerExits
    BY <2>3, <2>9 DEF SensorCall, CallReturns, PolicyReturns, WorkerExits
  <2> QED
    BY <2>5, <2>6, <2>7, <2>8, <2>9 DEF WorkerStep
<1>4. "pc" \in DOMAIN worker'
  BY <1>1 DEF WorkerStep, WorkerAttaches, AttachAnswered, SensorCall, MotionCall, StepAnswered,
     CallReturns, PolicyReturns, WorkerExits, Persist, Emitted, Acknowledged
<1> QED
  BY <1>1, <1>2, <1>3, <1>4 DEF RInv, IInv, HasEnv, PartiesOK, ClosingOK, ReportOK, simVars

(* Every step of harness, worker and service keeps the invariant.           *)
LEMMA EpisodeKeeps == EpisodeAssumption /\ RInv /\ [EpisodeNext]_vars => RInv'
<1> SUFFICES ASSUME EpisodeAssumption, RInv, [EpisodeNext]_vars PROVE RInv'
  OBVIOUS
<1>1. CASE HarnessStep
  BY <1>1, ResetAnsweredKeeps, AnsweredKeeps, PolicyOverKeeps, CloseAnsweredKeeps DEF HarnessStep
<1>2. CASE ServiceStep
  <2>1. UNCHANGED <<harness, worker, file, report, runs>> /\ "harness" \in Clients /\ "worker" \in Clients
    BY <1>2 DEF ServiceStep, EpisodeAssumption
  <2> QED
    BY <1>2, <2>1, ServeKeeps, CallFailsKeeps DEF ServiceStep
<1>3. CASE UNCHANGED vars
  BY <1>3 DEF vars, RInv, IInv, HasEnv, WireOK, PartiesOK, ClosingOK, ReportOK, Quiet
<1> QED
  BY <1>1, <1>2, <1>3, RunBeginsKeeps, WorkerKeeps DEF EpisodeNext

(* The invariant is inductive.                                              *)
LEMMA EpisodeInvariant == EpisodeSpec => []RInv
<1>1. EpisodeInit => RInv
  <2> SUFFICES ASSUME EpisodeInit PROVE RInv
    OBVIOUS
  <2>1. IInv /\ PartiesOK /\ ClosingOK /\ ReportOK
    BY DEF EpisodeInit, ServiceInit, NoBackend, IdleHarness, NoWorker, IInv, HasEnv, PartiesOK,
       ClosingOK, ReportOK
  <2>2. WireOK
    BY EmptySeq DEF EpisodeInit, ServiceInit, WireOK
  <2> QED
    BY <2>1, <2>2 DEF RInv
<1> QED
  BY <1>1, EpisodeKeeps, EpisodeAssumption, PTL DEF EpisodeSpec

(* When a run has its result nothing of it is left: no environment, and no  *)
(* request of a policy that was killed (runner.py:100), for every plan of   *)
(* runs and whatever raises or hangs.                                       *)
THEOREM ReportedRunIsOverHolds == EpisodeSpec => []ReportedRunIsOver
<1>1. RInv => ReportedRunIsOver
  BY DEF RInv, ReportOK, Quiet, ReportedRunIsOver
<1> QED
  BY <1>1, EpisodeInvariant, PTL

-----------------------------------------------------------------------------
(* The events of a policy.  The worker's record and the file hold events,   *)
(* and a run begins with an empty file.                                     *)
Event == [sequence : Nat, of : Nat, asked : SUBSET Nat, status : {"completed", "failed"}]

WorkerFields == {"pc", "calls", "seq", "asked", "events"}

WorkerOK ==
  /\ WorkerFields \subseteq DOMAIN worker
  /\ worker.calls \in Nat /\ worker.asked \in SUBSET Nat
  /\ worker.events \in Seq(Event) /\ worker.seq = Len(worker.events)

FileOK ==
  /\ file.events \in Seq(Event)
  /\ harness.pc \in {"idle", "resetting"} => file.events = <<>>

EventsInv == WorkerOK /\ FileOK /\ EventsFollowCalls

(* The calls without an event, for a worker at pc.                          *)
Open(pc) == IF pc \in {"moving", "returning"} THEN {1} ELSE IF pc = "off" THEN {0, 1} ELSE {0}

(* Prefixes of sequences, element by element.                               *)
LEMMA PrefixElements ==
  ASSUME NEW S, NEW s \in Seq(S), NEW t \in Seq(S)
  PROVE  IsPrefix(s, t) <=> Len(s) <= Len(t) /\ \A i \in 1..Len(s) : s[i] = t[i]
<1> SUFFICES ASSUME Len(s) <= Len(t)
             PROVE  SubSeq(s, 1, Len(s)) = SubSeq(t, 1, Len(s)) <=> \A i \in 1..Len(s) : s[i] = t[i]
  BY DEF IsPrefix
<1> DEFINE n == Len(s)
           u == SubSeq(t, 1, n)
<1>1. n \in Nat /\ SubSeq(s, 1, n) = s
  BY SubSeqFull, LenProperties
<1>2. u \in Seq(S) /\ Len(u) = n /\ \A i \in 1..n : u[i] = t[i]
  <2>1. \A i \in 1..n : t[i] \in S
    BY <1>1, ElementOfSeq, LenProperties
  <2> HIDE DEF n
  <2>2. /\ SubSeq(t, 1, n) \in Seq(S)
        /\ Len(SubSeq(t, 1, n)) = IF 1 <= n THEN n - 1 + 1 ELSE 0
        /\ \A i \in 1..(n - 1 + 1) : SubSeq(t, 1, n)[i] = t[1 + i - 1]
    BY <1>1, <2>1, SubSeqProperties
  <2> QED
    BY <1>1, <2>2
<1> HIDE DEF u
<1>3. s = u <=> \A i \in 1..n : s[i] = u[i]
  BY <1>1, <1>2, SeqEqual
<1> QED
  BY <1>1, <1>2, <1>3 DEF u

(* What is a prefix stays one when the longer sequence grows.               *)
LEMMA PrefixGrows ==
  ASSUME NEW S, NEW s \in Seq(S), NEW t \in Seq(S), NEW e \in S, IsPrefix(s, t)
  PROVE  IsPrefix(s, Append(t, e))
<1>1. /\ Append(t, e) \in Seq(S) /\ Len(Append(t, e)) = Len(t) + 1
      /\ \A i \in 1..Len(t) : Append(t, e)[i] = t[i]
  BY AppendProperties
<1>2. Len(s) \in Nat /\ Len(t) \in Nat
  BY LenProperties
<1>3. Len(s) <= Len(t) /\ \A i \in 1..Len(s) : s[i] = t[i]
  BY PrefixElements
<1> DEFINE u == Append(t, e)
<1> HIDE DEF u
<1>4. u \in Seq(S) /\ Len(s) <= Len(u) /\ \A i \in 1..Len(s) : s[i] = u[i]
  BY <1>1, <1>2, <1>3 DEF u
<1>5. IsPrefix(s, u)
  BY <1>4, PrefixElements
<1> QED
  BY <1>5 DEF u

(* A sequence is a prefix of itself.                                        *)
LEMMA PrefixSelf ==
  ASSUME NEW S, NEW s \in Seq(S)
  PROVE  IsPrefix(s, s)
BY LenProperties DEF IsPrefix

(* A step after which no event is new, though the file may be.              *)
LEMMA NoNewEvent ==
  ASSUME WorkerOK, EventsFollowCalls, file.events \in Seq(Event),
         WorkerFields \subseteq DOMAIN worker', worker'.calls \in Nat, worker'.asked \in SUBSET Nat,
         worker'.events = worker.events, worker'.seq = worker.seq,
         worker'.calls - Len(worker.events) \in Open(worker'.pc),
         file'.events \in {file.events, worker.events}
  PROVE  WorkerOK' /\ file'.events \in Seq(Event) /\ EventsFollowCalls'
<1>1. IsPrefix(worker.events, worker.events)
  BY PrefixSelf DEF WorkerOK
<1> QED
  BY <1>1 DEF WorkerOK, EventsFollowCalls, Open

(* A call returns: its event is the next one, and is written or not.        *)
LEMMA NewEvent ==
  ASSUME WorkerOK, EventsFollowCalls, file.events \in Seq(Event), worker.pc = "returning",
         NEW e \in Event, e.sequence = worker.seq, e.of = worker.calls,
         WorkerFields \subseteq DOMAIN worker', worker'.pc \in {"running", "ending"},
         worker'.calls = worker.calls, worker'.asked = worker.asked,
         worker'.events = Append(worker.events, e), worker'.seq = worker.seq + 1,
         file'.events \in {file.events, worker'.events}
  PROVE  WorkerOK' /\ file'.events \in Seq(Event) /\ EventsFollowCalls'
<1> DEFINE n == Len(worker.events)
<1>1. n \in Nat /\ worker.seq = n /\ worker.calls = n + 1
  BY LenProperties DEF WorkerOK, EventsFollowCalls
<1>2. /\ worker'.events \in Seq(Event) /\ Len(worker'.events) = n + 1
      /\ \A i \in 1..n : worker'.events[i] = worker.events[i]
      /\ worker'.events[n + 1] = e
  BY AppendProperties DEF WorkerOK
<1>3. IsPrefix(file.events, worker'.events)
  BY PrefixGrows DEF WorkerOK, EventsFollowCalls
<1>4. IsPrefix(worker'.events, worker'.events)
  BY <1>2, PrefixSelf
<1> HIDE DEF n
<1>5. \A i \in 1..(n + 1) : worker'.events[i].sequence = i - 1 /\ worker'.events[i].of = i
  <2>1. \A i \in 1..n : worker.events[i].sequence = i - 1 /\ worker.events[i].of = i
    BY DEF EventsFollowCalls, n
  <2> QED
    BY <1>1, <1>2, <2>1
<1>6. worker'.calls - Len(worker'.events) = 0
  BY <1>1, <1>2
<1> QED
  BY <1>1, <1>2, <1>3, <1>4, <1>5, <1>6 DEF WorkerOK, EventsFollowCalls

(* The steps of the worker.                                                 *)
LEMMA WorkerEvents ==
  ASSUME RInv, EventsInv, WorkerStep
  PROVE  WorkerOK' /\ file'.events \in Seq(Event) /\ EventsFollowCalls'
<1> DEFINE n == Len(worker.events)
<1>1. /\ n \in Nat /\ worker.calls \in Nat /\ worker.asked \in SUBSET Nat
      /\ WorkerFields \subseteq DOMAIN worker /\ worker.calls - n \in Open(worker.pc)
      /\ sent + 1 \in Nat /\ WorkerOK /\ EventsFollowCalls /\ file.events \in Seq(Event)
  BY LenProperties DEF EventsInv, WorkerOK, FileOK, EventsFollowCalls, Open, RInv, WireOK
<1> HIDE DEF n
<1>2. CASE WorkerAttaches \/ AttachAnswered \/ PolicyReturns
  <2>1. /\ WorkerFields \subseteq DOMAIN worker' /\ worker'.calls = worker.calls
        /\ worker'.asked = worker.asked /\ worker'.events = worker.events /\ worker'.seq = worker.seq
        /\ Open(worker.pc) = {0} /\ Open(worker'.pc) = {0} /\ file' = file
    BY <1>1, <1>2 DEF WorkerAttaches, AttachAnswered, PolicyReturns, Worker, Open, WorkerFields
  <2> QED
    BY <1>1, <2>1, NoNewEvent DEF n
<1>3. CASE SensorCall \/ MotionCall
  <2>1. /\ WorkerFields \subseteq DOMAIN worker' /\ worker'.calls = worker.calls + 1
        /\ worker'.asked \in {{}, {sent + 1}} /\ worker'.events = worker.events
        /\ worker'.seq = worker.seq
        /\ Open(worker.pc) = {0} /\ Open(worker'.pc) = {1} /\ file' = file
    BY <1>1, <1>3 DEF SensorCall, MotionCall, Worker, Open, WorkerFields
  <2>2. worker'.calls - n \in Open(worker'.pc) /\ worker'.calls \in Nat /\ worker'.asked \in SUBSET Nat
    BY <1>1, <2>1
  <2> QED
    BY <1>1, <2>1, <2>2, NoNewEvent DEF n
<1>4. CASE StepAnswered
  <2> DEFINE w == Acknowledged(worker, "worker")
  <2>1. /\ WorkerFields \subseteq DOMAIN w /\ w.calls = worker.calls /\ w.asked = worker.asked
        /\ w.events = worker.events /\ w.seq = worker.seq /\ w.pc = worker.pc
    BY <1>1 DEF Acknowledged, WorkerFields
  <2> HIDE DEF w
  <2>2. /\ WorkerFields \subseteq DOMAIN worker' /\ worker'.calls = worker.calls
        /\ worker'.asked \in {worker.asked, worker.asked \cup {sent + 1}}
        /\ worker'.events = worker.events /\ worker'.seq = worker.seq
        /\ worker.pc = "moving" /\ worker'.pc \in {"moving", "returning"} /\ file' = file
    <3>1. CASE worker' = [worker EXCEPT !.pc = "returning", !.raises = TRUE]
      BY <1>1, <1>4, <3>1 DEF StepAnswered, Worker, WorkerFields
    <3>2. CASE \E raises \in BOOLEAN : worker' = [w EXCEPT !.pc = "returning", !.raises = raises]
      BY <1>4, <2>1, <3>2 DEF StepAnswered, Worker, WorkerFields
    <3>3. CASE worker' = [w EXCEPT !.asked = @ \cup {sent + 1}]
      BY <1>4, <2>1, <3>3 DEF StepAnswered, Worker, WorkerFields
    <3> QED
      BY <1>4, <3>1, <3>2, <3>3 DEF StepAnswered, w
  <2>3. Open(worker.pc) = {1} /\ Open(worker'.pc) = {1} /\ worker'.asked \in SUBSET Nat
    BY <1>1, <2>2 DEF Open
  <2> QED
    BY <1>1, <2>2, <2>3, NoNewEvent DEF n
<1>5. CASE CallReturns
  <2> DEFINE w == Emitted(worker)
             e == [sequence |-> worker.seq, of |-> worker.calls, asked |-> worker.asked,
                   status |-> IF worker.raises THEN "failed" ELSE "completed"]
  <2>1. /\ WorkerFields \subseteq DOMAIN w /\ w.calls = worker.calls /\ w.asked = worker.asked
        /\ w.events = Append(worker.events, e) /\ w.seq = worker.seq + 1
    BY <1>1 DEF Emitted, WorkerFields
  <2>2. e \in Event /\ e.sequence = worker.seq /\ e.of = worker.calls
    BY <1>1 DEF Event, WorkerOK, n
  <2>3. /\ worker.pc = "returning"
        /\ worker' \in {[w EXCEPT !.pc = "running"], [w EXCEPT !.pc = "ending"]}
        /\ file'.events \in {file.events, w.events}
    BY <1>5 DEF CallReturns, Worker, Persist
  <2> HIDE DEF w, e
  <2>4. /\ WorkerFields \subseteq DOMAIN worker' /\ worker'.pc \in {"running", "ending"}
        /\ worker'.calls = worker.calls /\ worker'.asked = worker.asked
        /\ worker'.events = w.events /\ worker'.seq = w.seq
    BY <2>1, <2>3 DEF WorkerFields
  <2> QED
    BY <1>1, <2>1, <2>2, <2>3, <2>4, NewEvent
<1>6. CASE WorkerExits
  <2>1. /\ worker.pc = "ending"
        /\ \E code : worker' = [worker EXCEPT !.pc = "exited", !.code = code]
    BY <1>6 DEF WorkerExits, Worker, Persist
  <2>0. file'.events \in {file.events, worker.events}
    <3>1. CASE file' = file
      BY <3>1
    <3>2. CASE \E st, tr : file' = [status |-> st, trace |-> tr, events |-> worker.events]
      BY <3>2
    <3> QED
      BY <1>6, <3>1, <3>2 DEF WorkerExits, Persist
  <2>2. /\ WorkerFields \subseteq DOMAIN worker' /\ worker'.calls = worker.calls
        /\ worker'.asked = worker.asked /\ worker'.events = worker.events /\ worker'.seq = worker.seq
        /\ worker'.pc = "exited"
    BY <1>1, <2>1 DEF WorkerFields
  <2>3. Open(worker.pc) = {0} /\ Open(worker'.pc) = {0}
    BY <2>1, <2>2 DEF Open
  <2> QED
    BY <1>1, <2>0, <2>2, <2>3, NoNewEvent DEF n
<1> QED
  BY <1>2, <1>3, <1>4, <1>5, <1>6 DEF WorkerStep

(* A worker that has not begun, with an empty file.                         *)
LEMMA FreshEvents ==
  ASSUME worker' = NoWorker \/ worker' = [NoWorker EXCEPT !.pc = "starting"], file'.events = <<>>
  PROVE  WorkerOK' /\ EventsFollowCalls'
<1>1. /\ WorkerFields \subseteq DOMAIN worker' /\ worker'.calls = 0 /\ worker'.asked = {}
      /\ worker'.events = <<>> /\ worker'.seq = 0 /\ worker'.pc \in {"off", "starting"}
  BY DEF NoWorker, WorkerFields
<1>2. <<>> \in Seq(Event) /\ Len(<<>>) = 0
  BY EmptySeq
<1>3. IsPrefix(<<>>, <<>>)
  BY <1>2, PrefixSelf
<1>4. worker'.events = <<>> /\ file'.events = <<>> /\ worker'.calls = 0
      /\ worker'.pc \in {"off", "starting"}
  BY <1>1
<1>5. WorkerOK'
  BY <1>1, <1>2, <1>4 DEF WorkerOK
<1>6. IsPrefix(file'.events, worker'.events)
  BY <1>3, <1>4
<1>7. Len(worker'.events) = 0
  BY <1>2, <1>4
<1>8. 1..Len(worker'.events) = {} /\ worker'.calls - Len(worker'.events) = 0
  BY <1>4, <1>7, 1..0 = {}, 0 - 0 = 0, Zenon
<1> QED
  BY <1>4, <1>5, <1>6, <1>8 DEF EventsFollowCalls

(* Every step: the file is the worker's while the harness waits for it.     *)
LEMMA EventsKeep == EpisodeAssumption /\ RInv /\ EventsInv /\ [EpisodeNext]_vars => EventsInv'
<1> SUFFICES ASSUME EpisodeAssumption, RInv, EventsInv, [EpisodeNext]_vars PROVE EventsInv'
  OBVIOUS
<1> USE DEF EventsInv
<1>1. CASE UNCHANGED <<worker, file>> /\ (harness'.pc = harness.pc \/ harness'.pc \notin {"idle", "resetting"})
  BY <1>1 DEF WorkerOK, FileOK, EventsFollowCalls
<1>2. CASE WorkerStep
  <2>1. harness' = harness /\ harness.pc = "policy"
    BY <1>2 DEF WorkerStep, WorkerAttaches, AttachAnswered, SensorCall, MotionCall, StepAnswered,
       CallReturns, PolicyReturns, WorkerExits, Worker, RInv, PartiesOK
  <2> QED
    BY <1>2, <2>1, WorkerEvents DEF FileOK
<1>3. CASE RunBegins
  <2>1. UNCHANGED <<worker, file>> /\ harness.pc = "idle"
    BY <1>3 DEF RunBegins, Harness
  <2> QED
    BY <2>1 DEF WorkerOK, FileOK, EventsFollowCalls
<1>4. CASE CloseAnswered
  <2>1. worker' = NoWorker /\ file'.events = <<>>
    BY <1>4 DEF CloseAnswered, NoWorker, NoFile
  <2>2. <<>> \in Seq(Event)
    BY EmptySeq
  <2> QED
    BY <2>1, <2>2, FreshEvents DEF FileOK
<1>5. CASE PolicyTimesOut
  <2>1. file' = file /\ worker' = [worker EXCEPT !.pc = "off"]
        /\ harness' = [harness EXCEPT !.pc = "refreshing", !.exec = harness'.exec]
    BY <1>5 DEF PolicyTimesOut, Refreshing
  <2>2. harness'.pc = "refreshing"
    BY <2>1 DEF RInv, PartiesOK
  <2>3. /\ WorkerFields \subseteq DOMAIN worker' /\ worker'.calls = worker.calls
        /\ worker'.asked = worker.asked /\ worker'.events = worker.events /\ worker'.seq = worker.seq
        /\ worker'.pc = "off"
    BY <2>1 DEF WorkerOK, WorkerFields
  <2>4. worker'.calls - Len(worker.events) \in Open(worker'.pc)
    BY <2>3 DEF EventsFollowCalls, Open
  <2> QED
    BY <2>1, <2>2, <2>3, <2>4, NoNewEvent DEF WorkerOK, FileOK
<1>6. CASE ResetAnswered
  <2>1. file' = file /\ file.events = <<>> /\ <<>> \in Seq(Event)
    BY <1>6, EmptySeq DEF ResetAnswered, Harness, FileOK
  <2>2. worker' = worker \/ worker' = [NoWorker EXCEPT !.pc = "starting"]
    BY <1>6 DEF ResetAnswered
  <2>3. CASE worker' = worker
    BY <2>1, <2>3 DEF WorkerOK, FileOK, EventsFollowCalls
  <2> QED
    BY <2>1, <2>2, <2>3, FreshEvents DEF FileOK
<1>7. CASE HarnessStep /\ ~(CloseAnswered \/ PolicyTimesOut \/ ResetAnswered)
  <2>1. UNCHANGED <<worker, file>> /\ "pc" \in DOMAIN harness
    BY <1>7 DEF HarnessStep, ReferenceAnswered, NoOpStepAnswered, PolicyOver, RefreshAnswered,
       VerdictAnswered, RInv, PartiesOK
  <2>2. harness'.pc \notin {"idle", "resetting"}
    <3>1. \A h : "pc" \in DOMAIN h /\ (FailedRun(h) \/ Checking(h)) =>
                 harness'.pc \in {"closing", "checking"}
      BY DEF FailedRun, Checking
    <3>2. CASE ReferenceAnswered \/ RefreshAnswered
      BY <2>1, <3>1, <3>2 DEF ReferenceAnswered, RefreshAnswered
    <3>3. CASE NoOpStepAnswered
      <4> DEFINE h == Acknowledged(harness, "harness")
      <4>1. "pc" \in DOMAIN h /\ h.pc = "stepping"
        BY <2>1, <3>3 DEF NoOpStepAnswered, Acknowledged, Harness
      <4> HIDE DEF h
      <4> QED
        BY <2>1, <3>1, <3>3, <4>1 DEF NoOpStepAnswered, h
    <3>4. CASE PolicyOver
      BY <2>1, <3>4 DEF PolicyOver, Refreshing
    <3>5. CASE VerdictAnswered
      <4>1. CASE \E v : harness' = [harness EXCEPT !.pc = "closing", !.status = "completed",
                                                   !.verdict = v]
        BY <2>1, <4>1
      <4> QED
        BY <2>1, <3>1, <3>5, <4>1 DEF VerdictAnswered
    <3> QED
      BY <1>7, <3>2, <3>3, <3>4, <3>5 DEF HarnessStep
  <2> QED
    BY <1>1, <2>1, <2>2
<1>8. CASE ServiceStep
  BY <1>1, <1>8 DEF ServiceStep
<1>9. CASE UNCHANGED vars
  BY <1>1, <1>9 DEF vars
<1> QED
  BY <1>2, <1>3, <1>4, <1>5, <1>6, <1>7, <1>8, <1>9 DEF EpisodeNext, HarnessStep

(* The invariant of the events is inductive.                                *)
LEMMA EventsInvariant == EpisodeSpec => []EventsInv
<1>1. EpisodeInit => EventsInv
  <2> SUFFICES ASSUME EpisodeInit PROVE EventsInv
    OBVIOUS
  <2>1. worker = NoWorker /\ file.events = <<>>
    BY DEF EpisodeInit, NoFile
  <2>2. /\ WorkerFields \subseteq DOMAIN worker /\ worker.calls = 0 /\ worker.asked = {}
        /\ worker.events = <<>> /\ worker.seq = 0 /\ worker.pc = "off"
    BY <2>1 DEF NoWorker, WorkerFields
  <2>3. <<>> \in Seq(Event) /\ Len(<<>>) = 0
    BY EmptySeq
  <2>4. IsPrefix(<<>>, <<>>)
    BY <2>3, PrefixSelf
  <2>5. WorkerOK /\ FileOK
    BY <2>1, <2>2, <2>3 DEF WorkerOK, FileOK
  <2>6. IsPrefix(file.events, worker.events) /\ Len(worker.events) = 0
    BY <2>1, <2>2, <2>3, <2>4
  <2>7. 1..Len(worker.events) = {} /\ worker.calls - Len(worker.events) = 0
    BY <2>2, <2>6, 1..0 = {}, 0 - 0 = 0, Zenon
  <2> QED
    BY <2>2, <2>5, <2>6, <2>7 DEF EventsInv, EventsFollowCalls
<1> QED
  BY <1>1, EpisodeInvariant, EventsKeep, EpisodeAssumption, PTL DEF EpisodeSpec

(* Each call of the policy has its event, in order, whether it returned,    *)
(* raised or lost its sink, and a kill loses at most the last (facade.py:302-343). *)
THEOREM EventsFollowCallsHolds == EpisodeSpec => []EventsFollowCalls
<1>1. EventsInv => EventsFollowCalls
  BY DEF EventsInv
<1> QED
  BY <1>1, EventsInvariant, PTL

-----------------------------------------------------------------------------
(* What the service remembers and what the verdict is about.  A robot step  *)
(* must reach the episode it was asked for, and it does since the queue is  *)
(* FIFO and an episode begins and ends by requests of its own.              *)
Moving == {"step", "reference"}
Ending == {"reset", "close"}

BackendRec == [env : Nat, ep : Nat, seed : Nat, raw : [ep : Nat, n : Nat], trace : Seq(Nat)]

(* BackendCoherent for a backend b, when the robot made the moves mv.       *)
Remembers(b, mv) ==
  b.raw # NoView =>
    /\ b.seed \in Episodes /\ b.raw.ep = b.seed
    /\ Len(b.trace) <= b.raw.n /\ b.raw.n <= Len(mv[b.seed])
    /\ \A i \in 1..Len(b.trace) : \E j \in 1..Len(mv[b.seed]) : mv[b.seed][j] = b.trace[i]

(* Episode e was begun by a request that is served.                         *)
Past(e) == e <= sent /\ \A i \in 1..Len(queue) : e < queue[i].id

SimOK ==
  /\ sent <= MaxRequests
  /\ moves \in [Episodes -> Seq(Nat)]
  /\ \A e \in Episodes : moves[e] # <<>> => Past(e)
  /\ \/ backend = NoBackend
     \/ backend \in BackendRec /\ backend.ep \in Episodes /\ Past(backend.ep) /\ Remembers(backend, moves)

(* The environment is in another episode than the backend remembers, or the *)
(* robot somewhere else than it was last seen.                              *)
Here  == [ep |-> backend.ep, n |-> Len(moves[backend.ep])]
Stale == backend # NoBackend /\ (backend.raw = NoView \/ backend.ep # backend.seed)
Lag   == backend # NoBackend /\ backend.raw # Here

Pending(ops) == \E i \in 1..Len(queue) : queue[i].op \in ops

(* The harness is at work on an episode, itself or through its policy.      *)
InEpisode == {"reference", "stepping", "policy", "refreshing"}

(* No step waits behind the end of its episode, or for a stale backend.     *)
QueueOK ==
  /\ \A i, j \in 1..Len(queue) : i < j /\ queue[i].op \in Ending => queue[j].op \notin Moving
  /\ Stale => ~Pending(Moving)
  /\ harness.pc \in InEpisode => ~Stale /\ ~Pending(Ending)

(* What the harness waits for is the last request; what it was answered is  *)
(* where the robot is.                                                      *)
Request == [resetting |-> "reset", reference |-> "reference", stepping |-> "step",
            refreshing |-> "observation", checking |-> "success"]

WaitOK ==
  harness.pc \in DOMAIN Request =>
    /\ answer["harness"] = NoAnswer =>
         /\ queue # <<>> /\ queue[Len(queue)].id = call["harness"]
         /\ queue[Len(queue)].from = "harness" /\ queue[Len(queue)].op = Request[harness.pc]
         /\ harness.pc \in {"reference", "stepping", "checking"} => Len(queue) = 1
    /\ answer["harness"] \notin {NoAnswer, Error} =>
         /\ queue = <<>> /\ backend # NoBackend
         /\ Taken(answer["harness"]) = [obs |-> backend.raw, now |-> Here]
         /\ harness.pc = "resetting" => ~Lag
    /\ harness.pc \in {"reference", "stepping"} /\ answer["harness"] # Error => ~Lag

Failed(events) == \E e \in ToSet(events) : e.status = "failed"

(* The call that is open has failed, or one before it.                      *)
Evidence ==
  \/ Failed(worker.events)
  \/ worker.pc = "returning" /\ worker.raises
  \/ worker.pc = "moving" /\ answer["worker"] = Error

Awaited(i) ==
  /\ worker.pc = "moving" /\ answer["worker"] = NoAnswer
  /\ queue[i].from = "worker" /\ queue[i].id = call["worker"]

PolicyOK ==
  /\ harness.pc = "policy" =>
       /\ Lag => Evidence
       /\ \A i \in 1..Len(queue) : queue[i].op \in Moving => Evidence \/ Awaited(i)
  /\ worker.pc = "exited" /\ worker.code = 0 => file.events = worker.events

OnVerdict(r, events) == r.final.now = r.verdict /\ (r.final.obs = r.verdict \/ Failed(events))

RecordOK ==
  /\ harness.pc = "refreshing" /\ harness.exec.status = "completed" /\ (Lag \/ Pending(Moving)) =>
       Failed(harness.exec.events)
  /\ harness.pc = "checking" /\ answer["harness"] # Error =>
       /\ harness.final = [obs |-> backend.raw, now |-> Here]
       /\ Lag => Failed(harness.exec.events)
  /\ harness.pc = "closing" /\ harness.status = "completed" => OnVerdict(harness, harness.exec.events)
  /\ report.status = "completed" => OnVerdict(report, report.events)

FieldsOK ==
  /\ {"pc", "last", "exec", "status", "final", "verdict"} \subseteq DOMAIN harness
  /\ {"raises", "code"} \subseteq DOMAIN worker

VInv == FieldsOK /\ SimOK /\ QueueOK /\ WaitOK /\ PolicyOK /\ RecordOK

(* Sim after the first request r is handled: what the backend remembers     *)
(* fits, and it is in its old episode or in the one of r.                   *)
SimFits(r) ==
  /\ moves' \in [Episodes -> Seq(Nat)]
  /\ \A e \in Episodes : moves'[e] = moves[e] \/ (backend # NoBackend /\ e = backend.ep)
  /\ \/ backend' = NoBackend
     \/ /\ backend' \in BackendRec /\ backend'.ep \in Episodes /\ Remembers(backend', moves')
        /\ backend'.ep = r.id \/ (backend # NoBackend /\ backend'.ep = backend.ep)

(* An answer a to request r shows where the robot is; only a step that      *)
(* raises leaves it elsewhere.                                              *)
Truthful(r, a) ==
  /\ "ok" \in DOMAIN a
  /\ a = Error \/ r.op = "close" \/ (backend' # NoBackend /\ Taken(a) = [obs |-> backend'.raw, now |-> Here'])
  /\ a # Error /\ r.op = "reset" => ~Lag'
  /\ a # Error /\ r.op \in Moving /\ Lag' => Lag

(* A backend record is not the absence of one.                              *)
LEMMA BackendIsRecord ==
  ASSUME NEW b \in BackendRec
  PROVE  b # NoBackend /\ b.raw \in [ep : Nat, n : Nat] /\ b.trace \in Seq(Nat)
<1>1. "ep" \in DOMAIN b /\ "ep" \notin DOMAIN NoBackend
  BY DEF BackendRec, NoBackend
<1>2. b.raw \in [ep : Nat, n : Nat] /\ b.trace \in Seq(Nat)
  BY DEF BackendRec
<1> QED
  BY <1>1, <1>2

(* A new backend remembers nothing yet.                                     *)
LEMMA NewRemembers ==
  ASSUME NEW id \in Episodes, ServiceAssumption
  PROVE  /\ NewBackend(id) \in BackendRec /\ NewBackend(id).ep = id
         /\ Remembers(NewBackend(id), moves)
<1>1. id \in Nat /\ <<>> \in Seq(Nat)
  BY EmptySeq DEF Episodes
<1>2. NewBackend(id) \in BackendRec
  BY <1>1 DEF NewBackend, NoView, BackendRec
<1>3. NewBackend(id).raw = NoView /\ NewBackend(id).ep = id
  BY DEF NewBackend
<1> QED
  BY <1>2, <1>3 DEF Remembers

(* A reset, raising or not.                                                 *)
LEMMA ResetFits ==
  ASSUME ServiceAssumption, moves \in [Episodes -> Seq(Nat)], UNCHANGED moves,
         NEW r, r.op = "reset", r.id \in Episodes, moves[r.id] = <<>>,
         NEW b \in BackendRec, b.ep \in Episodes, Remembers(b, moves),
         b.ep = r.id \/ (backend # NoBackend /\ b.ep = backend.ep),
         NEW cfg, NEW L, EnvReset(r, b, cfg, L)
  PROVE  SimFits(r) /\ \E a : Reply(r, a) /\ Truthful(r, a)
<1> DEFINE g == Begun(b, r.id)
           v == [View(g, cfg) EXCEPT !.now = [ep |-> r.id, n |-> 0]]
<1>1. r.id \in Nat /\ <<>> \in Seq(Nat) /\ Len(<<>>) = 0 /\ r.id # 0
  BY EmptySeq DEF Episodes, ServiceAssumption
<1>2. CASE backend' \in {b, [b EXCEPT !.ep = r.id]} /\ Reply(r, Error)
  <2>1. /\ backend' \in BackendRec /\ backend'.ep \in {b.ep, r.id}
        /\ backend'.raw = b.raw /\ backend'.seed = b.seed /\ backend'.trace = b.trace
    BY <1>1, <1>2 DEF BackendRec
  <2>2. Remembers(backend', moves')
    BY <2>1 DEF Remembers
  <2>3. Truthful(r, Error)
    BY DEF Truthful, Error, Moving
  <2> QED
    BY <1>2, <2>1, <2>2, <2>3 DEF SimFits
<1>3. CASE backend' = g /\ (Reply(r, v) \/ Reply(r, Error))
  <2>1. /\ g \in BackendRec /\ g.ep = r.id /\ g.seed = r.id /\ g.raw = [ep |-> r.id, n |-> 0] /\ g.trace = <<>>
    BY <1>1 DEF Begun, BackendRec
  <2>2. Remembers(g, moves)
    BY <1>1, <2>1 DEF Remembers
  <2>3. "ok" \in DOMAIN v /\ v.obs = g.raw /\ v.now = [ep |-> r.id, n |-> 0]
    BY DEF View
  <2>4. /\ backend' \in BackendRec /\ backend'.ep = r.id /\ backend'.raw = [ep |-> r.id, n |-> 0]
        /\ v.obs = backend'.raw /\ Remembers(backend', moves')
    <3> HIDE DEF g, v
    <3> QED
      BY <1>3, <2>1, <2>2, <2>3
  <2>5. backend' # NoBackend
    BY <2>4, BackendIsRecord
  <2>6. Here' = [ep |-> r.id, n |-> 0]
    BY <1>1, <2>4 DEF Here
  <2>7. ~Lag'
    BY <2>4, <2>6 DEF Lag
  <2> HIDE DEF v, g
  <2>8. Truthful(r, v) /\ Truthful(r, Error)
    BY <2>3, <2>4, <2>5, <2>6, <2>7 DEF Truthful, Error, Moving, Taken
  <2>9. SimFits(r)
    BY <2>4 DEF SimFits
  <2> QED
    BY <1>3, <2>8, <2>9
<1> QED
  BY <1>2, <1>3 DEF EnvReset, Observed

(* The steps one request makes, at the end of a sequence of steps.          *)
LEMMA Longer ==
  ASSUME NEW s \in Seq(Nat), NEW id \in Nat, NEW k \in Nat
  PROVE  LET t == s \o [i \in 1..k |-> id]
         IN  /\ t \in Seq(Nat) /\ Len(t) = Len(s) + k
             /\ \A i \in 1..Len(s) : t[i] = s[i]
             /\ \A i \in 1..k : t[Len(s) + i] = id
<1> DEFINE c == [i \in 1..k |-> id]
<1>1. c \in Seq(Nat) /\ Len(c) = k /\ \A i \in 1..k : c[i] = id
  <2>1. c \in [1..k -> Nat]
    OBVIOUS
  <2>2. c \in Seq(Nat)
    BY <2>1, SeqDef
  <2>3. DOMAIN c = 1..k
    OBVIOUS
  <2> QED
    BY <2>2, <2>3, LenProperties
<1> HIDE DEF c
<1>2. /\ s \o c \in Seq(Nat) /\ Len(s \o c) = Len(s) + Len(c)
      /\ \A i \in 1..(Len(s) + Len(c)) : (s \o c)[i] = IF i <= Len(s) THEN s[i] ELSE c[i - Len(s)]
  BY <1>1, ConcatProperties
<1>3. Len(s) \in Nat
  BY LenProperties
<1>4. \A i \in 1..Len(s) : (s \o c)[i] = s[i]
  BY <1>1, <1>2, <1>3
<1>5. \A i \in 1..k : (s \o c)[Len(s) + i] = id
  <2> SUFFICES ASSUME NEW i \in 1..k PROVE (s \o c)[Len(s) + i] = id
    OBVIOUS
  <2>1. Len(s) + i \in 1..(Len(s) + Len(c)) /\ ~(Len(s) + i <= Len(s)) /\ Len(s) + i - Len(s) = i
    BY <1>1, <1>3
  <2> QED
    BY <1>1, <1>2, <2>1
<1> QED
  BY <1>1, <1>2, <1>4, <1>5 DEF c

(* No step, no change.                                                      *)
LEMMA NoLonger ==
  ASSUME NEW s \in Seq(Nat), NEW id
  PROVE  s \o [i \in 1..0 |-> id] = s
<1>1. [i \in 1..0 |-> id] = <<>>
  OBVIOUS
<1> QED
  BY <1>1, ConcatEmptySeq

(* The service remembers k of the j steps a request made, and saw the robot *)
(* after n.                                                                 *)
Remembered(id, k, j, n) ==
  /\ k \in Nat /\ j \in Nat /\ n \in Nat /\ k <= j
  /\ Len(backend.trace) + k <= n /\ n <= Len(moves[backend.ep]) + j
  /\ backend' = [backend EXCEPT !.raw = [ep |-> backend.ep, n |-> n],
                                !.trace = backend.trace \o [i \in 1..k |-> id]]
  /\ moves' = Moved(id, j)

(* The backend is there, and in the episode it remembers.                   *)
Bound ==
  /\ moves \in [Episodes -> Seq(Nat)] /\ backend \in BackendRec /\ backend.ep \in Episodes
  /\ backend.seed = backend.ep /\ backend.raw.ep = backend.ep /\ backend.raw # NoView
  /\ backend.raw = [ep |-> backend.ep, n |-> backend.raw.n] /\ backend.raw.n \in Nat
  /\ Remembers(backend, moves)

(* A backend that remembers its own episode can be stepped.                 *)
LEMMA BoundBackend ==
  ASSUME ServiceAssumption, SimOK, backend # NoBackend, ~Stale
  PROVE  Bound
<1>1. backend \in BackendRec /\ Remembers(backend, moves) /\ moves \in [Episodes -> Seq(Nat)]
      /\ backend.ep \in Episodes
  BY DEF SimOK
<1>2. backend.raw # NoView /\ backend.ep = backend.seed
  BY DEF Stale
<1>3. backend.raw \in [ep : Nat, n : Nat]
  BY <1>1, BackendIsRecord
<1>4. backend.raw = [ep |-> backend.raw.ep, n |-> backend.raw.n] /\ backend.raw.n \in Nat
  BY <1>3
<1>5. backend.raw.ep = backend.ep
  BY <1>1, <1>2 DEF Remembers
<1> QED
  BY <1>1, <1>2, <1>4, <1>5 DEF Bound

(* Steps that are remembered, all or all but the last, keep the backend and *)
(* the moves in agreement.                                                  *)
LEMMA StepsFit ==
  ASSUME ServiceAssumption, Bound, NEW r, r.id \in Nat,
         NEW k, NEW j, NEW n, Remembered(r.id, k, j, n)
  PROVE  SimFits(r) /\ ~Stale' /\ backend' # NoBackend
<1> DEFINE e == backend.ep
           s == moves[e]
           t == s \o [i \in 1..j |-> r.id]
           u == backend.trace \o [i \in 1..k |-> r.id]
<1>1. /\ k \in Nat /\ j \in Nat /\ n \in Nat /\ k <= j /\ e \in Episodes /\ e \in Nat /\ e # 0
      /\ s \in Seq(Nat) /\ backend.trace \in Seq(Nat) /\ Len(s) \in Nat /\ Len(backend.trace) \in Nat
      /\ Len(backend.trace) + k <= n /\ n <= Len(s) + j
  <2>1. e \in Episodes /\ s \in Seq(Nat) /\ backend.trace \in Seq(Nat)
    BY BackendIsRecord DEF Bound
  <2> QED
    BY <2>1, LenProperties DEF Remembered, Episodes, ServiceAssumption
<1>2. /\ t \in Seq(Nat) /\ Len(t) = Len(s) + j
      /\ \A i \in 1..Len(s) : t[i] = s[i]
      /\ \A i \in 1..j : t[Len(s) + i] = r.id
  BY <1>1, Longer
<1>3. /\ u \in Seq(Nat) /\ Len(u) = Len(backend.trace) + k
      /\ \A i \in 1..Len(backend.trace) : u[i] = backend.trace[i]
      /\ \A i \in 1..k : u[Len(backend.trace) + i] = r.id
  BY <1>1, Longer
<1>4. moves' = [moves EXCEPT ![e] = t] /\ moves' \in [Episodes -> Seq(Nat)] /\ moves'[e] = t
      /\ \A x \in Episodes : x # e => moves'[x] = moves[x]
  <2>1. moves' = [moves EXCEPT ![e] = t]
    BY DEF Remembered, Moved
  <2> HIDE DEF t, e
  <2> QED
    BY <1>1, <1>2, <2>1 DEF Bound
<1>5. /\ backend' \in BackendRec /\ backend'.ep = e /\ backend'.seed = e
      /\ backend'.raw = [ep |-> e, n |-> n] /\ backend'.trace = u
  <2>1. backend' = [backend EXCEPT !.raw = [ep |-> e, n |-> n], !.trace = u]
    BY DEF Remembered
  <2>2. backend \in BackendRec /\ backend.ep = e /\ backend.seed = e
    BY DEF Bound
  <2> HIDE DEF e, u
  <2> QED
    BY <1>1, <1>3, <2>1, <2>2 DEF BackendRec
<1>6. \A i \in 1..Len(u) : \E x \in 1..Len(t) : t[x] = u[i]
  <2> HIDE DEF s, t, u, e
  <2> SUFFICES ASSUME NEW i \in 1..Len(u) PROVE \E x \in 1..Len(t) : t[x] = u[i]
    OBVIOUS
  <2>1. CASE i \in 1..Len(backend.trace)
    <3>1. PICK x \in 1..Len(s) : s[x] = backend.trace[i]
      BY <2>1 DEF Bound, Remembers, s, e
    <3>2. x \in 1..Len(t)
      BY <1>1, <1>2
    <3>3. t[x] = s[x] /\ u[i] = backend.trace[i]
      BY <1>2, <1>3, <2>1
    <3> QED
      BY <3>1, <3>2, <3>3
  <2>2. CASE i \notin 1..Len(backend.trace)
    <3>1. i - Len(backend.trace) \in 1..k /\ Len(backend.trace) + (i - Len(backend.trace)) = i
      BY <1>1, <1>3, <2>2
    <3>2. u[i] = r.id
      BY <1>3, <3>1
    <3>3. 1 \in 1..j /\ Len(s) + 1 \in 1..Len(t)
      BY <1>1, <1>2, <3>1
    <3> QED
      BY <1>2, <3>2, <3>3
  <2> QED
    BY <2>1, <2>2
<1>7. Remembers(backend', moves')
  <2> HIDE DEF s, t, u, e
  <2>1. /\ backend'.raw.ep = e /\ backend'.raw.n = n /\ Len(u) <= n /\ n <= Len(t)
    BY <1>1, <1>2, <1>3, <1>5
  <2> QED
    BY <1>1, <1>4, <1>5, <1>6, <2>1 DEF Remembers
<1>8. backend' # NoBackend /\ backend'.raw # NoView
  BY <1>1, <1>5, BackendIsRecord DEF NoView
<1>9. ~Stale'
  BY <1>5, <1>8 DEF Stale
<1>10. backend # NoBackend
  BY BackendIsRecord DEF Bound
<1> HIDE DEF e, t, u, s
<1> QED
  BY <1>1, <1>4, <1>5, <1>7, <1>8, <1>9, <1>10 DEF SimFits, e

(* What the backend is after k complete steps, none of them included.       *)
LEMMA SteppedIs ==
  ASSUME Bound, NEW id \in Nat, NEW k \in Nat
  PROVE  LET n == IF k = 0 THEN backend.raw.n ELSE Len(moves[backend.ep]) + k
         IN  /\ n \in Nat /\ Len(backend.trace) + k <= n /\ n <= Len(moves[backend.ep]) + k
             /\ Stepped(id, k) = [backend EXCEPT !.raw = [ep |-> backend.ep, n |-> n],
                                                 !.trace = backend.trace \o [i \in 1..k |-> id]]
<1> DEFINE u == backend.trace \o [i \in 1..k |-> id]
<1>1. /\ backend \in BackendRec /\ backend.raw = [ep |-> backend.ep, n |-> backend.raw.n]
      /\ backend.raw.n \in Nat /\ backend.trace \in Seq(Nat) /\ backend.ep \in Nat
      /\ Len(backend.trace) \in Nat /\ Len(moves[backend.ep]) \in Nat
      /\ Len(backend.trace) <= backend.raw.n /\ backend.raw.n <= Len(moves[backend.ep])
  <2>1. backend.trace \in Seq(Nat) /\ moves[backend.ep] \in Seq(Nat)
    BY BackendIsRecord DEF Bound
  <2> QED
    BY <2>1, LenProperties DEF Bound, Remembers, BackendRec
<1>2. CASE k = 0
  <2>1. u = backend.trace
    BY <1>1, <1>2, NoLonger
  <2> HIDE DEF u
  <2>2. backend = [backend EXCEPT !.raw = [ep |-> backend.ep, n |-> backend.raw.n], !.trace = u]
    BY <1>1, <2>1 DEF BackendRec
  <2>3. Stepped(id, k) = backend
    BY <1>2 DEF Stepped
  <2>4. Len(backend.trace) + k <= backend.raw.n /\ backend.raw.n <= Len(moves[backend.ep]) + k
    BY <1>1, <1>2
  <2> QED
    BY <1>1, <1>2, <2>2, <2>3, <2>4 DEF u
<1>3. CASE k # 0
  <2> DEFINE n == Len(moves[backend.ep]) + k
  <2>1. n \in Nat /\ Len(backend.trace) + k <= n /\ n <= Len(moves[backend.ep]) + k
    BY <1>1
  <2>2. Stepped(id, k) = [backend EXCEPT !.raw = [ep |-> backend.ep, n |-> n], !.trace = u]
    BY <1>3 DEF Stepped
  <2> QED
    BY <1>3, <2>1, <2>2
<1> QED
  BY <1>2, <1>3

(* Where the robot is after j steps.                                        *)
LEMMA MovedHere ==
  ASSUME Bound, NEW id \in Nat, NEW j \in Nat, moves' = Moved(id, j), backend'.ep = backend.ep
  PROVE  Here' = [ep |-> backend.ep, n |-> Len(moves[backend.ep]) + j]
<1> DEFINE t == moves[backend.ep] \o [i \in 1..j |-> id]
<1>1. moves[backend.ep] \in Seq(Nat) /\ backend.ep \in Episodes
  BY DEF Bound
<1>2. Len(t) = Len(moves[backend.ep]) + j
  BY <1>1, Longer
<1>3. moves' = [moves EXCEPT ![backend.ep] = t]
  BY DEF Moved
<1> HIDE DEF t
<1>4. moves'[backend.ep] = t
  BY <1>1, <1>3 DEF Bound
<1> QED
  BY <1>2, <1>4 DEF Here

(* A step that raises after k complete ones.                                *)
LEMMA RaisesFits ==
  ASSUME ServiceAssumption, Bound, NEW r, r.id \in Nat, NEW k \in Nat, StepRaises(r, k)
  PROVE  SimFits(r) /\ ~Stale' /\ backend' # NoBackend
<1> DEFINE n == IF k = 0 THEN backend.raw.n ELSE Len(moves[backend.ep]) + k
           m == Len(moves[backend.ep]) + k + 1
           u == backend.trace \o [i \in 1..k |-> r.id]
<1>1. /\ n \in Nat /\ Len(backend.trace) + k <= n /\ n <= Len(moves[backend.ep]) + k
      /\ Stepped(r.id, k) = [backend EXCEPT !.raw = [ep |-> backend.ep, n |-> n], !.trace = u]
  BY SteppedIs
<1>2. Len(moves[backend.ep]) \in Nat /\ k + 1 \in Nat /\ Len(backend.trace) \in Nat
  BY BackendIsRecord, LenProperties DEF Bound
<1>3. Stepped(r.id, k + 1).raw = [ep |-> backend.ep, n |-> m] /\ "raw" \in DOMAIN backend
  <2>1. k + 1 # 0 /\ Len(moves[backend.ep]) + (k + 1) = m
    <3> DEFINE l == Len(moves[backend.ep])
    <3>1. l \in Nat
      BY <1>2
    <3> HIDE DEF l
    <3>2. k + 1 # 0 /\ l + (k + 1) = l + k + 1
      BY <3>1
    <3> QED
      BY <3>2 DEF l
  <2>2. "raw" \in DOMAIN backend
    BY DEF Bound, BackendRec
  <2> QED
    BY <2>1, <2>2 DEF Stepped
<1>4. CASE backend' = Stepped(r.id, k) /\ moves' \in {Moved(r.id, k), Moved(r.id, k + 1)}
  <2>1. PICK j \in {k, k + 1} : moves' = Moved(r.id, j)
    BY <1>4
  <2>2. j \in Nat /\ k <= j /\ n <= Len(moves[backend.ep]) + j
    BY <1>1, <1>2
  <2> HIDE DEF n, u
  <2>3. Remembered(r.id, k, j, n)
    BY <1>1, <1>4, <2>1, <2>2 DEF Remembered, u
  <2> QED
    BY <2>3, StepsFit
<1>5. CASE backend' = [Stepped(r.id, k) EXCEPT !.raw = Stepped(r.id, k + 1).raw]
           /\ moves' = Moved(r.id, k + 1)
  <2>1. m \in Nat /\ Len(backend.trace) + k <= m /\ m <= Len(moves[backend.ep]) + (k + 1) /\ k <= k + 1
    BY <1>1, <1>2
  <2>2. backend' = [backend EXCEPT !.raw = [ep |-> backend.ep, n |-> m], !.trace = u]
    <3> HIDE DEF n, m, u
    <3> QED
      BY <1>1, <1>3, <1>5
  <2> HIDE DEF m, u
  <2>3. Remembered(r.id, k, k + 1, m)
    BY <1>2, <1>5, <2>1, <2>2 DEF Remembered, u
  <2> QED
    BY <1>2, <2>3, StepsFit
<1> QED
  BY <1>4, <1>5 DEF StepRaises

(* k complete steps: if there is one at least, the robot was seen after it. *)
LEMMA CompleteFits ==
  ASSUME ServiceAssumption, Bound, NEW r, r.id \in Nat, r.op \in Moving, NEW k \in Nat,
         backend' = Stepped(r.id, k), moves' = Moved(r.id, k)
  PROVE  /\ SimFits(r) /\ ~Stale' /\ backend' # NoBackend
         /\ Here' = [ep |-> backend.ep, n |-> Len(moves[backend.ep]) + k]
         /\ Lag' => Lag
<1> DEFINE n == IF k = 0 THEN backend.raw.n ELSE Len(moves[backend.ep]) + k
           u == backend.trace \o [i \in 1..k |-> r.id]
<1>1. /\ n \in Nat /\ Len(backend.trace) + k <= n /\ n <= Len(moves[backend.ep]) + k
      /\ Stepped(r.id, k) = [backend EXCEPT !.raw = [ep |-> backend.ep, n |-> n], !.trace = u]
  BY SteppedIs
<1>2. Remembered(r.id, k, k, n)
  <2> HIDE DEF n, u
  <2> QED
    BY <1>1 DEF Remembered, u
<1>3. SimFits(r) /\ ~Stale' /\ backend' # NoBackend
  BY <1>2, StepsFit
<1>4. backend'.ep = backend.ep /\ backend'.raw = [ep |-> backend.ep, n |-> n]
  <2>1. backend \in BackendRec
    BY DEF Bound
  <2> HIDE DEF n, u
  <2> QED
    BY <1>1, <2>1 DEF BackendRec
<1>5. Here' = [ep |-> backend.ep, n |-> Len(moves[backend.ep]) + k]
  BY <1>4, MovedHere
<1>6. Lag' => Lag
  <2> SUFFICES ASSUME Lag' PROVE Lag
    OBVIOUS
  <2>1. n # Len(moves[backend.ep]) + k
    BY <1>4, <1>5 DEF Lag
  <2>2. k = 0 /\ backend.raw.n # Len(moves[backend.ep]) + k
    BY <2>1
  <2>3. backend.raw.n # Len(moves[backend.ep])
    BY <2>2, LenProperties DEF Bound
  <2>4. backend # NoBackend
    BY BackendIsRecord DEF Bound
  <2> QED
    BY <2>3, <2>4 DEF Lag, Here
<1> QED
  BY <1>3, <1>5, <1>6

(* A handler that changes nothing.                                          *)
LEMMA UnchangedFits ==
  ASSUME SimOK, NEW r, UNCHANGED <<backend, moves>>
  PROVE  SimFits(r) /\ (Stale' <=> Stale) /\ (Lag' <=> Lag) /\ Here' = Here
BY DEF SimOK, SimFits, Stale, Lag, Here

(* An error is never taken for the truth.                                   *)
LEMMA ErrorTruthful ==
  ASSUME NEW r
  PROVE  Truthful(r, Error)
BY DEF Truthful, Error

(* A view of the backend shows where the robot is.                          *)
LEMMA ViewTruthful ==
  ASSUME NEW r, r.op # "reset", backend' # NoBackend, r.op \in Moving /\ Lag' => Lag,
         NEW cfg, NEW a, "ok" \in DOMAIN a, a.obs = backend'.raw, a.now = Here'
  PROVE  Truthful(r, a)
BY DEF Truthful, Taken

(* A reset, whichever of its calls raises, and what it answers.             *)
LEMMA ServeResetFits ==
  ASSUME ServiceAssumption, SimOK, NEW r, r.op = "reset", r.id \in Episodes, moves[r.id] = <<>>,
         ServeReset(r)
  PROVE  SimFits(r) /\ \E a : Reply(r, a) /\ Truthful(r, a)
<1>1. UNCHANGED moves /\ moves \in [Episodes -> Seq(Nat)]
  BY DEF ServeReset, CloseRaises, SimOK
<1>2. CASE backend # NoBackend /\ EnvReset(r, backend, config, live)
  <2>1. backend \in BackendRec /\ backend.ep \in Episodes /\ Remembers(backend, moves)
    BY <1>2 DEF SimOK
  <2> QED
    BY <1>1, <1>2, <2>1, ResetFits
<1>3. CASE CloseRaises(r)
  BY <1>1, <1>3, UnchangedFits, ErrorTruthful DEF CloseRaises
<1>4. CASE backend' = NoBackend /\ Reply(r, Error)
  BY <1>1, <1>4, ErrorTruthful DEF SimFits
<1>5. CASE EnvReset(r, NewBackend(r.id), r.config, Closed \cup {r.id})
  <2> DEFINE b == NewBackend(r.id)
  <2>1. b \in BackendRec /\ b.ep = r.id /\ Remembers(b, moves)
    BY NewRemembers
  <2> HIDE DEF b
  <2>2. EnvReset(r, b, r.config, Closed \cup {r.id})
    BY <1>5 DEF b
  <2> QED
    BY <1>1, <2>1, <2>2, ResetFits
<1> QED
  BY <1>2, <1>3, <1>4, <1>5 DEF ServeReset

(* A request for steps, whichever of its calls raises, and what it answers. *)
LEMMA ServeMovingFits ==
  ASSUME ServiceAssumption, SimOK, ~Stale, NEW r, r.op \in Moving, r.id \in Episodes,
         ServeStep(r) \/ ServeReference(r)
  PROVE  SimFits(r) /\ ~Stale' /\ \E a : Reply(r, a) /\ Truthful(r, a)
<1>1. CASE Refused(r)
  BY <1>1, UnchangedFits, ErrorTruthful DEF Refused, simVars
<1>2. r.id \in Nat /\ r.op # "reset" /\ 0 \in Nat /\ 1 \in Nat
  BY DEF Episodes, ServiceAssumption, Moving
<1>3. BackendUsable => Bound
  BY BoundBackend DEF BackendUsable
<1>4. CASE BackendUsable /\ \E k \in Nat : StepRaises(r, k) /\ Reply(r, Error)
  BY <1>2, <1>3, <1>4, RaisesFits, ErrorTruthful
<1>5. CASE BackendUsable /\ \E k \in Nat : /\ backend' = Stepped(r.id, k) /\ moves' = Moved(r.id, k)
                                           /\ \/ Reply(r, Error)
                                              \/ Reply(r, [View(backend', config) EXCEPT
                                                   !.now = [ep |-> backend.ep, n |-> Len(moves'[backend.ep])]])
  <2>1. PICK k \in Nat : /\ backend' = Stepped(r.id, k) /\ moves' = Moved(r.id, k)
                         /\ \/ Reply(r, Error)
                            \/ Reply(r, [View(backend', config) EXCEPT
                                 !.now = [ep |-> backend.ep, n |-> Len(moves'[backend.ep])]])
    BY <1>5
  <2>2. /\ SimFits(r) /\ ~Stale' /\ backend' # NoBackend /\ (Lag' => Lag)
        /\ Here' = [ep |-> backend.ep, n |-> Len(moves[backend.ep]) + k]
    BY <1>2, <1>3, <1>5, <2>1, CompleteFits
  <2> DEFINE a == [View(backend', config) EXCEPT !.now = [ep |-> backend.ep, n |-> Len(moves'[backend.ep])]]
  <2>3. backend'.ep = backend.ep
    BY <1>3, <1>5, <2>1 DEF Stepped, Bound, BackendRec
  <2>4. "ok" \in DOMAIN a /\ a.obs = backend'.raw /\ a.now = Here'
    BY <2>3 DEF View, Here
  <2>5. Reply(r, Error) \/ Reply(r, a)
    BY <2>1
  <2> HIDE DEF a
  <2>6. Truthful(r, a) /\ Truthful(r, Error)
    BY <1>2, <2>2, <2>4, ViewTruthful, ErrorTruthful
  <2> QED
    BY <2>2, <2>5, <2>6
<1>6. CASE ServeStep(r)
  BY <1>1, <1>2, <1>4, <1>5, <1>6 DEF ServeStep
<1>7. CASE ServeReference(r)
  <2>1. 0..MaxReference \subseteq Nat
    BY DEF ServiceAssumption
  <2> QED
    BY <1>1, <1>4, <1>5, <1>7, <2>1 DEF ServeReference, Observed
<1> QED
  BY <1>6, <1>7

(* The same of every request that is served.                                *)
LEMMA HandleFits ==
  ASSUME ServiceAssumption, SimOK, NEW r, r.id \in Episodes, moves[r.id] = <<>>,
         r.op \in Moving => ~Stale, Handle(r)
  PROVE  /\ SimFits(r)
         /\ r.op \in Moving => ~Stale'
         /\ r.op \notin Moving \cup Ending => UNCHANGED <<backend, moves>>
         /\ \E a : Reply(r, a) /\ Truthful(r, a)
<1>1. CASE r.op = "reset" /\ ServeReset(r)
  BY <1>1, ServeResetFits DEF Moving, Ending
<1>2. CASE r.op \in Moving /\ (ServeStep(r) \/ ServeReference(r))
  BY <1>2, ServeMovingFits
<1>3. CASE r.op \notin Moving \cup Ending /\ (ServeObserve(r) \/ ServeSuccess(r))
  <2>1. UNCHANGED <<backend, moves>>
    BY <1>3 DEF ServeObserve, ServeSuccess, Refused, simVars
  <2>2. SimFits(r) /\ Here' = Here
    BY <2>1, UnchangedFits
  <2>3. Reply(r, Error) \/ (backend # NoBackend /\ Reply(r, View(backend, config)))
    BY <1>3 DEF ServeObserve, ServeSuccess, Refused, Observed, BackendUsable
  <2> DEFINE a == View(backend, config)
  <2>4. "ok" \in DOMAIN a /\ a.obs = backend'.raw /\ a.now = Here'
    BY <2>1 DEF View, Here, World
  <2>5. r.op # "reset" /\ r.op \notin Moving
    BY <1>3 DEF Ending
  <2> HIDE DEF a
  <2>6. backend # NoBackend => Truthful(r, a)
    BY <2>1, <2>4, <2>5, ViewTruthful
  <2> QED
    BY <1>3, <2>1, <2>2, <2>3, <2>6, ErrorTruthful DEF a
<1>4. CASE r.op = "close" /\ ServeClose(r)
  <2>1. r.op \in Ending /\ r.op \notin Moving
    BY <1>4 DEF Moving, Ending
  <2>2. CASE CloseRaises(r)
    BY <2>1, <2>2, UnchangedFits, ErrorTruthful DEF CloseRaises
  <2>3. CASE backend' = NoBackend /\ UNCHANGED moves /\ Reply(r, [ok |-> TRUE])
    <3>1. Truthful(r, [ok |-> TRUE])
      BY <1>4 DEF Truthful, Moving
    <3>2. SimFits(r)
      BY <2>3 DEF SimFits, SimOK
    <3> QED
      BY <2>1, <2>3, <3>1, <3>2
  <2> QED
    BY <1>4, <2>2, <2>3 DEF ServeClose
<1> QED
  <2>1. "step" \in Moving /\ "reference" \in Moving /\ "session" \notin Moving \cup Ending
        /\ "observation" \notin Moving \cup Ending /\ "success" \notin Moving \cup Ending
    BY DEF Moving, Ending
  <2> QED
    BY <1>1, <1>2, <1>3, <1>4, <2>1 DEF Handle

-----------------------------------------------------------------------------
(* The first request r leaves the queue, and what it was about is past.     *)
LEMMA ServeSim ==
  ASSUME EpisodeAssumption, ServiceAssumption, RInv, VInv, Serve
  PROVE  LET r == queue[1]
         IN  /\ SimOK'
             /\ SimFits(r)
             /\ r.op \in Moving => ~Stale'
             /\ r.op \notin Moving \cup Ending => UNCHANGED <<backend, moves>>
             /\ \E a : Reply(r, a) /\ Truthful(r, a)
             /\ UNCHANGED wireVars /\ queue # <<>> /\ Len(queue) \in Nat \ {0}
             /\ Len(queue') = Len(queue) - 1 /\ queue' \in Seq(Wire)
             /\ \A i \in 1..Len(queue') : queue'[i] = queue[i + 1]
<1> DEFINE r == queue[1]
<1>1. /\ queue # <<>> /\ Handle(r) /\ UNCHANGED wireVars
      /\ queue' = SubSeq(queue, 1, 0) \o SubSeq(queue, 2, Len(queue))
  BY DEF Serve, NextRequest
<1>2. WireOK /\ SimOK /\ QueueOK
  BY DEF RInv, VInv
<1>3. Len(queue) \in Nat \ {0}
  BY <1>1, <1>2, EmptySeq DEF WireOK
<1>4. r.id \in 1..sent /\ r.id \in Episodes /\ sent \in Nat
  BY <1>2, <1>3 DEF WireOK, SimOK, Episodes, ServiceAssumption
<1>5. moves[r.id] = <<>>
  <2>1. ~Past(r.id)
    BY <1>3, <1>4 DEF Past
  <2> QED
    BY <1>2, <1>4, <2>1 DEF SimOK
<1>6. r.op \in Moving => ~Stale
  BY <1>2, <1>3 DEF QueueOK, Pending
<1> HIDE DEF r
<1>7. /\ SimFits(r)
      /\ r.op \in Moving => ~Stale'
      /\ r.op \notin Moving \cup Ending => UNCHANGED <<backend, moves>>
      /\ \E a : Reply(r, a) /\ Truthful(r, a)
  BY <1>1, <1>2, <1>4, <1>5, <1>6, HandleFits
<1>8. /\ WireOK' /\ Len(queue') = Len(queue) - 1
      /\ \A i \in 1..Len(queue') : queue'[i] = queue[i + 1]
  <2>1. DOMAIN answer' = Clients
    BY <1>2, <1>7 DEF Reply, WireOK
  <2> QED
    BY <1>1, <1>2, <2>1, ServedKeeps
<1>9. sent' = sent
  BY <1>1 DEF wireVars
<1>10. \A e \in Episodes : Past(e) \/ e = r.id => Past(e)'
  <2> SUFFICES ASSUME NEW e \in Episodes, Past(e) \/ e = r.id PROVE Past(e)'
    OBVIOUS
  <2>1. e <= sent
    BY <1>4 DEF Past
  <2>2. \A i \in 2..Len(queue) : e < queue[i].id
    <3> SUFFICES ASSUME NEW i \in 2..Len(queue) PROVE e < queue[i].id
      OBVIOUS
    <3>1. i \in 1..Len(queue) /\ 1 \in 1..Len(queue) /\ 1 < i
      BY <1>3
    <3>2. queue[1].id < queue[i].id
      BY <1>2, <3>1 DEF WireOK
    <3> QED
      BY <3>1, <3>2 DEF Past, r
  <2>3. \A i \in 1..Len(queue') : i + 1 \in 2..Len(queue)
    BY <1>3, <1>8
  <2>4. \A i \in 1..Len(queue') : e < queue'[i].id
    BY <1>8, <2>2, <2>3
  <2> QED
    BY <1>9, <2>1, <2>4 DEF Past
<1>11. SimOK'
  <2>1. \A e \in Episodes : moves'[e] # <<>> => Past(e)'
    <3> SUFFICES ASSUME NEW e \in Episodes, moves'[e] # <<>> PROVE Past(e)
      BY <1>10
    <3>1. CASE moves'[e] = moves[e]
      BY <1>2, <3>1 DEF SimOK
    <3>2. CASE backend # NoBackend /\ e = backend.ep
      BY <1>2, <3>2 DEF SimOK
    <3> QED
      BY <1>7, <3>1, <3>2 DEF SimFits
  <2>2. CASE backend' = NoBackend
    BY <1>2, <1>7, <1>9, <2>1, <2>2 DEF SimOK, SimFits
  <2>3. CASE backend' # NoBackend
    <3>1. /\ backend' \in BackendRec /\ backend'.ep \in Episodes /\ Remembers(backend', moves')
          /\ backend'.ep = r.id \/ (backend # NoBackend /\ backend'.ep = backend.ep)
      BY <1>7, <2>3 DEF SimFits
    <3> DEFINE e == backend'.ep
    <3>2. e = r.id \/ Past(e)
      BY <1>2, <3>1 DEF SimOK
    <3> HIDE DEF e
    <3>3. e \in Episodes
      BY <3>1 DEF e
    <3>4. PICK x \in Episodes : x = e
      BY <3>3
    <3>5. Past(x)'
      BY <1>10, <3>2, <3>4
    <3>6. /\ x <= sent' /\ \A i \in 1..Len(queue') : x < queue'[i].id
      BY <3>5 DEF Past
    <3>7. Past(backend.ep)'
      BY <3>4, <3>6 DEF Past, e
    <3>8. moves' \in [Episodes -> Seq(Nat)] /\ sent' <= MaxRequests
      BY <1>2, <1>7, <1>9 DEF SimFits, SimOK
    <3> QED
      BY <2>1, <3>1, <3>7, <3>8 DEF SimOK
  <2> QED
    BY <2>2, <2>3
<1> QED
  BY <1>1, <1>3, <1>7, <1>8, <1>11 DEF r, WireOK

(* No step is served for the wrong episode afterwards.                      *)
LEMMA ServeQueue ==
  ASSUME EpisodeAssumption, ServiceAssumption, RInv, VInv, Serve, UNCHANGED harness
  PROVE  QueueOK' /\ (\A ops : Pending(ops)' => Pending(ops))
<1> DEFINE r == queue[1]
<1>1. /\ r.op \in Moving => ~Stale'
      /\ r.op \notin Moving \cup Ending => UNCHANGED <<backend, moves>>
      /\ Len(queue) \in Nat \ {0} /\ Len(queue') = Len(queue) - 1
      /\ \A i \in 1..Len(queue') : queue'[i] = queue[i + 1]
  BY ServeSim
<1>2. QueueOK
  BY DEF VInv
<1>3. 1 \in 1..Len(queue) /\ \A i \in 1..Len(queue') : i + 1 \in 1..Len(queue) /\ 1 < i + 1
  BY <1>1
<1>4. \A ops : Pending(ops)' => Pending(ops)
  <2> SUFFICES ASSUME NEW ops, Pending(ops)' PROVE Pending(ops)
    OBVIOUS
  <2>1. PICK i \in 1..Len(queue') : queue'[i].op \in ops
    BY DEF Pending
  <2>2. i + 1 \in 1..Len(queue) /\ queue[i + 1].op \in ops
    BY <1>1, <1>3, <2>1
  <2> QED
    BY <2>2 DEF Pending
<1>5. \A i, j \in 1..Len(queue') : i < j /\ queue'[i].op \in Ending => queue'[j].op \notin Moving
  <2> SUFFICES ASSUME NEW i \in 1..Len(queue'), NEW j \in 1..Len(queue'), i < j, queue'[i].op \in Ending
               PROVE  queue'[j].op \notin Moving
    OBVIOUS
  <2>1. i + 1 \in 1..Len(queue) /\ j + 1 \in 1..Len(queue) /\ i + 1 < j + 1
    BY <1>3
  <2>2. queue[i + 1].op \in Ending => queue[j + 1].op \notin Moving
    BY <1>2, <2>1 DEF QueueOK
  <2> QED
    BY <1>1, <2>2
<1>6. r.op \in Ending => ~Pending(Moving)'
  <2> SUFFICES ASSUME r.op \in Ending, Pending(Moving)' PROVE FALSE
    OBVIOUS
  <2>1. PICK i \in 1..Len(queue') : queue'[i].op \in Moving
    BY DEF Pending
  <2>2. i + 1 \in 1..Len(queue) /\ 1 < i + 1 /\ queue[i + 1].op \in Moving
    BY <1>1, <1>3, <2>1
  <2> QED
    BY <1>2, <1>3, <2>2 DEF QueueOK
<1>7. Pending({r.op})
  BY <1>3 DEF Pending
<1>8. r.op \in Ending => Pending(Ending)
  BY <1>3 DEF Pending
<1> HIDE DEF r
<1>9. UNCHANGED <<backend, moves>> => (Stale' <=> Stale)
  BY DEF Stale
<1>10. Stale' => ~Pending(Moving)'
  <2> SUFFICES ASSUME Stale' PROVE ~Pending(Moving)'
    OBVIOUS
  <2>1. CASE r.op \in Ending
    BY <1>6, <2>1
  <2>2. CASE r.op \notin Ending
    <3>1. Stale
      BY <1>1, <1>9, <2>2
    <3> QED
      BY <1>2, <1>4, <3>1 DEF QueueOK
  <2> QED
    BY <2>1, <2>2
<1>11. harness'.pc \in InEpisode => ~Stale' /\ ~Pending(Ending)'
  <2> SUFFICES ASSUME harness.pc \in InEpisode PROVE ~Stale' /\ ~Pending(Ending)'
    OBVIOUS
  <2>1. ~Stale /\ ~Pending(Ending)
    BY <1>2 DEF QueueOK
  <2> QED
    BY <1>1, <1>4, <1>8, <1>9, <2>1
<1> QED
  BY <1>4, <1>5, <1>10, <1>11 DEF QueueOK

(* The answer the harness waits for is where the robot is then.             *)
LEMMA ServeWait ==
  ASSUME EpisodeAssumption, ServiceAssumption, RInv, VInv, Serve, UNCHANGED harness
  PROVE  WaitOK'
<1> DEFINE r == queue[1]
<1> SUFFICES ASSUME harness.pc \in DOMAIN Request, answer'["harness"] # Error PROVE WaitOK'
  BY Answers DEF WaitOK
<1>1. PICK a : Reply(r, a) /\ Truthful(r, a)
  BY ServeSim
<1>2. /\ UNCHANGED wireVars /\ queue # <<>> /\ Len(queue) \in Nat \ {0}
      /\ Len(queue') = Len(queue) - 1 /\ queue' \in Seq(Wire)
      /\ \A i \in 1..Len(queue') : queue'[i] = queue[i + 1]
  BY ServeSim
<1>3. "harness" \in Clients /\ DOMAIN answer = Clients /\ WaitOK
  BY DEF EpisodeAssumption, RInv, WireOK, VInv
<1>4. answer["harness"] # Error
  BY <1>1, <1>3, Answers DEF Reply
<1>5. answer["harness"] = NoAnswer
  BY <1>2, <1>3, <1>4 DEF WaitOK
<1>6. /\ queue[Len(queue)].id = call["harness"]
      /\ queue[Len(queue)].from = "harness" /\ queue[Len(queue)].op = Request[harness.pc]
      /\ harness.pc \in {"reference", "stepping", "checking"} => Len(queue) = 1
      /\ harness.pc \in {"reference", "stepping"} => ~Lag
  BY <1>3, <1>4, <1>5 DEF WaitOK
<1>7. CASE Len(queue) = 1
  <2>1. r.id = call["harness"] /\ r.from = "harness" /\ r.op = Request[harness.pc]
    BY <1>6, <1>7
  <2> HIDE DEF r
  <2>2. answer'["harness"] = a
    BY <1>1, <1>3, <1>5, <2>1 DEF Reply
  <2>3. r.op # "close" /\ (harness.pc = "resetting" => r.op = "reset")
        /\ (harness.pc \in {"reference", "stepping"} => r.op \in Moving)
    BY <2>1 DEF Request, Moving
  <2>4. a # Error /\ a # NoAnswer
    BY <1>1, <2>2 DEF Truthful, NoAnswer
  <2>5. backend' # NoBackend /\ Taken(a) = [obs |-> backend'.raw, now |-> Here']
    BY <1>1, <2>3, <2>4 DEF Truthful
  <2>6. queue' = <<>>
    BY <1>2, <1>7, EmptySeq
  <2>7. harness.pc = "resetting" => ~Lag'
    BY <1>1, <2>3, <2>4 DEF Truthful
  <2>8. harness.pc \in {"reference", "stepping"} => ~Lag'
    BY <1>1, <1>6, <2>3, <2>4 DEF Truthful
  <2> QED
    BY <2>2, <2>4, <2>5, <2>6, <2>7, <2>8 DEF WaitOK
<1>8. CASE Len(queue) # 1
  <2>1. 1 \in 1..Len(queue) /\ Len(queue) \in 1..Len(queue) /\ 1 < Len(queue)
    BY <1>2, <1>8
  <2>2. r.id < queue[Len(queue)].id /\ r.id \in Nat
    BY <2>1 DEF RInv, WireOK
  <2>3. r.id # call["harness"]
    BY <1>6, <2>2
  <2>4. answer'["harness"] = NoAnswer
    BY <1>1, <1>3, <1>5, <2>3 DEF Reply
  <2>5. Len(queue') \in 1..Len(queue') /\ queue'[Len(queue')] = queue[Len(queue)] /\ queue' # <<>>
    <3>1. Len(queue') \in 1..Len(queue') /\ Len(queue') + 1 = Len(queue)
      BY <1>2, <2>1
    <3> QED
      BY <1>2, <3>1
  <2>6. harness.pc \notin {"reference", "stepping", "checking"}
    BY <1>6, <1>8
  <2>7. call' = call
    BY <1>2 DEF wireVars
  <2> QED
    BY <1>6, <2>4, <2>5, <2>6, <2>7 DEF WaitOK
<1> QED
  BY <1>7, <1>8

(* A step of the policy that leaves the robot unseen is answered by an      *)
(* error, or nobody waits for it since its call has failed.                 *)
LEMMA ServePolicy ==
  ASSUME EpisodeAssumption, ServiceAssumption, RInv, VInv, Serve, UNCHANGED <<harness, worker, file>>
  PROVE  PolicyOK'
<1> DEFINE r == queue[1]
<1>1. PICK a : Reply(r, a) /\ Truthful(r, a)
  BY ServeSim
<1>2. /\ UNCHANGED wireVars /\ Len(queue) \in Nat \ {0}
      /\ r.op \notin Moving \cup Ending => UNCHANGED <<backend, moves>>
      /\ Len(queue') = Len(queue) - 1
      /\ \A i \in 1..Len(queue') : queue'[i] = queue[i + 1]
  BY ServeSim
<1>3. "worker" \in Clients /\ DOMAIN answer = Clients /\ PolicyOK /\ QueueOK
  BY DEF EpisodeAssumption, RInv, WireOK, VInv
<1>4. 1 \in 1..Len(queue)
  BY <1>2
<1>5. Evidence => Evidence'
  BY <1>1, <1>3, Answers DEF Evidence, Reply
<1> SUFFICES ASSUME harness.pc = "policy", ~Evidence'
             PROVE  ~Lag' /\ \A i \in 1..Len(queue') : queue'[i].op \in Moving => Awaited(i)'
  BY <1>3 DEF PolicyOK
<1>6. ~Evidence /\ ~Lag
  BY <1>3, <1>5 DEF PolicyOK
<1>7. \A i \in 1..Len(queue) : queue[i].op \in Moving => Awaited(i)
  BY <1>3, <1>6 DEF PolicyOK
<1>8. r.op \notin Ending
  BY <1>3, <1>4 DEF QueueOK, InEpisode, Pending
<1>9. ~Lag'
  <2>1. CASE r.op \in Moving
    <3>1. worker.pc = "moving" /\ answer["worker"] = NoAnswer /\ r.from = "worker" /\ r.id = call["worker"]
      BY <1>4, <1>7, <2>1 DEF Awaited
    <3> HIDE DEF r
    <3>2. answer'["worker"] = a
      BY <1>1, <1>3, <3>1 DEF Reply
    <3>3. a # Error
      BY <3>1, <3>2 DEF Evidence
    <3> QED
      BY <1>1, <1>6, <2>1, <3>3 DEF Truthful
  <2>2. CASE r.op \notin Moving
    BY <1>2, <1>6, <1>8, <2>2 DEF Lag, Here
  <2> QED
    BY <2>1, <2>2
<1>10. ASSUME NEW i \in 1..Len(queue'), queue'[i].op \in Moving
       PROVE  Awaited(i)'
  <2>1. i + 1 \in 1..Len(queue) /\ 1 < i + 1 /\ queue'[i] = queue[i + 1]
    BY <1>2
  <2> DEFINE q == queue[i + 1]
  <2>2. worker.pc = "moving" /\ answer["worker"] = NoAnswer /\ q.from = "worker" /\ q.id = call["worker"]
    BY <1>7, <1>10, <2>1 DEF Awaited
  <2>3. r.id < q.id /\ r.id \in Nat
    BY <1>4, <2>1 DEF RInv, WireOK
  <2>4. r.id # call["worker"]
    BY <2>2, <2>3
  <2>5. answer'["worker"] = NoAnswer /\ call' = call
    BY <1>1, <1>2, <1>3, <2>2, <2>4 DEF Reply, wireVars
  <2> QED
    BY <2>1, <2>2, <2>5 DEF Awaited
<1> QED
  BY <1>9, <1>10

(* While a run is being refreshed, checked and closed, only steps of failed *)
(* calls are left.                                                          *)
LEMMA ServeRecord ==
  ASSUME EpisodeAssumption, ServiceAssumption, RInv, VInv, Serve, UNCHANGED <<harness, report>>
  PROVE  RecordOK'
<1> DEFINE r == queue[1]
<1>1. PICK a : Reply(r, a)
  BY ServeSim
<1>2. /\ queue # <<>> /\ Len(queue) \in Nat \ {0}
      /\ r.op \notin Moving \cup Ending => UNCHANGED <<backend, moves>>
  BY ServeSim
<1>3. "harness" \in Clients /\ DOMAIN answer = Clients /\ RecordOK /\ QueueOK /\ WaitOK
  BY DEF EpisodeAssumption, RInv, WireOK, VInv
<1>4. 1 \in 1..Len(queue) /\ (Pending(Moving)' => Pending(Moving))
  BY <1>2, ServeQueue
<1>5. UNCHANGED <<backend, moves>> => (Lag' <=> Lag) /\ Here' = Here
  BY DEF Lag, Here
<1>6. ASSUME harness.pc = "refreshing", harness.exec.status = "completed", Lag' \/ Pending(Moving)'
      PROVE  Failed(harness.exec.events)
  <2>1. r.op \notin Ending
    BY <1>3, <1>4, <1>6 DEF QueueOK, InEpisode, Pending
  <2>2. r.op \in Moving => Pending(Moving)
    BY <1>4 DEF Pending
  <2> HIDE DEF r
  <2>3. Lag \/ Pending(Moving)
    BY <1>2, <1>4, <1>5, <1>6, <2>1, <2>2
  <2> QED
    BY <1>3, <1>6, <2>3 DEF RecordOK
<1>7. ASSUME harness.pc = "checking", answer'["harness"] # Error
      PROVE  /\ harness.final = [obs |-> backend'.raw, now |-> Here']
             /\ Lag' => Failed(harness.exec.events)
  <2>1. answer["harness"] # Error
    BY <1>1, <1>3, <1>7, Answers DEF Reply
  <2>2. "checking" \in DOMAIN Request /\ Request["checking"] = "success"
    BY DEF Request
  <2>3. answer["harness"] = NoAnswer /\ Len(queue) = 1 /\ r.op = "success"
    BY <1>2, <1>3, <1>7, <2>1, <2>2 DEF WaitOK
  <2>4. r.op \notin Moving \cup Ending
    BY <2>3 DEF Moving, Ending
  <2> QED
    BY <1>2, <1>3, <1>5, <1>7, <2>1, <2>4 DEF RecordOK
<1> QED
  BY <1>3, <1>6, <1>7 DEF RecordOK

-----------------------------------------------------------------------------
(* A request that is sent lies behind those that were.                      *)
LEMMA SendFits ==
  ASSUME ServiceAssumption, WireOK, SimOK, QueueOK, NEW c \in Clients, NEW op \in Operations,
         NEW cfg \in Configs \cup {NoConfig}, SendAfter(sent, c, op, cfg), UNCHANGED simVars,
         op \in Moving => ~Stale /\ ~Pending(Ending),
         harness'.pc \in InEpisode => ~Stale /\ ~Pending(Ending) /\ op \notin Ending
  PROVE  /\ SimOK' /\ QueueOK'
         /\ (Lag' <=> Lag) /\ Here' = Here /\ (Pending(Moving)' <=> Pending(Moving) \/ op \in Moving)
         /\ queue' # <<>> /\ Len(queue) \in Nat /\ Len(queue') = Len(queue) + 1
         /\ \A i \in 1..Len(queue) : queue'[i] = queue[i]
         /\ queue'[Len(queue')] = [id |-> sent + 1, from |-> c, op |-> op, config |-> cfg]
         /\ call'[c] = sent + 1 /\ answer'[c] = NoAnswer
<1> DEFINE r == [id |-> sent + 1, from |-> c, op |-> op, config |-> cfg]
           n == Len(queue)
<1>1. sent \in Nat /\ queue \in Seq(Wire) /\ n \in Nat
  BY LenProperties DEF WireOK
<1>2. /\ queue' # <<>> /\ queue'[Len(queue')] = r /\ call'[c] = sent + 1 /\ answer'[c] = NoAnswer
      /\ sent' = sent + 1 /\ sent < MaxRequests /\ queue' = Append(queue, r)
  <2>1. sent' = sent + 1 /\ sent < MaxRequests /\ queue' = Append(queue, r)
    BY DEF SendAfter
  <2>2. queue' # <<>> /\ queue'[Len(queue')] = r /\ call'[c] = sent + 1 /\ answer'[c] = NoAnswer
    BY <1>1, SendKeeps
  <2> QED
    BY <2>1, <2>2
<1>3. r \in Wire
  BY <1>1 DEF Wire
<1>4. Len(queue') = n + 1 /\ (\A i \in 1..n : queue'[i] = queue[i]) /\ queue'[n + 1] = r
  <2> HIDE DEF r
  <2> QED
    BY <1>1, <1>2, <1>3, AppendProperties
<1>5. r.id = sent + 1 /\ r.op = op
  OBVIOUS
<1> HIDE DEF r, n
<1>6. UNCHANGED <<backend, moves>>
  BY DEF simVars
<1>7. (Stale' <=> Stale) /\ (Lag' <=> Lag) /\ Here' = Here
  BY <1>6 DEF Stale, Lag, Here
<1>8. \A i \in 1..(n + 1) : i \in 1..n \/ i = n + 1
  BY <1>1
<1>9. n + 1 \in 1..(n + 1) /\ 1..n \subseteq 1..(n + 1)
  BY <1>1
<1>10. \A ops : Pending(ops)' <=> Pending(ops) \/ op \in ops
  BY <1>4, <1>5, <1>8, <1>9 DEF Pending, n
<1>11. \A e \in Episodes : Past(e) => Past(e)'
  <2> SUFFICES ASSUME NEW e \in Episodes, Past(e) PROVE Past(e)'
    OBVIOUS
  <2>1. e \in Nat /\ e <= sent /\ \A i \in 1..n : e < queue[i].id
    BY DEF Past, n, Episodes, ServiceAssumption
  <2>2. e <= sent + 1 /\ e < sent + 1
    BY <1>1, <2>1
  <2>3. \A i \in 1..(n + 1) : e < queue'[i].id
    BY <1>4, <1>5, <1>8, <2>1, <2>2
  <2> QED
    BY <1>2, <1>4, <2>2, <2>3 DEF Past
<1>12. SimOK'
  <2>1. sent' <= MaxRequests
    BY <1>1, <1>2 DEF ServiceAssumption
  <2>2. CASE backend = NoBackend
    BY <1>6, <1>11, <2>1, <2>2 DEF SimOK
  <2>3. CASE backend # NoBackend
    <3>1. backend \in BackendRec /\ backend.ep \in Episodes /\ Past(backend.ep) /\ Remembers(backend, moves)
      BY <2>3 DEF SimOK
    <3>2. PICK x \in Episodes : x = backend.ep
      BY <3>1
    <3>3. Past(x)'
      BY <1>11, <3>1, <3>2
    <3>4. x <= sent' /\ \A i \in 1..Len(queue') : x < queue'[i].id
      BY <3>3 DEF Past
    <3>5. Past(backend.ep)'
      BY <1>6, <3>2, <3>4 DEF Past
    <3> QED
      BY <1>6, <1>11, <2>1, <3>1, <3>5 DEF SimOK
  <2> QED
    BY <2>2, <2>3
<1>13. QueueOK'
  <2>1. \A i, j \in 1..Len(queue') : i < j /\ queue'[i].op \in Ending => queue'[j].op \notin Moving
    <3> SUFFICES ASSUME NEW i \in 1..(n + 1), NEW j \in 1..(n + 1), i < j, queue'[i].op \in Ending,
                        queue'[j].op \in Moving
                 PROVE  FALSE
      BY <1>4
    <3>1. i \in 1..n /\ queue[i].op \in Ending
      BY <1>1, <1>4, <1>8
    <3>2. Pending(Ending)
      BY <3>1 DEF Pending, n
    <3>3. CASE j \in 1..n
      BY <1>4, <3>1, <3>3 DEF QueueOK, n
    <3>4. CASE j = n + 1
      BY <1>4, <1>5, <3>2, <3>4
    <3> QED
      BY <1>8, <3>3, <3>4
  <2>2. Stale' => ~Pending(Moving)'
    BY <1>7, <1>10 DEF QueueOK
  <2>3. harness'.pc \in InEpisode => ~Stale' /\ ~Pending(Ending)'
    BY <1>7, <1>10
  <2> QED
    BY <2>1, <2>2, <2>3 DEF QueueOK
<1> QED
  BY <1>1, <1>2, <1>4, <1>7, <1>10, <1>12, <1>13 DEF n, r

(* The harness goes on with a request.                                      *)
LEMMA AskFits ==
  ASSUME EpisodeAssumption, ServiceAssumption, RInv, VInv, NEW op \in Operations,
         Ask("harness", op), UNCHANGED <<simVars, report, file>>, FieldsOK',
         worker' = worker \/ worker'.pc # "exited",
         harness'.pc # "policy",
         op \in Moving => ~Stale /\ ~Pending(Ending),
         harness'.pc \in InEpisode => ~Stale /\ ~Pending(Ending) /\ op \notin Ending,
         harness'.pc \in DOMAIN Request => op = Request[harness'.pc],
         harness'.pc \in {"reference", "stepping", "checking"} => queue = <<>>,
         harness'.pc \in {"reference", "stepping"} => ~Lag,
         harness'.pc = "refreshing" /\ harness'.exec.status = "completed" /\ (Lag \/ Pending(Moving)) =>
           Failed(harness'.exec.events),
         harness'.pc = "checking" => /\ harness'.final = [obs |-> backend.raw, now |-> Here]
                                     /\ Lag => Failed(harness'.exec.events),
         harness'.pc = "closing" /\ harness'.status = "completed" => OnVerdict(harness', harness'.exec.events)
  PROVE  VInv'
<1>1. /\ "harness" \in Clients /\ harness.config \in Configs \cup {NoConfig}
      /\ WireOK /\ SimOK /\ QueueOK /\ WaitOK /\ PolicyOK /\ RecordOK
  BY DEF EpisodeAssumption, RInv, PartiesOK, VInv
<1>2. SendAfter(sent, "harness", op, harness.config)
  BY DEF Ask, Send
<1>3. /\ SimOK' /\ QueueOK'
      /\ (Lag' <=> Lag) /\ Here' = Here /\ (Pending(Moving)' <=> Pending(Moving) \/ op \in Moving)
      /\ queue' # <<>> /\ Len(queue) \in Nat /\ Len(queue') = Len(queue) + 1
      /\ queue'[Len(queue')] = [id |-> sent + 1, from |-> "harness", op |-> op, config |-> harness.config]
      /\ call'["harness"] = sent + 1 /\ answer'["harness"] = NoAnswer
  BY <1>1, <1>2, SendFits
<1>4. WaitOK'
  <2>1. queue = <<>> => Len(queue') = 1
    BY <1>3, EmptySeq
  <2>2. /\ queue'[Len(queue')].id = call'["harness"] /\ queue'[Len(queue')].from = "harness"
        /\ queue'[Len(queue')].op = op
    BY <1>3
  <2> QED
    BY <1>3, <2>1, <2>2 DEF WaitOK
<1>5. PolicyOK'
  BY <1>1 DEF PolicyOK
<1>6. RecordOK'
  <2>1. UNCHANGED backend
    BY DEF simVars
  <2>2. harness'.pc = "refreshing" => op \notin Moving
    BY DEF Request, Moving
  <2>3. report'.status = "completed" => OnVerdict(report', report'.events)
    BY <1>1 DEF RecordOK, OnVerdict
  <2> QED
    BY <1>3, <2>1, <2>2, <2>3 DEF RecordOK
<1> QED
  BY <1>3, <1>4, <1>5, <1>6 DEF VInv

(* The run has failed, or asks for the verdict on the state it has seen.    *)
LEMMA EndsFit ==
  ASSUME EpisodeAssumption, ServiceAssumption, RInv, VInv, NEW h,
         {"pc", "last", "exec", "status", "final", "verdict"} \subseteq DOMAIN h,
         FieldsOK, worker' = worker, UNCHANGED <<simVars, report, file>>,
         \/ FailedRun(h)
         \/ /\ Checking(h) /\ queue = <<>> /\ h.last = [obs |-> backend.raw, now |-> Here]
            /\ Lag => Failed(h.exec.events)
  PROVE  VInv'
<1>1. CASE FailedRun(h)
  <2>1. Ask("harness", "close") /\ harness'.pc = "closing" /\ harness'.status = "failed"
        /\ DOMAIN harness' = DOMAIN h
    BY <1>1 DEF FailedRun
  <2>2. "close" \in Operations /\ "close" \notin Moving /\ "closing" \notin InEpisode
        /\ "closing" \notin DOMAIN Request
    BY DEF Operations, Moving, InEpisode, Request
  <2>3. FieldsOK'
    BY <2>1 DEF FieldsOK
  <2> QED
    BY <2>1, <2>2, <2>3, AskFits
<1>2. CASE /\ Checking(h) /\ queue = <<>> /\ h.last = [obs |-> backend.raw, now |-> Here]
           /\ Lag => Failed(h.exec.events)
  <2>1. Ask("harness", "success") /\ harness'.pc = "checking" /\ harness'.exec = h.exec
        /\ DOMAIN harness' = DOMAIN h /\ harness'.final = h.last
    BY <1>2 DEF Checking
  <2>2. "success" \in Operations /\ "success" \notin Moving /\ "checking" \notin InEpisode
        /\ Request["checking"] = "success"
    BY DEF Operations, Moving, InEpisode, Request
  <2>3. FieldsOK'
    BY <2>1 DEF FieldsOK
  <2> QED
    BY <1>2, <2>1, <2>2, <2>3, AskFits
<1> QED
  BY <1>1, <1>2

(* The harness hears that the environment was reset, or not.                *)
LEMMA ResetAnsweredFits ==
  ASSUME EpisodeAssumption, ServiceAssumption, RInv, VInv, ResetAnswered
  PROVE  VInv'
<1> DEFINE h == [harness EXCEPT !.initial = Taken(answer["harness"]), !.last = Taken(answer["harness"])]
<1>1. /\ harness.pc = "resetting" /\ Answered("harness") /\ FieldsOK /\ WaitOK /\ SimOK /\ QueueOK
      /\ PolicyOK /\ RecordOK /\ WireOK
      /\ UNCHANGED <<simVars, file, report, runs>>
  BY DEF ResetAnswered, Harness, VInv, RInv
<1>2. CASE ~answer["harness"].ok
  <2>1. FailedRun(harness) /\ worker' = worker
    BY <1>2 DEF ResetAnswered
  <2> QED
    BY <1>1, <2>1, EndsFit DEF FieldsOK
<1>3. CASE answer["harness"].ok
  <2>1. answer["harness"] \notin {NoAnswer, Error}
    BY <1>1, <1>3 DEF Answered, Error
  <2>2. "resetting" \in DOMAIN Request
    BY DEF Request
  <2>3. queue = <<>> /\ backend # NoBackend /\ ~Lag
    BY <1>1, <2>1, <2>2 DEF WaitOK
  <2>4. ~Stale
    <3>1. backend.ep \in Episodes /\ Remembers(backend, moves) /\ backend.ep # 0
      BY <1>1, <2>3 DEF SimOK, Episodes, ServiceAssumption
    <3>2. backend.raw.ep = backend.ep
      BY <2>3 DEF Lag, Here
    <3> QED
      BY <3>1, <3>2 DEF Stale, Remembers, NoView
  <2>5. ~Pending(Ending) /\ ~Pending(Moving)
    BY <2>3, EmptySeq DEF Pending
  <2>6. {"pc", "last", "exec", "status", "final", "verdict"} \subseteq DOMAIN h
    BY <1>1 DEF FieldsOK
  <2>7. ASSUME NEW op, worker' = worker, Ask("harness", op), FieldsOK',
               \/ harness'.pc = "reference" /\ op = "reference"
               \/ harness'.pc = "stepping" /\ op = "step"
        PROVE  VInv'
    <3>1. op \in Operations /\ op \notin Ending /\ op = Request[harness'.pc]
      BY <2>7 DEF Operations, Ending, Request
    <3> QED
      BY <1>1, <2>3, <2>4, <2>5, <2>7, <3>1, AskFits
  <2>8. CASE harness' = [h EXCEPT !.pc = "reference"] /\ Ask("harness", "reference") /\ worker' = worker
    <3>1. harness'.pc = "reference" /\ FieldsOK'
      <4> HIDE DEF h
      <4> QED
        BY <1>1, <2>6, <2>8 DEF FieldsOK
    <3> QED
      BY <2>7, <2>8, <3>1
  <2>9. CASE /\ harness' = [h EXCEPT !.pc = "stepping", !.left = MaxSteps] /\ Ask("harness", "step")
             /\ worker' = worker
    <3>1. harness'.pc = "stepping" /\ FieldsOK'
      <4> HIDE DEF h
      <4> QED
        BY <1>1, <2>6, <2>9 DEF FieldsOK
    <3> QED
      BY <2>7, <2>9, <3>1
  <2>10. CASE /\ harness' = [h EXCEPT !.pc = "policy"] /\ Heard("harness") /\ UNCHANGED <<queue, sent>>
              /\ worker' = [NoWorker EXCEPT !.pc = "starting"]
    <3>1. harness'.pc = "policy" /\ FieldsOK' /\ worker'.pc = "starting"
      <4>1. {"raises", "code", "pc"} \subseteq DOMAIN NoWorker
        BY DEF NoWorker
      <4> HIDE DEF h
      <4> QED
        BY <1>1, <2>6, <2>10, <4>1 DEF FieldsOK
    <3>2. UNCHANGED <<backend, moves, queue, sent>>
      BY <1>1, <2>10 DEF simVars
    <3>3. SimOK'
      BY <1>1, <3>2 DEF SimOK, Past
    <3>4. (Stale' <=> Stale) /\ (Lag' <=> Lag) /\ (Pending(Ending)' <=> Pending(Ending))
          /\ (Pending(Moving)' <=> Pending(Moving))
      BY <3>2 DEF Stale, Lag, Here, Pending
    <3>5. QueueOK'
      BY <1>1, <2>4, <2>5, <3>2, <3>4 DEF QueueOK
    <3>6. WaitOK'
      BY <3>1 DEF WaitOK, Request
    <3>7. PolicyOK'
      BY <2>3, <2>5, <3>1, <3>4 DEF PolicyOK, Pending
    <3>8. RecordOK'
      BY <1>1, <3>1 DEF RecordOK, OnVerdict
    <3> QED
      BY <3>1, <3>3, <3>5, <3>6, <3>7, <3>8 DEF VInv
  <2>11. CASE FailedRun(h) /\ worker' = worker
    <3> HIDE DEF h
    <3> QED
      BY <1>1, <2>6, <2>11, EndsFit
  <2> QED
    BY <1>3, <2>8, <2>9, <2>10, <2>11 DEF ResetAnswered
<1> QED
  BY <1>2, <1>3

(* The other answers, up to the verdict.                                    *)
LEMMA OthersAnsweredFit ==
  ASSUME EpisodeAssumption, ServiceAssumption, RInv, VInv,
         ReferenceAnswered \/ NoOpStepAnswered \/ RefreshAnswered \/ VerdictAnswered
  PROVE  VInv'
<1> DEFINE a == answer["harness"]
<1>1. /\ harness.pc \in {"reference", "stepping", "refreshing", "checking"} /\ a # NoAnswer
      /\ FieldsOK /\ WaitOK /\ SimOK /\ QueueOK /\ PolicyOK /\ RecordOK
      /\ UNCHANGED <<simVars, worker, file, report, runs>>
  BY DEF ReferenceAnswered, NoOpStepAnswered, RefreshAnswered, VerdictAnswered, Harness, Answered, VInv
<1>2. harness.pc \in DOMAIN Request
  BY <1>1 DEF Request
<1>3. a.ok => /\ queue = <<>> /\ backend # NoBackend /\ a # Error
              /\ Taken(a) = [obs |-> backend.raw, now |-> Here]
              /\ harness.pc \in {"reference", "stepping"} => ~Lag
  <2>1. a.ok => a # Error
    BY DEF Error
  <2> QED
    BY <1>1, <1>2, <2>1 DEF WaitOK
<1>4. {"pc", "last", "exec", "status", "final", "verdict"} \subseteq DOMAIN harness
  BY <1>1 DEF FieldsOK
<1>5. CASE FailedRun(harness)
  BY <1>1, <1>4, <1>5, EndsFit
<1>6. CASE ReferenceAnswered
  <2> DEFINE h == [harness EXCEPT !.last = Taken(a), !.trace = a.trace]
  <2>1. /\ {"pc", "last", "exec", "status", "final", "verdict"} \subseteq DOMAIN h /\ h.last = Taken(a)
    BY <1>4
  <2>2. harness.pc = "reference" /\ (FailedRun(harness) \/ (a.ok /\ Checking(h)))
    BY <1>6 DEF ReferenceAnswered, Harness
  <2> HIDE DEF h, a
  <2> QED
    BY <1>1, <1>3, <1>5, <2>1, <2>2, EndsFit
<1>7. CASE RefreshAnswered
  <2> DEFINE h == [harness EXCEPT !.last = Taken(a), !.trace = harness.exec.trace]
  <2>1. /\ {"pc", "last", "exec", "status", "final", "verdict"} \subseteq DOMAIN h /\ h.last = Taken(a)
        /\ h.exec = harness.exec
    BY <1>4
  <2>2. /\ harness.pc = "refreshing"
        /\ \/ FailedRun(harness) \/ FailedRun(h)
           \/ a.ok /\ harness.exec.status = "completed" /\ Checking(h)
    BY <1>7 DEF RefreshAnswered, Harness
  <2>3. harness.exec.status = "completed" /\ Lag => Failed(harness.exec.events)
    BY <1>1, <2>2 DEF RecordOK
  <2> HIDE DEF h, a
  <2> QED
    BY <1>1, <1>3, <1>5, <2>1, <2>2, <2>3, EndsFit
<1>8. CASE NoOpStepAnswered
  <2> DEFINE h == Acknowledged(harness, "harness")
  <2>1. /\ {"pc", "last", "exec", "status", "final", "verdict"} \subseteq DOMAIN h /\ h.last = Taken(a)
        /\ h.exec = harness.exec /\ h.pc = harness.pc
    BY <1>4 DEF Acknowledged
  <2>2. /\ harness.pc = "stepping"
        /\ \/ FailedRun(harness) \/ FailedRun(h) \/ (a.ok /\ Checking(h))
           \/ a.ok /\ harness' = h /\ Ask("harness", "step")
    BY <1>8 DEF NoOpStepAnswered, Harness
  <2> HIDE DEF h, a
  <2>3. CASE a.ok /\ harness' = h /\ Ask("harness", "step")
    <3>1. harness'.pc = "stepping" /\ FieldsOK'
      BY <1>1, <2>1, <2>2, <2>3 DEF FieldsOK
    <3>2. "step" \in Operations /\ "step" \notin Ending /\ Request["stepping"] = "step"
          /\ "stepping" \in InEpisode
      BY DEF Operations, Ending, Request, InEpisode
    <3>3. ~Stale /\ ~Pending(Ending)
      BY <1>1, <2>2, <3>2 DEF QueueOK
    <3> QED
      BY <1>1, <1>3, <2>2, <2>3, <3>1, <3>2, <3>3, AskFits
  <2> QED
    BY <1>1, <1>3, <1>5, <2>1, <2>2, <2>3, EndsFit
<1>9. CASE VerdictAnswered
  <2>1. CASE /\ a.ok
             /\ harness' = [harness EXCEPT !.pc = "closing", !.status = "completed", !.verdict = a.now]
             /\ Ask("harness", "close")
    <3>1. /\ harness'.pc = "closing" /\ harness'.verdict = a.now /\ harness'.final = harness.final
          /\ harness'.exec = harness.exec /\ DOMAIN harness' = DOMAIN harness
      BY <1>4, <2>1
    <3>2. "close" \in Operations /\ "close" \notin Moving /\ "closing" \notin InEpisode
          /\ "closing" \notin DOMAIN Request
      BY DEF Operations, Moving, InEpisode, Request
    <3>3. harness.pc = "checking"
      BY <1>9 DEF VerdictAnswered, Harness
    <3>4. /\ harness.final = [obs |-> backend.raw, now |-> Here]
          /\ Lag => Failed(harness.exec.events)
          /\ backend # NoBackend /\ a.now = Here
      BY <1>1, <1>3, <2>1, <3>3 DEF RecordOK, Taken
    <3>5. OnVerdict(harness', harness'.exec.events)
      BY <3>1, <3>4 DEF OnVerdict, Lag
    <3>6. FieldsOK'
      BY <1>1, <3>1 DEF FieldsOK
    <3> HIDE DEF a
    <3> QED
      BY <1>1, <2>1, <3>1, <3>2, <3>5, <3>6, AskFits
  <2> QED
    BY <1>5, <1>9, <2>1 DEF VerdictAnswered
<1> QED
  BY <1>6, <1>7, <1>8, <1>9

(* The policy is over, or was killed: what it left open has failed.         *)
LEMMA PolicyEndsFit ==
  ASSUME EpisodeAssumption, ServiceAssumption, RInv, VInv, PolicyOver \/ PolicyTimesOut
  PROVE  VInv'
<1>1. /\ harness.pc = "policy" /\ FieldsOK /\ QueueOK /\ PolicyOK
      /\ UNCHANGED <<simVars, file, report, runs>>
  BY DEF PolicyOver, PolicyTimesOut, Harness, VInv
<1>2. PICK status : /\ Refreshing(status)
                    /\ status = "completed" => worker.pc = "exited" /\ worker.code = 0
  BY DEF PolicyOver, PolicyTimesOut
<1>3. worker' = worker \/ worker'.pc # "exited"
  BY DEF PolicyOver, PolicyTimesOut, RInv, PartiesOK
<1>4. {"raises", "code"} \subseteq DOMAIN worker'
  BY <1>1 DEF PolicyOver, PolicyTimesOut, FieldsOK
<1>5. /\ harness'.pc = "refreshing" /\ harness'.exec.status = status
      /\ harness'.exec.events = file.events /\ DOMAIN harness' = DOMAIN harness
      /\ Ask("harness", "observation")
  BY <1>1, <1>2 DEF Refreshing, FieldsOK
<1>6. FieldsOK'
  BY <1>1, <1>4, <1>5 DEF FieldsOK
<1>7. /\ "observation" \in Operations /\ "observation" \notin Moving /\ "observation" \notin Ending
      /\ Request["refreshing"] = "observation" /\ "policy" \in InEpisode
  BY DEF Operations, Moving, Ending, Request, InEpisode
<1>8. ~Stale /\ ~Pending(Ending)
  BY <1>1, <1>7 DEF QueueOK
<1>9. status = "completed" /\ (Lag \/ Pending(Moving)) => Failed(file.events)
  <2> SUFFICES ASSUME status = "completed", Lag \/ Pending(Moving) PROVE Failed(file.events)
    OBVIOUS
  <2>1. worker.pc = "exited" /\ file.events = worker.events
    BY <1>1, <1>2 DEF PolicyOK
  <2>2. Evidence
    BY <1>1, <2>1 DEF PolicyOK, Pending, Awaited
  <2> QED
    BY <2>1, <2>2 DEF Evidence
<1> QED
  BY <1>1, <1>3, <1>5, <1>6, <1>7, <1>8, <1>9, AskFits

(* The result is what the harness had.                                      *)
LEMMA CloseAnsweredFits ==
  ASSUME EpisodeAssumption, ServiceAssumption, RInv, VInv, CloseAnswered
  PROVE  VInv'
<1>1. /\ harness.pc = "closing" /\ FieldsOK /\ SimOK /\ QueueOK /\ RecordOK
      /\ UNCHANGED <<backend, moves, queue, sent>> /\ harness' = IdleHarness /\ worker' = NoWorker
  BY DEF CloseAnswered, Harness, VInv, simVars
<1>2. harness'.pc = "idle" /\ worker'.pc = "off" /\ FieldsOK'
  BY <1>1 DEF IdleHarness, NoWorker, FieldsOK
<1>3. SimOK'
  BY <1>1 DEF SimOK, Past
<1>4. QueueOK'
  BY <1>1, <1>2 DEF QueueOK, Stale, Pending, InEpisode
<1>5. WaitOK' /\ PolicyOK'
  BY <1>2 DEF WaitOK, PolicyOK, Request
<1>6. report'.status = "completed" => OnVerdict(report', report'.events)
  <2>1. CASE report' = NoReport
    BY <2>1 DEF NoReport
  <2>2. CASE report' = [status |-> harness.status, policy |-> harness.policy,
                        first |-> harness.first, trace |-> harness.trace,
                        events |-> harness.exec.events, final |-> harness.final,
                        verdict |-> harness.verdict]
    <3>1. /\ report'.status = harness.status /\ report'.final = harness.final
          /\ report'.verdict = harness.verdict /\ report'.events = harness.exec.events
      BY <2>2
    <3> QED
      BY <1>1, <3>1 DEF RecordOK, OnVerdict
  <2> QED
    BY <2>1, <2>2 DEF CloseAnswered
<1>7. RecordOK'
  BY <1>2, <1>6 DEF RecordOK
<1> QED
  BY <1>2, <1>3, <1>4, <1>5, <1>7 DEF VInv

(* A run begins with a reset, under new numbers if none is in use.          *)
LEMMA RunBeginsFits ==
  ASSUME EpisodeAssumption, ServiceAssumption, RInv, VInv, RunBegins
  PROVE  VInv'
<1> DEFINE n == IF NamesFree THEN 0 ELSE sent
<1>1. PICK p \in Policies, cfg \in Plan[runs + 1].configs :
        /\ harness' = [IdleHarness EXCEPT !.pc = "resetting", !.policy = p, !.config = cfg,
                                          !.first = n + 1]
        /\ SendAfter(n, "harness", "reset", cfg)
  BY DEF RunBegins
<1>2. cfg \in Configs
  <2>1. runs + 1 \in 1..Len(Plan)
    BY DEF RunBegins, RInv, PartiesOK, EpisodeAssumption
  <2>2. Plan[runs + 1] \in [configs : SUBSET Configs, calls : Nat]
    BY <2>1, ElementOfSeq DEF EpisodeAssumption
  <2> QED
    BY <2>2
<1>3. harness'.pc = "resetting" /\ FieldsOK'
  <2>1. {"pc", "last", "exec", "status", "final", "verdict"} \subseteq DOMAIN IdleHarness
    BY DEF IdleHarness
  <2>2. harness'.pc = "resetting" /\ DOMAIN harness' = DOMAIN IdleHarness
    BY <1>1 DEF IdleHarness
  <2> QED
    BY <2>1, <2>2 DEF FieldsOK, RunBegins, VInv
<1>4. UNCHANGED <<backend, config, live, worker, file>> /\ report' = NoReport
  BY DEF RunBegins
<1>5. /\ "harness" \in Clients /\ "reset" \in Operations /\ "reset" \notin Moving
      /\ "resetting" \notin InEpisode /\ Request["resetting"] = "reset"
      /\ WireOK /\ SimOK /\ QueueOK /\ PolicyOK
  BY DEF EpisodeAssumption, Operations, Moving, InEpisode, Request, RInv, VInv
<1>6. /\ SimOK' /\ QueueOK'
      /\ queue' # <<>> /\ queue'[Len(queue')].id = call'["harness"]
      /\ queue'[Len(queue')].from = "harness" /\ queue'[Len(queue')].op = "reset"
      /\ answer'["harness"] = NoAnswer
  <2>1. CASE ~NamesFree
    <3>1. SendAfter(sent, "harness", "reset", cfg) /\ UNCHANGED simVars
      BY <1>1, <2>1 DEF RunBegins, simVars
    <3>2. cfg \in Configs \cup {NoConfig}
      BY <1>2
    <3> HIDE DEF n
    <3>3. /\ SimOK' /\ QueueOK' /\ queue' # <<>> /\ answer'["harness"] = NoAnswer
          /\ queue'[Len(queue')] = [id |-> sent + 1, from |-> "harness", op |-> "reset", config |-> cfg]
          /\ call'["harness"] = sent + 1
      BY <1>3, <1>5, <3>1, <3>2, SendFits
    <3> QED
      BY <3>3
  <2>2. CASE NamesFree
    <3>1. /\ queue = <<>> /\ backend = NoBackend /\ moves' = [e \in Episodes |-> <<>>]
          /\ SendAfter(0, "harness", "reset", cfg)
      BY <1>1, <2>2 DEF NamesFree, RunBegins
    <3>2. sent' = 1 /\ 0 < MaxRequests /\ queue' = Append(queue, [id |-> 1, from |-> "harness", op |-> "reset", config |-> cfg])
      BY <3>1 DEF SendAfter
    <3>3. /\ queue' # <<>> /\ answer'["harness"] = NoAnswer /\ call'["harness"] = 1
          /\ queue'[Len(queue')] = [id |-> 1, from |-> "harness", op |-> "reset", config |-> cfg]
      BY <1>2, <1>5, <3>1, SendKeeps
    <3>4. Len(queue') = 1
      BY <3>1, <3>2
    <3>5. moves' \in [Episodes -> Seq(Nat)] /\ \A e \in Episodes : moves'[e] = <<>>
      BY <3>1, EmptySeq
    <3>6. SimOK'
      <4>1. sent' <= MaxRequests
        BY <3>2 DEF ServiceAssumption
      <4> QED
        BY <1>4, <3>1, <3>5, <4>1 DEF SimOK
    <3>7. QueueOK'
      <4>1. ~Stale'
        BY <1>4, <3>1 DEF Stale
      <4>2. \A i, j \in 1..Len(queue') : ~(i < j)
        BY <3>4
      <4> QED
        BY <1>3, <1>5, <4>1, <4>2 DEF QueueOK
    <3> QED
      BY <3>3, <3>6, <3>7
  <2> QED
    BY <2>1, <2>2
<1>7. WaitOK'
  BY <1>3, <1>5, <1>6 DEF WaitOK
<1>8. PolicyOK'
  BY <1>3, <1>4, <1>5 DEF PolicyOK
<1>9. RecordOK'
  BY <1>3, <1>4 DEF RecordOK, NoReport
<1> QED
  BY <1>3, <1>6, <1>7, <1>8, <1>9 DEF VInv

(* A wait that ends is a call that failed.                                  *)
LEMMA CallFailsFits ==
  ASSUME EpisodeAssumption, ServiceAssumption, RInv, VInv, NEW c \in Clients, CallFails(c),
         UNCHANGED <<harness, worker, file, report, runs>>
  PROVE  VInv'
<1>1. /\ answer[c] = NoAnswer /\ answer' = [answer EXCEPT ![c] = Error]
      /\ UNCHANGED <<queue, backend, moves, sent, call>>
  BY DEF CallFails, simVars, wireVars
<1>2. /\ Clients = {"harness", "worker"} /\ DOMAIN answer = Clients
      /\ FieldsOK /\ WaitOK /\ SimOK /\ QueueOK /\ PolicyOK /\ RecordOK
  BY DEF EpisodeAssumption, RInv, WireOK, VInv
<1>3. FieldsOK'
  BY <1>2 DEF FieldsOK
<1>4. SimOK'
  BY <1>1, <1>2 DEF SimOK, Past
<1>5. /\ (Stale' <=> Stale) /\ (Lag' <=> Lag) /\ Here' = Here
      /\ (Pending(Ending)' <=> Pending(Ending)) /\ (Pending(Moving)' <=> Pending(Moving))
  BY <1>1 DEF Stale, Lag, Here, Pending
<1>6. QueueOK'
  BY <1>1, <1>2, <1>5 DEF QueueOK
<1>7. answer'["harness"] = Error \/ answer'["harness"] = answer["harness"]
  BY <1>1, <1>2
<1>8. WaitOK'
  BY <1>1, <1>2, <1>5, <1>7, Answers DEF WaitOK
<1>9. RecordOK'
  BY <1>1, <1>2, <1>5, <1>7 DEF RecordOK
<1>10. PolicyOK'
  <2>1. Evidence => Evidence'
    BY <1>1, <1>2 DEF Evidence
  <2>2. ASSUME NEW i \in 1..Len(queue), Awaited(i)
        PROVE  Awaited(i)' \/ Evidence'
    <3>1. CASE c = "worker"
      BY <1>1, <1>2, <2>2, <3>1 DEF Awaited, Evidence
    <3>2. CASE c = "harness"
      <4>1. answer'["worker"] = answer["worker"]
        BY <1>1, <1>2, <3>2
      <4> QED
        BY <1>1, <2>2, <4>1 DEF Awaited
    <3> QED
      BY <1>2, <3>1, <3>2
  <2> QED
    BY <1>1, <1>2, <1>5, <2>1, <2>2 DEF PolicyOK
<1> QED
  BY <1>3, <1>4, <1>6, <1>8, <1>9, <1>10 DEF VInv

(* The set of what a longer sequence holds.                                 *)
LEMMA ToSetAppend ==
  ASSUME NEW S, NEW s \in Seq(S), NEW e \in S
  PROVE  /\ Append(s, e) \in Seq(S) /\ Len(Append(s, e)) = Len(s) + 1 /\ Len(s) \in Nat
         /\ \A i \in 1..Len(s) : Append(s, e)[i] = s[i]
         /\ Append(s, e)[Len(s) + 1] = e
         /\ ToSet(Append(s, e)) = ToSet(s) \cup {e}
<1>1. /\ Append(s, e) \in Seq(S) /\ Len(Append(s, e)) = Len(s) + 1
      /\ \A i \in 1..Len(s) : Append(s, e)[i] = s[i]
      /\ Append(s, e)[Len(s) + 1] = e
  BY AppendProperties
<1>2. DOMAIN s = 1..Len(s) /\ DOMAIN Append(s, e) = 1..(Len(s) + 1) /\ Len(s) \in Nat
  BY <1>1, LenProperties
<1>3. ToSet(Append(s, e)) = ToSet(s) \cup {e}
  <2>1. \A i \in 1..(Len(s) + 1) : i \in 1..Len(s) \/ i = Len(s) + 1
    BY <1>2
  <2>2. Len(s) + 1 \in 1..(Len(s) + 1) /\ 1..Len(s) \subseteq 1..(Len(s) + 1)
    BY <1>2
  <2> QED
    BY <1>1, <1>2, <2>1, <2>2 DEF ToSet
<1> QED
  BY <1>1, <1>2, <1>3

(* An event is in the list it was appended to.                              *)
LEMMA FailedAppend ==
  ASSUME NEW S, NEW s \in Seq(S), NEW e \in S
  PROVE  Failed(Append(s, e)) <=> Failed(s) \/ e.status = "failed"
<1>1. ToSet(Append(s, e)) = ToSet(s) \cup {e}
  BY ToSetAppend
<1> QED
  BY <1>1 DEF Failed

(* What no step of the worker disturbs.                                     *)
LEMMA WorkerQuiet ==
  ASSUME VInv, harness.pc = "policy", FieldsOK', UNCHANGED <<backend, moves, queue, sent, harness, report>>,
         worker.pc # "moving" \/ answer["worker"] # NoAnswer, Evidence => Evidence',
         worker'.pc = "exited" /\ worker'.code = 0 => file'.events = worker'.events
  PROVE  VInv'
<1>1. SimOK /\ QueueOK /\ PolicyOK /\ RecordOK
  BY DEF VInv
<1>2. SimOK'
  BY <1>1 DEF SimOK, Past
<1>3. (Stale' <=> Stale) /\ (Lag' <=> Lag) /\ (\A ops : Pending(ops)' <=> Pending(ops))
  BY DEF Stale, Lag, Here, Pending
<1>4. QueueOK'
  BY <1>1, <1>3 DEF QueueOK
<1>5. WaitOK' /\ RecordOK'
  BY <1>1 DEF WaitOK, RecordOK, Request, OnVerdict
<1>6. PolicyOK'
  <2>1. \A i \in 1..Len(queue) : queue[i].op \in Moving => Evidence'
    BY <1>1 DEF PolicyOK, Awaited
  <2> QED
    BY <1>1, <1>3, <2>1 DEF PolicyOK
<1> QED
  BY <1>2, <1>4, <1>5, <1>6 DEF VInv

(* The worker sends a request.                                              *)
LEMMA WorkerSends ==
  ASSUME EpisodeAssumption, ServiceAssumption, RInv, VInv, harness.pc = "policy", FieldsOK',
         UNCHANGED <<simVars, harness, report, file>>,
         NEW op \in {"session", "step"}, Ask("worker", op), op = "step" => worker'.pc = "moving",
         worker.pc # "moving" \/ answer["worker"] # NoAnswer, Evidence => Evidence',
         worker'.pc # "exited"
  PROVE  VInv'
<1>1. /\ "worker" \in Clients /\ harness.config \in Configs \cup {NoConfig}
      /\ WireOK /\ SimOK /\ QueueOK /\ PolicyOK /\ RecordOK /\ "policy" \in InEpisode
  BY DEF EpisodeAssumption, RInv, PartiesOK, VInv, InEpisode
<1>2. SendAfter(sent, "worker", op, harness.config)
  BY DEF Ask, Send
<1>3. op \in Operations /\ op \notin Ending /\ (op \in Moving => op = "step")
  BY DEF Operations, Ending, Moving
<1>4. ~Stale /\ ~Pending(Ending)
  BY <1>1 DEF QueueOK
<1>5. /\ SimOK' /\ QueueOK'
      /\ (Lag' <=> Lag)
      /\ Len(queue) \in Nat /\ Len(queue') = Len(queue) + 1
      /\ \A i \in 1..Len(queue) : queue'[i] = queue[i]
      /\ queue'[Len(queue')] = [id |-> sent + 1, from |-> "worker", op |-> op, config |-> harness.config]
      /\ call'["worker"] = sent + 1 /\ answer'["worker"] = NoAnswer
  BY <1>1, <1>2, <1>3, <1>4, SendFits
<1>6. WaitOK' /\ RecordOK'
  BY <1>1 DEF WaitOK, RecordOK, Request, OnVerdict
<1>7. ASSUME NEW i \in 1..Len(queue'), queue'[i].op \in Moving
      PROVE  Evidence' \/ Awaited(i)'
  <2>1. CASE i \in 1..Len(queue)
    <3>1. queue[i].op \in Moving
      BY <1>5, <1>7, <2>1
    <3> QED
      BY <1>1, <2>1, <3>1 DEF PolicyOK, Awaited
  <2>2. CASE i \notin 1..Len(queue)
    <3>1. i = Len(queue')
      BY <1>5, <2>2
    <3>2. queue'[i].op = op /\ queue'[i].from = "worker" /\ queue'[i].id = call'["worker"]
      BY <1>5, <3>1
    <3>3. worker'.pc = "moving"
      BY <1>3, <1>7, <3>2
    <3> QED
      BY <1>5, <3>2, <3>3 DEF Awaited
  <2> QED
    BY <2>1, <2>2
<1>8. PolicyOK'
  BY <1>1, <1>5, <1>7 DEF PolicyOK
<1> QED
  BY <1>5, <1>6, <1>8 DEF VInv

(* The steps of the worker.                                                 *)
LEMMA WorkerFits ==
  ASSUME EpisodeAssumption, ServiceAssumption, RInv, WorkerOK, VInv, WorkerStep
  PROVE  VInv'
<1>1. /\ worker.pc \notin {"off", "exited"} /\ WorkerFields \subseteq DOMAIN worker
      /\ {"raises", "code"} \subseteq DOMAIN worker
      /\ UNCHANGED <<simVars, harness, report, runs>> /\ UNCHANGED <<backend, moves>>
  BY DEF WorkerStep, WorkerAttaches, AttachAnswered, SensorCall, MotionCall, StepAnswered, CallReturns,
     PolicyReturns, WorkerExits, Worker, serviceVars, simVars, WorkerOK, VInv, FieldsOK
<1>2. harness.pc = "policy" /\ FieldsOK
  BY <1>1 DEF RInv, PartiesOK, VInv
<1>3. {"raises", "code"} \subseteq DOMAIN worker' => FieldsOK'
  BY <1>1, <1>2 DEF FieldsOK
<1>4. CASE WorkerAttaches
  <2>1. worker.pc = "starting" /\ worker'.pc = "attaching" /\ worker'.events = worker.events
        /\ {"raises", "code"} \subseteq DOMAIN worker' /\ Ask("worker", "session") /\ file' = file
    BY <1>1, <1>4 DEF WorkerAttaches, Worker, WorkerFields
  <2>2. Evidence => Evidence'
    BY <2>1 DEF Evidence
  <2> QED
    BY <1>1, <1>2, <1>3, <2>1, <2>2, WorkerSends
<1>5. CASE MotionCall
  <2>1. worker.pc = "running" /\ worker'.pc = "moving" /\ worker'.events = worker.events
        /\ {"raises", "code"} \subseteq DOMAIN worker' /\ Ask("worker", "step") /\ file' = file
    BY <1>1, <1>5 DEF MotionCall, Worker, WorkerFields
  <2>2. Evidence => Evidence'
    BY <2>1 DEF Evidence
  <2> QED
    BY <1>1, <1>2, <1>3, <2>1, <2>2, WorkerSends
<1>6. CASE AttachAnswered \/ SensorCall \/ PolicyReturns
  <2>1. worker.pc \in {"attaching", "running"} /\ worker'.pc \in {"running", "ending", "returning"}
        /\ worker'.events = worker.events /\ {"raises", "code"} \subseteq DOMAIN worker'
        /\ UNCHANGED <<queue, sent, file>>
    BY <1>1, <1>6 DEF AttachAnswered, SensorCall, PolicyReturns, Worker, WorkerFields, serviceVars
  <2>2. Evidence => Evidence'
    BY <2>1 DEF Evidence
  <2> QED
    BY <1>1, <1>2, <1>3, <2>1, <2>2, WorkerQuiet
<1>7. CASE StepAnswered
  <2>1. worker.pc = "moving" /\ answer["worker"] # NoAnswer
    BY <1>7 DEF StepAnswered, Worker, Answered
  <2>2. CASE /\ worker' = [worker EXCEPT !.pc = "returning", !.raises = TRUE]
             /\ UNCHANGED <<queue, sent>>
    <3>1. worker'.pc = "returning" /\ worker'.raises /\ {"raises", "code"} \subseteq DOMAIN worker'
      BY <1>1, <2>2 DEF WorkerFields
    <3>2. Evidence'
      BY <3>1 DEF Evidence
    <3> QED
      BY <1>1, <1>2, <1>3, <2>1, <2>2, <3>1, <3>2, WorkerQuiet
  <2> DEFINE w == Acknowledged(worker, "worker")
  <2>3. w.events = worker.events /\ DOMAIN w = DOMAIN worker /\ w.pc = worker.pc
    BY <1>1 DEF Acknowledged, WorkerFields
  <2>4. answer["worker"].ok => answer["worker"] # Error
    BY DEF Error
  <2> HIDE DEF w
  <2>5. CASE /\ answer["worker"].ok /\ UNCHANGED <<queue, sent>>
             /\ \E raises \in BOOLEAN : worker' = [w EXCEPT !.pc = "returning", !.raises = raises]
    <3>1. worker'.pc = "returning" /\ worker'.events = worker.events
          /\ {"raises", "code"} \subseteq DOMAIN worker'
      BY <1>1, <2>3, <2>5 DEF WorkerFields
    <3>2. Evidence => Evidence'
      BY <2>1, <2>4, <2>5, <3>1 DEF Evidence
    <3> QED
      BY <1>1, <1>2, <1>3, <2>1, <2>5, <3>1, <3>2, WorkerQuiet
  <2>6. CASE /\ answer["worker"].ok /\ Ask("worker", "step")
             /\ worker' = [w EXCEPT !.asked = @ \cup {sent + 1}]
    <3>1. worker'.pc = "moving" /\ worker'.events = worker.events
          /\ {"raises", "code"} \subseteq DOMAIN worker' /\ file' = file
      BY <1>1, <1>7, <2>1, <2>3, <2>6 DEF WorkerFields, StepAnswered
    <3>2. Evidence => Evidence'
      BY <2>1, <2>4, <2>6, <3>1 DEF Evidence
    <3> QED
      BY <1>1, <1>2, <1>3, <2>1, <2>6, <3>1, <3>2, WorkerSends
  <2> QED
    BY <1>7, <2>2, <2>5, <2>6 DEF StepAnswered, w
<1>8. CASE CallReturns
  <2> DEFINE e == [sequence |-> worker.seq, of |-> worker.calls, asked |-> worker.asked,
                   status |-> IF worker.raises THEN "failed" ELSE "completed"]
             w == Emitted(worker)
  <2>1. w.events = Append(worker.events, e) /\ DOMAIN w = DOMAIN worker
    BY <1>1 DEF Emitted, WorkerFields
  <2>2. e \in Event
    BY LenProperties DEF Event, WorkerOK
  <2>3. Failed(w.events) <=> Failed(worker.events) \/ worker.raises
    <3>1. Failed(w.events) <=> Failed(worker.events) \/ e.status = "failed"
      <4> HIDE DEF e, w
      <4> QED
        BY <2>1, <2>2, FailedAppend DEF WorkerOK
    <3>2. e.status = "failed" <=> worker.raises
      OBVIOUS
    <3> QED
      BY <3>1, <3>2
  <2>4. worker.pc = "returning" /\ UNCHANGED <<queue, sent>>
    BY <1>8 DEF CallReturns, Worker, serviceVars
  <2>5. worker' \in {[w EXCEPT !.pc = "running"], [w EXCEPT !.pc = "ending"]}
    BY <1>8 DEF CallReturns, Persist
  <2> HIDE DEF w, e
  <2>6. worker'.pc \in {"running", "ending"} /\ worker'.events = w.events
        /\ {"raises", "code"} \subseteq DOMAIN worker'
    BY <1>1, <2>1, <2>5 DEF WorkerFields
  <2>7. Evidence => Evidence'
    BY <2>3, <2>4, <2>6 DEF Evidence
  <2> QED
    BY <1>1, <1>2, <1>3, <2>4, <2>6, <2>7, WorkerQuiet
<1>9. CASE WorkerExits
  <2>1. worker.pc = "ending" /\ UNCHANGED <<queue, sent>>
    BY <1>9 DEF WorkerExits, Worker, serviceVars
  <2> DEFINE code == IF worker.status = "completed" THEN 0 ELSE 1
             out == [status |-> worker.status,
                     trace |-> IF worker.pc = "ending" THEN worker.trace ELSE <<>>,
                     events |-> worker.events]
  <2>2. \/ file' = out /\ worker' = [worker EXCEPT !.pc = "exited", !.code = code]
        \/ worker' = [worker EXCEPT !.pc = "exited", !.code = 1]
    BY <1>9 DEF WorkerExits, Persist
  <2>3. worker'.pc = "exited" /\ worker'.events = worker.events
        /\ {"raises", "code"} \subseteq DOMAIN worker'
        /\ (worker'.code = 0 => file'.events = worker.events)
    <3>1. out.events = worker.events
      OBVIOUS
    <3> HIDE DEF out, code
    <3>2. CASE file' = out /\ worker' = [worker EXCEPT !.pc = "exited", !.code = code]
      BY <1>1, <3>1, <3>2 DEF WorkerFields
    <3>3. CASE worker' = [worker EXCEPT !.pc = "exited", !.code = 1]
      <4>1. worker'.code = 1
        BY <1>1, <3>3 DEF WorkerFields
      <4> QED
        BY <1>1, <3>3, <4>1 DEF WorkerFields
    <3> QED
      BY <2>2, <3>2, <3>3
  <2>4. Evidence => Evidence'
    BY <2>1, <2>3 DEF Evidence
  <2> QED
    BY <1>1, <1>2, <1>3, <2>1, <2>3, <2>4, WorkerQuiet
<1> QED
  BY <1>4, <1>5, <1>6, <1>7, <1>8, <1>9 DEF WorkerStep

(* Every step keeps the invariant.                                          *)
LEMMA FitKeeps ==
  EpisodeAssumption /\ ServiceAssumption /\ RInv /\ EventsInv /\ VInv /\ [EpisodeNext]_vars => VInv'
<1> SUFFICES ASSUME EpisodeAssumption, ServiceAssumption, RInv, EventsInv, VInv, [EpisodeNext]_vars
             PROVE  VInv'
  OBVIOUS
<1>1. CASE HarnessStep
  BY <1>1, ResetAnsweredFits, OthersAnsweredFit, PolicyEndsFit, CloseAnsweredFits DEF HarnessStep
<1>2. CASE ServiceStep
  <2>1. UNCHANGED <<harness, worker, file, report, runs>> /\ "harness" \in Clients /\ "worker" \in Clients
    BY <1>2 DEF ServiceStep, EpisodeAssumption
  <2>2. CASE Serve
    <3>1. SimOK'
      BY <2>2, ServeSim
    <3>2. QueueOK' /\ WaitOK' /\ PolicyOK' /\ RecordOK'
      BY <2>1, <2>2, ServeQueue, ServeWait, ServePolicy, ServeRecord
    <3>3. FieldsOK'
      BY <2>1 DEF VInv, FieldsOK
    <3> QED
      BY <3>1, <3>2, <3>3 DEF VInv
  <2> QED
    BY <1>2, <2>1, <2>2, CallFailsFits DEF ServiceStep
<1>3. CASE UNCHANGED vars
  <2>1. UNCHANGED <<queue, backend, moves, sent, call, answer, harness, worker, file, report>>
    BY <1>3 DEF vars
  <2>2. FieldsOK' /\ WaitOK'
    BY <2>1 DEF VInv, FieldsOK, WaitOK, Lag, Here
  <2>3. SimOK'
    BY <2>1 DEF VInv, SimOK, Past
  <2>4. QueueOK'
    BY <2>1 DEF VInv, QueueOK, Stale, Pending
  <2>5. PolicyOK'
    BY <2>1 DEF VInv, PolicyOK, Lag, Here, Evidence, Awaited
  <2>6. RecordOK'
    BY <2>1 DEF VInv, RecordOK, Lag, Here, Pending, OnVerdict
  <2> QED
    BY <2>2, <2>3, <2>4, <2>5, <2>6 DEF VInv
<1> QED
  BY <1>1, <1>2, <1>3, RunBeginsFits, WorkerFits DEF EpisodeNext, EventsInv

(* The invariant is inductive.                                              *)
LEMMA VerdictInvariant == EpisodeSpec => []VInv
<1>1. EpisodeInit => VInv
  <2> SUFFICES ASSUME EpisodeInit PROVE VInv
    OBVIOUS
  <2>1. /\ queue = <<>> /\ backend = NoBackend /\ moves = [e \in Episodes |-> <<>>] /\ sent = 0
        /\ harness = IdleHarness /\ worker = NoWorker /\ report = NoReport
    BY DEF EpisodeInit, ServiceInit
  <2>2. harness.pc = "idle" /\ worker.pc = "off" /\ report.status = "none" /\ FieldsOK
    BY <2>1 DEF IdleHarness, NoWorker, NoReport, FieldsOK
  <2>3. ~Stale /\ ~Lag /\ Len(queue) = 0
    BY <2>1 DEF Stale, Lag
  <2>4. \A i \in 1..Len(queue) : FALSE
    BY <2>3
  <2>5. SimOK
    <3>1. 0 <= MaxRequests
      BY ServiceAssumption DEF ServiceAssumption
    <3>2. moves \in [Episodes -> Seq(Nat)] /\ \A e \in Episodes : moves[e] = <<>>
      BY <2>1, EmptySeq
    <3> QED
      BY <2>1, <3>1, <3>2 DEF SimOK
  <2>6. QueueOK
    BY <2>2, <2>3, <2>4 DEF QueueOK, InEpisode
  <2>7. WaitOK /\ PolicyOK /\ RecordOK
    BY <2>2 DEF WaitOK, PolicyOK, RecordOK, Request
  <2> QED
    BY <2>2, <2>5, <2>6, <2>7 DEF VInv
<1> QED
  BY <1>1, FitKeeps, EpisodeInvariant, EventsInvariant, EpisodeAssumption, ServiceAssumption, PTL
     DEF EpisodeSpec

(* What the backend remembers is of one episode (backend.py:116-118), for   *)
(* every plan of runs, whatever raises and whatever is left in the queue by *)
(* a wait that ended.                                                       *)
THEOREM BackendCoherentHolds == EpisodeSpec => []BackendCoherent
<1>1. VInv => BackendCoherent
  <2> SUFFICES ASSUME VInv, backend # NoBackend, backend.raw # NoView
               PROVE  /\ backend.raw.ep = backend.seed
                      /\ backend.raw.n <= Len(moves[backend.seed])
                      /\ Len(backend.trace) <= backend.raw.n
                      /\ ToSet(backend.trace) \subseteq ToSet(moves[backend.seed])
    BY DEF BackendCoherent
  <2>1. /\ backend \in BackendRec /\ Remembers(backend, moves) /\ moves \in [Episodes -> Seq(Nat)]
    BY DEF VInv, SimOK
  <2>2. /\ backend.seed \in Episodes /\ backend.raw.ep = backend.seed
        /\ Len(backend.trace) <= backend.raw.n /\ backend.raw.n <= Len(moves[backend.seed])
        /\ \A i \in 1..Len(backend.trace) :
             \E j \in 1..Len(moves[backend.seed]) : moves[backend.seed][j] = backend.trace[i]
    BY <2>1 DEF Remembers
  <2>3. DOMAIN backend.trace = 1..Len(backend.trace)
        /\ DOMAIN moves[backend.seed] = 1..Len(moves[backend.seed])
    BY <2>1, <2>2, BackendIsRecord, LenProperties
  <2>4. ToSet(backend.trace) \subseteq ToSet(moves[backend.seed])
    BY <2>2, <2>3 DEF ToSet
  <2> QED
    BY <2>2, <2>4
<1> QED
  BY <1>1, VerdictInvariant, PTL

(* The verdict is about the state of the final observation, also when a     *)
(* step that was given up was on its way (runner.py:88-89), for every plan  *)
(* of runs and all faults.                                                  *)
THEOREM VerdictOnFinalStateHolds == EpisodeSpec => []VerdictOnFinalState
<1>1. VInv => VerdictOnFinalState
  BY DEF VInv, RecordOK, OnVerdict, Failed, VerdictOnFinalState
<1> QED
  BY <1>1, VerdictInvariant, PTL

-----------------------------------------------------------------------------
(* Where the robot's steps went.  Every step in the queue and every step    *)
(* made belongs to the call that is open, to a call that has failed, or was *)
(* acknowledged; and requests are served in the order of their numbers.     *)
Made == moves[backend.ep]

Increasing(s) == \A i, j \in 1..Len(s) : i < j => s[i] < s[j]

StepFailed ==
  \/ worker.pc = "returning" /\ worker.raises
  \/ worker.pc = "moving" /\ answer["worker"] = Error

Lost == FailedSteps(worker.events) \cup (IF StepFailed THEN worker.asked ELSE {})

Due(id) == worker.pc = "moving" /\ id = call["worker"]

(* What is known of a run whose steps were all made by its policy.          *)
Recorded(made, first, trace) ==
  /\ Increasing(made) /\ trace \in Seq(Nat) /\ Increasing(trace)
  /\ ToSet(trace) \subseteq ToSet(made)
  /\ \A i \in 1..Len(made) : made[i] >= first

ServedOK ==
  /\ \A e \in Episodes : \A j \in 1..Len(moves[e]) : Past(moves[e][j])
  /\ harness.first \in Nat /\ harness.first <= sent
  /\ harness.pc \in InEpisode => backend # NoBackend

PolicySteps ==
  /\ harness.pc = "policy" =>
       /\ Recorded(Made, harness.first, worker.trace)
       /\ \A i \in 1..Len(worker.trace) : worker.trace[i] <= sent
       /\ \A i \in 1..Len(Made) : Made[i] \in ToSet(worker.trace) \cup Lost \/ Due(Made[i])
       /\ \A i \in 1..Len(queue) : queue[i].op \in Moving =>
            /\ queue[i].op = "step" /\ queue[i].id >= harness.first
            /\ queue[i].id \in Lost \/ Awaited(i)
       /\ worker.pc = "moving" =>
            /\ call["worker"] \in worker.asked /\ call["worker"] <= sent
            /\ \A i \in 1..Len(worker.trace) : worker.trace[i] < call["worker"]
            /\ answer["worker"] = NoAnswer =>
                 \A i \in 1..Len(queue) : queue[i].id = call["worker"] => queue[i].op = "step"
            /\ answer["worker"] \notin {NoAnswer, Error} => call["worker"] \in ToSet(Made)
  /\ worker.pc = "exited" /\ worker.code = 0 => file.trace = worker.trace

HarnessSteps ==
  /\ harness.pc \in {"reference", "stepping"} => call["harness"] >= harness.first
  /\ harness.pc = "resetting" => harness.trace = <<>>
  /\ harness.pc = "resetting" /\ answer["harness"] \notin {NoAnswer, Error} =>
       Made = <<>> /\ backend.trace = <<>>
  /\ harness.pc = "reference" =>
       /\ answer["harness"] = NoAnswer => Made = <<>> /\ backend.trace = <<>>
       /\ answer["harness"] \notin {NoAnswer, Error} =>
            answer["harness"].trace = Made /\ \A i \in 1..Len(Made) : Made[i] >= harness.first
  /\ harness.pc = "stepping" =>
       /\ answer["harness"] # Error => \A i \in 1..Len(Made) : Made[i] >= harness.first
       /\ answer["harness"] = NoAnswer => Made = harness.trace
       /\ answer["harness"] \notin {NoAnswer, Error} => Made = Append(harness.trace, call["harness"])

ResultSteps ==
  /\ harness.pc = "refreshing" /\ harness.exec.status = "completed" =>
       /\ Recorded(Made, harness.first, harness.exec.trace)
       /\ \A i \in 1..Len(Made) :
            Made[i] \in ToSet(harness.exec.trace) \cup FailedSteps(harness.exec.events)
       /\ \A i \in 1..Len(queue) : queue[i].op \in Moving =>
            /\ queue[i].op = "step" /\ queue[i].id >= harness.first
            /\ queue[i].id \in FailedSteps(harness.exec.events)
  /\ harness.pc = "checking" /\ answer["harness"] # Error =>
       Accounted(Made, harness.first, harness.trace, harness.exec.events)
  /\ harness.pc = "closing" /\ harness.status = "completed" =>
       /\ Accounted(moves[harness.verdict.ep], harness.first, harness.trace, harness.exec.events)
       /\ ~Pending(Moving)
  /\ StepsAccounted

StepFields ==
  /\ {"first", "trace"} \subseteq DOMAIN harness
  /\ "trace" \in DOMAIN worker

SInv == StepFields /\ ServedOK /\ PolicySteps /\ HarnessSteps /\ ResultSteps

(* What the answer a to request r says of the steps it made.                *)
StepTold(r, a, j) ==
  /\ Bound /\ backend' # NoBackend /\ backend'.ep = backend.ep /\ moves' = Moved(r.id, j)
  /\ r.op = "step" => j \in {0, 1} /\ (a # Error => j = 1)
  /\ a # Error => a.trace = backend.trace \o [i \in 1..j |-> r.id]

Told(r, a) ==
  /\ "ok" \in DOMAIN a
  /\ r.op \notin Moving => UNCHANGED moves
  /\ a # Error /\ r.op = "reset" => Made' = <<>> /\ backend'.trace = <<>>
  /\ r.op \in Moving => \/ a = Error /\ UNCHANGED <<backend, moves>>
                        \/ \E j \in Nat : StepTold(r, a, j)

(* An error tells nothing of a request that made no step.                   *)
LEMMA ErrorTold ==
  ASSUME NEW r, UNCHANGED moves, r.op \in Moving => UNCHANGED backend
  PROVE  Told(r, Error)
BY DEF Told, Error

(* A reset that is answered leaves an empty trace and no step.              *)
LEMMA ResetTold ==
  ASSUME UNCHANGED moves, NEW r, r.op = "reset", r.id \in Episodes, moves[r.id] = <<>>,
         NEW b \in BackendRec, NEW cfg, NEW L, EnvReset(r, b, cfg, L)
  PROVE  \E a : Reply(r, a) /\ Told(r, a)
<1> DEFINE g == Begun(b, r.id)
           v == [View(g, cfg) EXCEPT !.now = [ep |-> r.id, n |-> 0]]
<1>1. r.op \notin Moving /\ Told(r, Error)
  <2>1. r.op \notin Moving
    BY DEF Moving
  <2> QED
    BY <2>1, ErrorTold
<1>2. CASE Reply(r, Error)
  BY <1>1, <1>2
<1>3. CASE backend' = g /\ Reply(r, v)
  <2>1. g.ep = r.id /\ g.trace = <<>>
    BY DEF Begun, BackendRec
  <2>2. "ok" \in DOMAIN v
    BY DEF View
  <2> HIDE DEF g, v
  <2>3. Made' = <<>> /\ backend'.trace = <<>>
    BY <1>3, <2>1 DEF Made
  <2>4. Told(r, v)
    BY <1>1, <2>2, <2>3 DEF Told
  <2> QED
    BY <1>3, <2>4
<1> QED
  BY <1>2, <1>3 DEF EnvReset, Observed

(* The same of a reset, whichever of its calls raises.                      *)
LEMMA ServeResetTold ==
  ASSUME ServiceAssumption, SimOK, NEW r, r.op = "reset", r.id \in Episodes, moves[r.id] = <<>>,
         ServeReset(r)
  PROVE  \E a : Reply(r, a) /\ Told(r, a)
<1>1. UNCHANGED moves /\ r.op \notin Moving
  BY DEF ServeReset, CloseRaises, Moving
<1>2. CASE backend # NoBackend /\ EnvReset(r, backend, config, live)
  BY <1>1, <1>2, ResetTold DEF SimOK
<1>3. CASE Reply(r, Error)
  BY <1>1, <1>3, ErrorTold
<1>4. CASE EnvReset(r, NewBackend(r.id), r.config, Closed \cup {r.id})
  <2> DEFINE b == NewBackend(r.id)
  <2>1. b \in BackendRec
    BY NewRemembers
  <2> HIDE DEF b
  <2>2. EnvReset(r, b, r.config, Closed \cup {r.id})
    BY <1>4 DEF b
  <2> QED
    BY <1>1, <2>1, <2>2, ResetTold
<1> QED
  BY <1>2, <1>3, <1>4 DEF ServeReset, CloseRaises

(* A request for steps makes copies of its number, and an answer that is    *)
(* not an error acknowledges them all.                                      *)
LEMMA ServeMovingTold ==
  ASSUME ServiceAssumption, SimOK, ~Stale, NEW r, r.op \in Moving, r.id \in Episodes,
         \/ r.op = "step" /\ ServeStep(r)
         \/ r.op = "reference" /\ ServeReference(r)
  PROVE  \E a : Reply(r, a) /\ Told(r, a)
<1>1. r.id \in Nat /\ r.op # "reset" /\ 0..MaxReference \subseteq Nat
  BY DEF Episodes, ServiceAssumption, Moving
<1>2. CASE Refused(r)
  BY <1>2, ErrorTold DEF Refused, simVars
<1>3. BackendUsable => Bound
  BY BoundBackend DEF BackendUsable
<1>4. ASSUME BackendUsable, NEW k \in Nat, r.op = "step" => k = 0, StepRaises(r, k), Reply(r, Error)
      PROVE  \E a : Reply(r, a) /\ Told(r, a)
  <2>1. PICK j \in {k, k + 1} : moves' = Moved(r.id, j)
    BY <1>4 DEF StepRaises
  <2>2. backend' # NoBackend /\ Bound
    BY <1>1, <1>3, <1>4, RaisesFits
  <2>3. backend'.ep = backend.ep
    <3>1. Bound /\ backend \in BackendRec
      BY <1>3, <1>4 DEF Bound
    <3>2. Stepped(r.id, k).ep = backend.ep /\ "ep" \in DOMAIN Stepped(r.id, k)
      BY <3>1 DEF Stepped, BackendRec
    <3>3. PICK v : backend' = Stepped(r.id, k) \/ backend' = [Stepped(r.id, k) EXCEPT !.raw = v]
      BY <1>4 DEF StepRaises
    <3> QED
      BY <3>2, <3>3
  <2>4. StepTold(r, Error, j)
    BY <1>4, <2>1, <2>2, <2>3 DEF StepTold
  <2>5. j \in Nat
    BY <1>4
  <2>6. Told(r, Error)
    BY <1>1, <2>4, <2>5 DEF Told, Error
  <2> QED
    BY <1>4, <2>6
<1>5. ASSUME BackendUsable, NEW k \in Nat, r.op = "step" => k = 1,
             backend' = Stepped(r.id, k), moves' = Moved(r.id, k),
             NEW a, a = Error \/ ("ok" \in DOMAIN a /\ a.trace = backend'.trace), Reply(r, a)
      PROVE  \E x : Reply(r, x) /\ Told(r, x)
  <2> DEFINE n == IF k = 0 THEN backend.raw.n ELSE Len(moves[backend.ep]) + k
             u == backend.trace \o [i \in 1..k |-> r.id]
  <2>1. Stepped(r.id, k) = [backend EXCEPT !.raw = [ep |-> backend.ep, n |-> n], !.trace = u]
    BY <1>1, <1>3, <1>5, SteppedIs
  <2>2. backend \in BackendRec
    BY <1>3, <1>5 DEF Bound
  <2>3. backend'.ep = backend.ep /\ backend'.trace = u
    <3> HIDE DEF n, u
    <3> QED
      BY <1>5, <2>1, <2>2 DEF BackendRec
  <2>4. backend' # NoBackend
    BY <1>1, <1>3, <1>5, CompleteFits
  <2>5. StepTold(r, a, k)
    BY <1>3, <1>5, <2>3, <2>4 DEF StepTold, Error
  <2>6. Told(r, a)
    BY <1>1, <1>5, <2>5 DEF Told, Error
  <2> QED
    BY <1>5, <2>6
<1>6. CASE r.op = "step" /\ ServeStep(r) /\ BackendUsable
  <2>1. CASE StepRaises(r, 0) /\ Reply(r, Error)
    BY <1>4, <1>6, <2>1
  <2>2. CASE ~(StepRaises(r, 0) /\ Reply(r, Error))
    <3> DEFINE a == [View(backend', config) EXCEPT !.now = [ep |-> backend.ep, n |-> Len(moves'[backend.ep])]]
    <3>1. backend' = Stepped(r.id, 1) /\ moves' = Moved(r.id, 1) /\ Reply(r, a)
      BY <1>6, <2>2 DEF ServeStep
    <3>2. "ok" \in DOMAIN a /\ a.trace = backend'.trace
      BY DEF View
    <3> HIDE DEF a
    <3> QED
      BY <1>5, <1>6, <3>1, <3>2
  <2> QED
    BY <2>1, <2>2
<1>7. CASE r.op = "reference" /\ ServeReference(r) /\ BackendUsable
  <2> DEFINE a == [View(backend', config) EXCEPT !.now = [ep |-> backend.ep, n |-> Len(moves'[backend.ep])]]
  <2>1. PICK k \in 0..MaxReference :
          \/ StepRaises(r, k) /\ Reply(r, Error)
          \/ backend' = Stepped(r.id, k) /\ moves' = Moved(r.id, k) /\ (Reply(r, Error) \/ Reply(r, a))
    BY <1>7 DEF ServeReference, Observed
  <2>2. "ok" \in DOMAIN a /\ a.trace = backend'.trace
    BY DEF View
  <2> HIDE DEF a
  <2>3. k \in Nat /\ r.op # "step"
    BY <1>1, <1>7
  <2> QED
    BY <1>4, <1>5, <1>7, <2>1, <2>2, <2>3
<1> QED
  BY <1>2, <1>6, <1>7 DEF ServeStep, ServeReference

(* The same of every request that is served.                                *)
LEMMA HandleTold ==
  ASSUME ServiceAssumption, SimOK, NEW r, r.id \in Episodes, moves[r.id] = <<>>,
         r.op \in Moving => ~Stale, Handle(r)
  PROVE  \E a : Reply(r, a) /\ Told(r, a)
<1>1. CASE r.op = "reset" /\ ServeReset(r)
  BY <1>1, ServeResetTold
<1>2. CASE \/ r.op = "step" /\ ServeStep(r)
           \/ r.op = "reference" /\ ServeReference(r)
  BY <1>2, ServeMovingTold DEF Moving
<1>3. CASE r.op \notin Moving /\ r.op # "reset" /\ (ServeObserve(r) \/ ServeSuccess(r) \/ ServeClose(r))
  <2>1. UNCHANGED moves
    BY <1>3 DEF ServeObserve, ServeSuccess, ServeClose, CloseRaises, Refused, simVars
  <2>2. PICK a : Reply(r, a) /\ "ok" \in DOMAIN a
    <3>1. "ok" \in DOMAIN Error /\ "ok" \in DOMAIN View(backend, config) /\ "ok" \in DOMAIN [ok |-> TRUE]
      BY DEF Error, View
    <3> QED
      BY <1>3, <3>1 DEF ServeObserve, ServeSuccess, ServeClose, CloseRaises, Refused, Observed
  <2> QED
    BY <1>3, <2>1, <2>2 DEF Told
<1> QED
  BY <1>1, <1>2, <1>3 DEF Handle, Moving

(* The steps of one request lie behind those that were made.                *)
LEMMA MadeGrows ==
  ASSUME Bound, NEW id \in Nat, NEW j \in Nat, moves' = Moved(id, j), backend'.ep = backend.ep
  PROVE  /\ Made \in Seq(Nat) /\ Len(Made) \in Nat /\ Made' = Made \o [i \in 1..j |-> id]
         /\ Made' \in Seq(Nat) /\ Len(Made') = Len(Made) + j
         /\ \A i \in 1..Len(Made) : Made'[i] = Made[i]
         /\ \A i \in (Len(Made) + 1)..(Len(Made) + j) : Made'[i] = id
         /\ \A e \in Episodes : e # backend.ep => moves'[e] = moves[e]
<1> DEFINE t == Made \o [i \in 1..j |-> id]
<1>1. Made \in Seq(Nat) /\ backend.ep \in Episodes /\ Len(Made) \in Nat
  BY LenProperties DEF Bound, Made
<1>2. /\ t \in Seq(Nat) /\ Len(t) = Len(Made) + j
      /\ \A i \in 1..Len(Made) : t[i] = Made[i]
      /\ \A i \in 1..j : t[Len(Made) + i] = id
  BY <1>1, Longer
<1>3. moves' = [moves EXCEPT ![backend.ep] = t]
  BY DEF Moved, Made
<1> HIDE DEF t
<1>4. Made' = t /\ \A e \in Episodes : e # backend.ep => moves'[e] = moves[e]
  BY <1>1, <1>3 DEF Bound, Made
<1>5. \A i \in (Len(Made) + 1)..(Len(Made) + j) : t[i] = id
  <2> SUFFICES ASSUME NEW i \in (Len(Made) + 1)..(Len(Made) + j) PROVE t[i] = id
    OBVIOUS
  <2>1. i - Len(Made) \in 1..j /\ Len(Made) + (i - Len(Made)) = i
    BY <1>1
  <2> QED
    BY <1>2, <2>1
<1> QED
  BY <1>1, <1>2, <1>4, <1>5 DEF t

(* What is served is past, and so is every step it makes.                   *)
LEMMA ServeTold ==
  ASSUME EpisodeAssumption, ServiceAssumption, RInv, VInv, ServedOK, Serve, UNCHANGED harness
  PROVE  LET r == queue[1]
         IN  /\ ServedOK'
             /\ \E a : Reply(r, a) /\ Told(r, a)
             /\ \A e \in Episodes : \A j \in 1..Len(moves[e]) : moves[e][j] < r.id
             /\ r.id \in Nat /\ r.id <= sent
<1> DEFINE r == queue[1]
<1>1. /\ SimFits(r) /\ Len(queue) \in Nat \ {0} /\ UNCHANGED wireVars
      /\ r.op \notin Moving \cup Ending => UNCHANGED <<backend, moves>>
      /\ Len(queue') = Len(queue) - 1
      /\ \A i \in 1..Len(queue') : queue'[i] = queue[i + 1]
  BY ServeSim
<1>2. WireOK /\ SimOK /\ QueueOK
  BY DEF RInv, VInv
<1>3. 1 \in 1..Len(queue)
  BY <1>1
<1>4. r.id \in 1..sent /\ r.id \in Episodes /\ sent \in Nat /\ r.id \in Nat /\ r.id <= sent
  BY <1>2, <1>3 DEF WireOK, SimOK, Episodes, ServiceAssumption
<1>5. moves[r.id] = <<>>
  <2>1. ~Past(r.id)
    BY <1>3, <1>4 DEF Past
  <2> QED
    BY <1>2, <1>4, <2>1 DEF SimOK
<1>6. r.op \in Moving => ~Stale
  BY <1>2, <1>3 DEF QueueOK, Pending
<1>7. r.op \in Ending => Pending(Ending)
  BY <1>3 DEF Pending
<1>8. Handle(r)
  BY DEF Serve, NextRequest
<1>9. \A e \in Episodes : \A j \in 1..Len(moves[e]) : moves[e][j] < r.id
  BY <1>3 DEF ServedOK, Past
<1> HIDE DEF r
<1>10. PICK a : Reply(r, a) /\ Told(r, a)
  BY <1>2, <1>4, <1>5, <1>6, <1>8, HandleTold
<1>11. \A x : Past(x) /\ x \in Nat => x <= sent' /\ \A i \in 1..Len(queue') : x < queue'[i].id
  <2>1. \A i \in 1..Len(queue') : i + 1 \in 1..Len(queue)
    BY <1>1
  <2> QED
    BY <1>1, <2>1 DEF Past, wireVars
<1>12. r.id <= sent' /\ \A i \in 1..Len(queue') : r.id < queue'[i].id
  <2>1. \A i \in 1..Len(queue') : i + 1 \in 1..Len(queue) /\ 1 < i + 1
    BY <1>1
  <2>2. \A i \in 1..Len(queue') : r.id < queue[i + 1].id
    BY <1>2, <1>3, <2>1 DEF WireOK, r
  <2> QED
    BY <1>1, <1>4, <2>2 DEF wireVars
<1>13. ASSUME NEW e \in Episodes, NEW j \in 1..Len(moves'[e])
       PROVE  moves'[e][j] <= sent' /\ \A i \in 1..Len(queue') : moves'[e][j] < queue'[i].id
  <2>1. CASE moves'[e] = moves[e]
    <3>1. moves[e] \in Seq(Nat)
      BY <1>2 DEF SimOK
    <3>2. moves[e][j] \in Nat /\ Past(moves[e][j])
      BY <1>13, <2>1, <3>1, ElementOfSeq DEF ServedOK
    <3> QED
      BY <1>11, <2>1, <3>2
  <2>2. CASE moves'[e] # moves[e]
    <3>1. PICK k \in Nat : StepTold(r, a, k)
      BY <1>10, <2>2 DEF Told
    <3>2. /\ Bound /\ Made \in Seq(Nat) /\ Len(Made) \in Nat /\ Len(Made') = Len(Made) + k
          /\ \A i \in 1..Len(Made) : Made'[i] = Made[i]
          /\ \A i \in (Len(Made) + 1)..(Len(Made) + k) : Made'[i] = r.id
          /\ e = backend.ep /\ backend'.ep = backend.ep
      BY <1>4, <2>2, <3>1, MadeGrows DEF StepTold
    <3>3. moves'[e] = Made'
      BY <3>2 DEF Made
    <3>4. CASE j \in 1..Len(Made)
      <4>1. Made[j] \in Nat /\ Past(Made[j]) /\ Made'[j] = Made[j]
        BY <3>2, <3>4, ElementOfSeq DEF ServedOK, Made
      <4> QED
        BY <1>11, <3>3, <4>1
    <3>5. CASE j \notin 1..Len(Made)
      <4>1. j \in (Len(Made) + 1)..(Len(Made) + k)
        BY <1>13, <3>2, <3>3, <3>5
      <4> QED
        BY <1>12, <3>2, <3>3, <4>1
    <3> QED
      BY <3>4, <3>5
  <2> QED
    BY <2>1, <2>2
<1>14. harness.pc \in InEpisode => backend' # NoBackend
  <2> SUFFICES ASSUME harness.pc \in InEpisode PROVE backend' # NoBackend
    OBVIOUS
  <2>1. r.op \notin Ending /\ backend # NoBackend
    BY <1>2, <1>7 DEF QueueOK, ServedOK
  <2> QED
    BY <1>1, <1>10, <2>1 DEF Told, StepTold
<1>15. ServedOK'
  <2>1. \A e \in Episodes : \A j \in 1..Len(moves'[e]) : Past(moves[e][j])'
    BY <1>13 DEF Past
  <2> QED
    BY <1>1, <1>14, <2>1 DEF ServedOK, wireVars
<1> QED
  BY <1>4, <1>9, <1>10, <1>15 DEF r

(* One step more.                                                           *)
LEMMA OneMore ==
  ASSUME NEW s \in Seq(Nat), NEW id \in Nat
  PROVE  s \o [i \in 1..1 |-> id] = Append(s, id)
<1> DEFINE t == s \o [i \in 1..1 |-> id]
           u == Append(s, id)
<1>1. /\ t \in Seq(Nat) /\ Len(t) = Len(s) + 1
      /\ \A i \in 1..Len(s) : t[i] = s[i]
      /\ \A i \in 1..1 : t[Len(s) + i] = id
  BY Longer
<1>2. /\ u \in Seq(Nat) /\ Len(u) = Len(s) + 1
      /\ \A i \in 1..Len(s) : u[i] = s[i]
      /\ u[Len(s) + 1] = id
  BY AppendProperties
<1>3. Len(s) \in Nat
  BY LenProperties
<1> HIDE DEF t, u
<1>4. t[Len(s) + 1] = id
  BY <1>1, 1 \in 1..1
<1>5. \A i \in 1..Len(t) : i \in 1..Len(s) \/ i = Len(s) + 1
  BY <1>1, <1>3
<1>6. \A i \in 1..Len(t) : t[i] = u[i]
  BY <1>1, <1>2, <1>4, <1>5
<1>7. t = u
  BY <1>1, <1>2, <1>6, SeqEqual
<1> QED
  BY <1>7 DEF t, u

(* A trace of everything that was made, and all of it in this run.          *)
LEMMA KeptSelf ==
  ASSUME NEW s \in Seq(Nat), NEW first, \A i \in 1..Len(s) : s[i] >= first, NEW events
  PROVE  Accounted(s, first, s, events)
<1> DEFINE at == [i \in DOMAIN s |-> i]
<1>1. at \in [DOMAIN s -> DOMAIN s] /\ \A i \in DOMAIN s : at[i] = i
  OBVIOUS
<1> HIDE DEF at
<1>2. Kept(s, s)
  <2>1. \A i, j \in DOMAIN s : i < j => at[i] < at[j]
    BY <1>1
  <2> QED
    BY <1>1, <2>1 DEF Kept
<1> QED
  BY <1>2 DEF Accounted

(* A trace in the order of the steps leaves out only steps that failed.     *)
LEMMA RecordedAccounted ==
  ASSUME NEW made \in Seq(Nat), NEW first, NEW trace, Recorded(made, first, trace), NEW events,
         \A i \in 1..Len(made) : made[i] \in ToSet(trace) \cup FailedSteps(events)
  PROVE  Accounted(made, first, trace, events)
<1>1. /\ DOMAIN made = 1..Len(made) /\ DOMAIN trace = 1..Len(trace)
      /\ Len(made) \in Nat /\ Len(trace) \in Nat
  BY LenProperties DEF Recorded
<1>2. /\ \A i \in 1..Len(made) : made[i] \in Nat
      /\ \A i \in 1..Len(trace) : trace[i] \in Nat
  BY ElementOfSeq DEF Recorded
<1>3. \A i \in 1..Len(trace) : \E k \in 1..Len(made) : made[k] = trace[i]
  BY <1>1 DEF Recorded, ToSet
<1> DEFINE at == [i \in 1..Len(trace) |-> CHOOSE k \in 1..Len(made) : made[k] = trace[i]]
<1>4. /\ at \in [1..Len(trace) -> 1..Len(made)]
      /\ \A i \in 1..Len(trace) : at[i] \in 1..Len(made) /\ made[at[i]] = trace[i]
  BY <1>3
<1> HIDE DEF at
<1>5. \A k, l \in 1..Len(made) : k < l => made[k] < made[l]
  BY DEF Recorded, Increasing
<1>6. \A i, j \in 1..Len(trace) : i < j => at[i] < at[j]
  <2> SUFFICES ASSUME NEW i \in 1..Len(trace), NEW j \in 1..Len(trace), i < j PROVE at[i] < at[j]
    OBVIOUS
  <2>1. trace[i] < trace[j]
    BY DEF Recorded, Increasing
  <2>2. PICK k \in 1..Len(made) : k = at[i] /\ made[k] = trace[i]
    BY <1>4
  <2>3. PICK l \in 1..Len(made) : l = at[j] /\ made[l] = trace[j]
    BY <1>4
  <2>4. made[k] < made[l] /\ made[k] \in Nat /\ made[l] \in Nat
    BY <1>2, <2>1, <2>2, <2>3
  <2>5. k # l /\ ~(l < k)
    BY <1>5, <2>4
  <2>6. k < l
    BY <1>1, <2>5
  <2> QED
    BY <2>2, <2>3, <2>6
<1>7. \A k \in 1..Len(made) : made[k] \in ToSet(trace) => \E i \in 1..Len(trace) : at[i] = k
  <2> SUFFICES ASSUME NEW k \in 1..Len(made), made[k] \in ToSet(trace)
               PROVE  \E i \in 1..Len(trace) : at[i] = k
    OBVIOUS
  <2>1. PICK i \in 1..Len(trace) : trace[i] = made[k]
    BY <1>1 DEF ToSet
  <2>2. PICK l \in 1..Len(made) : l = at[i] /\ made[l] = made[k]
    BY <1>4, <2>1
  <2>3. ~(l < k) /\ ~(k < l)
    <3>1. made[k] \in Nat /\ ~(made[k] < made[k])
      BY <1>2
    <3> QED
      BY <1>5, <2>2, <3>1
  <2>4. l = k
    BY <1>1, <2>3
  <2> QED
    BY <2>2, <2>4
<1>8. Kept(trace, made)
  <2>1. at \in [DOMAIN trace -> DOMAIN made] /\ \A i \in DOMAIN trace : made[at[i]] = trace[i]
    BY <1>1, <1>4
  <2>2. \A i, j \in DOMAIN trace : i < j => at[i] < at[j]
    BY <1>1, <1>6
  <2>3. \A k \in DOMAIN made : made[k] \in ToSet(trace) => \E i \in DOMAIN trace : at[i] = k
    BY <1>1, <1>7
  <2> QED
    BY <2>1, <2>2, <2>3 DEF Kept
<1>9. ToSet(made) \subseteq ToSet(trace) \cup FailedSteps(events)
  BY <1>1 DEF ToSet
<1> QED
  BY <1>8, <1>9 DEF Accounted, Recorded

(* Steps in the order of their requests, one per request, stay in it.       *)
LEMMA ServeMade ==
  ASSUME NEW r, r.id \in Nat, NEW a, Told(r, a), r.op \notin Moving => UNCHANGED backend,
         NEW first \in Nat, r.op \in Moving => r.op = "step" /\ r.id >= first,
         NEW trace, Recorded(Made, first, trace), \A j \in 1..Len(Made) : Made[j] < r.id
  PROVE  /\ Recorded(Made', first, trace)
         /\ \A i \in 1..Len(Made') : \/ \E k \in 1..Len(Made) : Made'[i] = Made[k]
                                     \/ r.op \in Moving /\ Made'[i] = r.id
         /\ ToSet(Made) \subseteq ToSet(Made')
         /\ a # Error /\ r.op = "step" => r.id \in ToSet(Made')
<1>1. CASE UNCHANGED <<backend, moves>> /\ ~(a # Error /\ r.op = "step")
  <2>1. Made' = Made
    BY <1>1 DEF Made
  <2> QED
    BY <1>1, <2>1
<1>2. ASSUME NEW j \in Nat, StepTold(r, a, j), r.op = "step"
      PROVE  /\ Recorded(Made', first, trace)
             /\ \A i \in 1..Len(Made') : \/ \E k \in 1..Len(Made) : Made'[i] = Made[k]
                                         \/ r.op \in Moving /\ Made'[i] = r.id
             /\ ToSet(Made) \subseteq ToSet(Made')
             /\ a # Error /\ r.op = "step" => r.id \in ToSet(Made')
  <2>1. /\ Bound /\ moves' = Moved(r.id, j) /\ backend'.ep = backend.ep
        /\ j \in {0, 1} /\ (a # Error => j = 1)
    BY <1>2 DEF StepTold
  <2> DEFINE m == Made
             n == Made'
  <2>2. /\ m \in Seq(Nat) /\ Len(m) \in Nat /\ n \in Seq(Nat) /\ Len(n) = Len(m) + j
        /\ \A i \in 1..Len(m) : n[i] = m[i]
        /\ \A i \in (Len(m) + 1)..(Len(m) + j) : n[i] = r.id
    BY <2>1, MadeGrows
  <2>3. DOMAIN m = 1..Len(m) /\ DOMAIN n = 1..Len(n)
    BY <2>2, LenProperties
  <2>4. Recorded(m, first, trace) /\ \A i \in 1..Len(m) : m[i] < r.id
    OBVIOUS
  <2> HIDE DEF m, n
  <2>5. \A i \in 1..Len(n) : i \in 1..Len(m) \/ (i = Len(m) + 1 /\ n[i] = r.id)
    <3> SUFFICES ASSUME NEW i \in 1..Len(n), i \notin 1..Len(m) PROVE i = Len(m) + 1 /\ n[i] = r.id
      OBVIOUS
    <3>1. j = 1 /\ i = Len(m) + 1 /\ i \in (Len(m) + 1)..(Len(m) + j)
      BY <2>1, <2>2
    <3> QED
      BY <2>2, <3>1
  <2>6. \A i \in 1..Len(n) : n[i] >= first
    <3> SUFFICES ASSUME NEW i \in 1..Len(n) PROVE n[i] >= first
      OBVIOUS
    <3>1. CASE i \in 1..Len(m)
      BY <2>2, <2>4, <3>1 DEF Recorded
    <3> QED
      BY <1>2, <2>5, <3>1 DEF Moving
  <2>7. Increasing(n)
    <3> SUFFICES ASSUME NEW i \in 1..Len(n), NEW k \in 1..Len(n), i < k PROVE n[i] < n[k]
      BY DEF Increasing
    <3>1. i \in 1..Len(m)
      BY <2>2, <2>5
    <3>2. CASE k \in 1..Len(m)
      <4>1. m[i] < m[k]
        BY <2>4, <3>1, <3>2 DEF Recorded, Increasing
      <4> QED
        BY <2>2, <3>1, <3>2, <4>1
    <3>3. CASE k \notin 1..Len(m)
      <4>1. n[k] = r.id /\ n[i] = m[i] /\ m[i] < r.id
        BY <2>2, <2>4, <2>5, <3>1, <3>3
      <4> QED
        BY <4>1
    <3> QED
      BY <3>2, <3>3
  <2>8. ToSet(m) \subseteq ToSet(n)
    <3>1. 1..Len(m) \subseteq 1..Len(n)
      BY <2>1, <2>2
    <3> QED
      BY <2>2, <2>3, <3>1 DEF ToSet
  <2>9. a # Error => r.id \in ToSet(n)
    <3> SUFFICES ASSUME a # Error PROVE r.id \in ToSet(n)
      OBVIOUS
    <3>1. Len(m) + 1 \in 1..Len(n) /\ Len(m) + 1 \notin 1..Len(m)
      BY <2>1, <2>2
    <3>2. n[Len(m) + 1] = r.id
      BY <2>5, <3>1
    <3> QED
      BY <2>3, <3>1, <3>2 DEF ToSet
  <2>10. Recorded(n, first, trace)
    BY <2>4, <2>6, <2>7, <2>8 DEF Recorded
  <2>11. \A i \in 1..Len(n) : (\E k \in 1..Len(m) : n[i] = m[k]) \/ n[i] = r.id
    BY <2>2, <2>5
  <2> QED
    BY <1>2, <2>8, <2>9, <2>10, <2>11 DEF m, n, Moving
<1> QED
  BY <1>1, <1>2 DEF Told, Moving

(* Only who waits for a request is answered.                                *)
LEMMA WhoIsAnswered ==
  ASSUME DOMAIN answer = Clients, NEW c \in Clients, NEW r, NEW a, Reply(r, a)
  PROVE  \/ answer'[c] = answer[c]
         \/ answer[c] = NoAnswer /\ r.from = c /\ r.id = call[c] /\ answer'[c] = a
BY DEF Reply

(* A request that is served in a policy's run: its step is made, and it     *)
(* belongs to the open call or to one that failed.                          *)
LEMMA ServePolicySteps ==
  ASSUME EpisodeAssumption, ServiceAssumption, RInv, VInv, SInv, Serve,
         UNCHANGED <<harness, worker, file>>
  PROVE  PolicySteps'
<1> DEFINE r == queue[1]
<1>1. /\ r.op \notin Moving \cup Ending => UNCHANGED <<backend, moves>>
      /\ UNCHANGED wireVars /\ Len(queue) \in Nat \ {0} /\ Len(queue') = Len(queue) - 1
      /\ \A i \in 1..Len(queue') : queue'[i] = queue[i + 1]
  BY ServeSim
<1>2. /\ r.id \in Nat
      /\ \E a : Reply(r, a) /\ Told(r, a)
      /\ \A e \in Episodes : \A j \in 1..Len(moves[e]) : moves[e][j] < r.id
  BY ServeTold DEF SInv
<1>3. 1 \in 1..Len(queue) /\ \A i \in 1..Len(queue') : i + 1 \in 1..Len(queue) /\ 1 < i + 1
  BY <1>1
<1>4. /\ SimOK /\ QueueOK /\ ServedOK /\ PolicySteps /\ WireOK /\ DOMAIN answer = Clients
      /\ "harness" \in Clients /\ "worker" \in Clients
  BY DEF VInv, SInv, RInv, WireOK, EpisodeAssumption
<1>5. r.op \in Ending => Pending(Ending)
  BY <1>3 DEF Pending
<1>6. \A i \in 1..Len(queue') : r.id < queue'[i].id
  BY <1>1, <1>3, <1>4 DEF WireOK
<1> HIDE DEF r
<1>7. PICK a : Reply(r, a) /\ Told(r, a)
  BY <1>2
<1>8. UNCHANGED call
  BY <1>1 DEF wireVars
<1>9. \/ answer'["worker"] = answer["worker"]
      \/ answer["worker"] = NoAnswer /\ r.id = call["worker"] /\ answer'["worker"] = a
  BY <1>4, <1>7, WhoIsAnswered
<1>10. Lost \subseteq Lost'
  <2>1. StepFailed => StepFailed'
    BY <1>9, Answers DEF StepFailed
  <2> QED
    BY <2>1 DEF Lost
<1>11. ASSUME harness.pc = "policy"
       PROVE  /\ Recorded(Made', harness.first, worker.trace)
              /\ \A i \in 1..Len(Made') : Made'[i] \in ToSet(worker.trace) \cup Lost' \/ Due(Made'[i])
              /\ \A i \in 1..Len(queue') : queue'[i].op \in Moving =>
                   /\ queue'[i].op = "step" /\ queue'[i].id >= harness.first
                   /\ queue'[i].id \in Lost' \/ Awaited(i)'
              /\ worker.pc = "moving" =>
                   /\ answer'["worker"] = NoAnswer =>
                        \A i \in 1..Len(queue') : queue'[i].id = call["worker"] => queue'[i].op = "step"
                   /\ answer'["worker"] \notin {NoAnswer, Error} => call["worker"] \in ToSet(Made')
  <2>1. backend # NoBackend /\ r.op \notin Ending
    BY <1>4, <1>5, <1>11 DEF ServedOK, QueueOK, InEpisode
  <2>2. backend.ep \in Episodes
    BY <1>4, <2>1 DEF SimOK
  <2>3. \A j \in 1..Len(Made) : Made[j] < r.id
    BY <1>2, <2>2 DEF Made
  <2>4. r.op \in Moving => r.op = "step" /\ r.id >= harness.first /\ (r.id \in Lost \/ Awaited(1))
    BY <1>3, <1>4, <1>11 DEF PolicySteps, r
  <2>5. /\ Recorded(Made, harness.first, worker.trace) /\ harness.first \in Nat
        /\ \A i \in 1..Len(Made) : Made[i] \in ToSet(worker.trace) \cup Lost \/ Due(Made[i])
    BY <1>4, <1>11 DEF PolicySteps, ServedOK
  <2>6. r.op \notin Moving => UNCHANGED backend
    BY <1>1, <2>1 DEF r
  <2>7. /\ Recorded(Made', harness.first, worker.trace)
        /\ \A i \in 1..Len(Made') : \/ \E k \in 1..Len(Made) : Made'[i] = Made[k]
                                    \/ r.op \in Moving /\ Made'[i] = r.id
        /\ ToSet(Made) \subseteq ToSet(Made')
        /\ a # Error /\ r.op = "step" => r.id \in ToSet(Made')
    BY <1>2, <1>7, <2>3, <2>4, <2>5, <2>6, ServeMade
  <2>8. r.op \in Moving => r.id \in Lost \/ Due(r.id)
    BY <2>4 DEF Awaited, Due, r
  <2>9. ASSUME NEW i \in 1..Len(Made')
        PROVE  Made'[i] \in ToSet(worker.trace) \cup Lost' \/ Due(Made'[i])
    <3>1. CASE r.op \in Moving /\ Made'[i] = r.id
      BY <1>10, <2>8, <3>1
    <3>2. CASE \E k \in 1..Len(Made) : Made'[i] = Made[k]
      <4>1. PICK k \in 1..Len(Made) : Made'[i] = Made[k]
        BY <3>2
      <4>2. Made[k] \in ToSet(worker.trace) \cup Lost \/ Due(Made[k])
        BY <2>5
      <4> QED
        BY <1>10, <4>1, <4>2
    <3> QED
      BY <2>7, <3>1, <3>2
  <2>10. ASSUME NEW i \in 1..Len(queue'), queue'[i].op \in Moving
         PROVE  /\ queue'[i].op = "step" /\ queue'[i].id >= harness.first
                /\ queue'[i].id \in Lost' \/ Awaited(i)'
    <3>1. /\ queue[i + 1].op = "step" /\ queue[i + 1].id >= harness.first
          /\ queue[i + 1].id \in Lost \/ Awaited(i + 1)
      BY <1>1, <1>3, <1>4, <1>11, <2>10 DEF PolicySteps
    <3>2. CASE Awaited(i + 1)
      <4>1. /\ worker.pc = "moving" /\ answer["worker"] = NoAnswer
            /\ queue'[i].from = "worker" /\ queue'[i].id = call["worker"]
        BY <1>1, <3>2 DEF Awaited
      <4>2. r.id # call["worker"]
        <5>1. r.id < queue'[i].id
          BY <1>6
        <5> QED
          BY <1>2, <4>1, <5>1
      <4>3. Awaited(i)'
        BY <1>8, <1>9, <4>1, <4>2 DEF Awaited
      <4> QED
        BY <1>1, <3>1, <4>3
    <3> QED
      BY <1>1, <1>10, <3>1, <3>2
  <2>11. ASSUME worker.pc = "moving"
         PROVE  /\ answer'["worker"] = NoAnswer =>
                     \A i \in 1..Len(queue') : queue'[i].id = call["worker"] => queue'[i].op = "step"
                /\ answer'["worker"] \notin {NoAnswer, Error} => call["worker"] \in ToSet(Made')
    <3>1. /\ answer["worker"] = NoAnswer =>
               \A i \in 1..Len(queue) : queue[i].id = call["worker"] => queue[i].op = "step"
          /\ answer["worker"] \notin {NoAnswer, Error} => call["worker"] \in ToSet(Made)
      BY <1>4, <1>11, <2>11 DEF PolicySteps
    <3>2. CASE answer'["worker"] = answer["worker"]
      <4>1. answer["worker"] = NoAnswer =>
              \A i \in 1..Len(queue') : queue'[i].id = call["worker"] => queue'[i].op = "step"
        BY <1>1, <1>3, <3>1
      <4> QED
        BY <2>7, <3>1, <3>2, <4>1
    <3>3. CASE answer["worker"] = NoAnswer /\ r.id = call["worker"] /\ answer'["worker"] = a
      <4>1. r.op = "step"
        BY <1>3, <3>1, <3>3 DEF r
      <4>2. a # NoAnswer
        BY <1>7 DEF Told, NoAnswer
      <4> QED
        BY <2>7, <3>3, <4>1, <4>2
    <3> QED
      BY <1>9, <3>2, <3>3
  <2> QED
    BY <2>7, <2>9, <2>10, <2>11
<1>12. sent' = sent
  BY <1>1 DEF wireVars
<1>13. \A id : Due(id)' <=> Due(id)
  BY <1>8 DEF Due
<1> QED
  BY <1>4, <1>8, <1>11, <1>12, <1>13 DEF PolicySteps, Due

(* The harness is answered by the request it waits for, which is the last.  *)
LEMMA HarnessAnswered ==
  ASSUME EpisodeAssumption, ServiceAssumption, RInv, VInv, queue # <<>>, Len(queue) \in Nat \ {0},
         NEW a, "ok" \in DOMAIN a, Reply(queue[1], a), harness.pc \in DOMAIN Request
  PROVE  LET r == queue[1]
         IN  /\ answer["harness"] \in {NoAnswer, Error}
             /\ answer["harness"] = Error => answer'["harness"] = Error
             /\ answer["harness"] = NoAnswer /\ answer'["harness"] # NoAnswer =>
                  r.op = Request[harness.pc] /\ r.id = call["harness"] /\ answer'["harness"] = a
             /\ answer["harness"] = NoAnswer /\ harness.pc \in {"reference", "stepping", "checking"} =>
                  r.op = Request[harness.pc] /\ r.id = call["harness"] /\ answer'["harness"] = a
<1> DEFINE r == queue[1]
           n == Len(queue)
<1>1. /\ WireOK /\ WaitOK /\ DOMAIN answer = Clients /\ "harness" \in Clients
  BY DEF RInv, VInv, WireOK, EpisodeAssumption
<1>2. answer["harness"] \in {NoAnswer, Error}
  BY <1>1 DEF WaitOK
<1>3. \/ answer'["harness"] = answer["harness"]
      \/ answer["harness"] = NoAnswer /\ r.id = call["harness"] /\ answer'["harness"] = a
  BY <1>1, WhoIsAnswered
<1>4. a # NoAnswer
  BY DEF NoAnswer
<1>5. answer["harness"] = NoAnswer =>
        /\ queue[n].id = call["harness"] /\ queue[n].from = "harness" /\ queue[n].op = Request[harness.pc]
        /\ harness.pc \in {"reference", "stepping", "checking"} => n = 1
  BY <1>1 DEF WaitOK
<1>6. r.id = queue[n].id => n = 1
  <2>1. n \in Nat \ {0} /\ r.id \in Nat /\ queue[n].id \in Nat /\ (1 < n => r.id < queue[n].id)
    BY <1>1 DEF WireOK
  <2> HIDE DEF n, r
  <2> QED
    BY <2>1
<1>7. answer["harness"] = NoAnswer /\ answer'["harness"] # NoAnswer =>
        r.op = Request[harness.pc] /\ r.id = call["harness"] /\ answer'["harness"] = a
  BY <1>3, <1>5, <1>6
<1>8. answer["harness"] = NoAnswer /\ harness.pc \in {"reference", "stepping", "checking"} =>
        r.op = Request[harness.pc] /\ r.id = call["harness"] /\ answer'["harness"] = a
  <2> SUFFICES ASSUME answer["harness"] = NoAnswer, harness.pc \in {"reference", "stepping", "checking"}
               PROVE  r.op = Request[harness.pc] /\ r.id = call["harness"] /\ answer'["harness"] = a
    OBVIOUS
  <2>1. r.op = Request[harness.pc] /\ r.id = call["harness"] /\ r.from = "harness"
    BY <1>5
  <2>2. answer'["harness"] = a
    BY <1>1, <2>1 DEF Reply
  <2> QED
    BY <2>1, <2>2
<1> QED
  BY <1>2, <1>3, <1>7, <1>8, Answers

(* What the harness is told of its own steps.                               *)
LEMMA ServeHarnessSteps ==
  ASSUME EpisodeAssumption, ServiceAssumption, RInv, VInv, SInv, Serve, UNCHANGED harness
  PROVE  HarnessSteps'
<1> DEFINE r == queue[1]
<1>1. UNCHANGED wireVars /\ queue # <<>> /\ Len(queue) \in Nat \ {0}
  BY ServeSim
<1>2. r.id \in Nat /\ \E a : Reply(r, a) /\ Told(r, a)
  BY ServeTold DEF SInv
<1> HIDE DEF r
<1>3. PICK a : Reply(r, a) /\ Told(r, a)
  BY <1>2
<1>4. "ok" \in DOMAIN a /\ a # NoAnswer /\ UNCHANGED call
  BY <1>1, <1>3 DEF Told, NoAnswer, wireVars
<1>5. harness.pc \in DOMAIN Request =>
        /\ answer["harness"] \in {NoAnswer, Error}
        /\ answer["harness"] = Error => answer'["harness"] = Error
        /\ answer["harness"] = NoAnswer /\ answer'["harness"] # NoAnswer =>
             r.op = Request[harness.pc] /\ r.id = call["harness"] /\ answer'["harness"] = a
        /\ answer["harness"] = NoAnswer /\ harness.pc \in {"reference", "stepping", "checking"} =>
             r.op = Request[harness.pc] /\ r.id = call["harness"] /\ answer'["harness"] = a
  BY <1>1, <1>3, <1>4, HarnessAnswered DEF r
<1>6. HarnessSteps /\ ServedOK
  BY DEF SInv
<1>7. ASSUME harness.pc = "resetting", answer'["harness"] \notin {NoAnswer, Error}
      PROVE  Made' = <<>> /\ backend'.trace = <<>>
  <2>1. a # Error /\ r.op = "reset"
    BY <1>5, <1>7 DEF Request
  <2> QED
    BY <1>3, <2>1 DEF Told
<1>8. ASSUME harness.pc \in {"reference", "stepping"}, answer'["harness"] # Error
      PROVE  /\ answer["harness"] = NoAnswer /\ answer'["harness"] = a /\ r.id = call["harness"]
             /\ r.op = Request[harness.pc] /\ Bound /\ r.id >= harness.first
             /\ \E j \in Nat : /\ r.op = "step" => j = 1
                               /\ a.trace = backend.trace \o [i \in 1..j |-> r.id]
                               /\ Made' = Made \o [i \in 1..j |-> r.id] /\ Len(Made') = Len(Made) + j
                               /\ \A i \in 1..Len(Made) : Made'[i] = Made[i]
                               /\ \A i \in (Len(Made) + 1)..(Len(Made) + j) : Made'[i] = r.id
                               /\ Made \in Seq(Nat) /\ Len(Made) \in Nat
  <2>1. answer["harness"] = NoAnswer /\ answer'["harness"] = a /\ r.id = call["harness"]
        /\ r.op = Request[harness.pc] /\ r.op \in Moving /\ a # Error
    BY <1>5, <1>8 DEF Request, Moving
  <2>2. r.id >= harness.first
    BY <1>6, <1>8, <2>1 DEF HarnessSteps
  <2>3. PICK j \in Nat : StepTold(r, a, j)
    BY <1>3, <2>1 DEF Told
  <2>4. /\ Bound /\ moves' = Moved(r.id, j) /\ backend'.ep = backend.ep
        /\ r.op = "step" => j = 1
        /\ a.trace = backend.trace \o [i \in 1..j |-> r.id]
    BY <2>1, <2>3 DEF StepTold
  <2>5. /\ Made \in Seq(Nat) /\ Len(Made) \in Nat /\ Made' = Made \o [i \in 1..j |-> r.id]
        /\ Len(Made') = Len(Made) + j
        /\ \A i \in 1..Len(Made) : Made'[i] = Made[i]
        /\ \A i \in (Len(Made) + 1)..(Len(Made) + j) : Made'[i] = r.id
    BY <1>2, <2>4, MadeGrows
  <2> QED
    BY <2>1, <2>2, <2>4, <2>5
<1>9. ASSUME harness.pc = "reference", answer'["harness"] # Error
      PROVE  /\ answer'["harness"] # NoAnswer /\ answer'["harness"].trace = Made'
             /\ \A i \in 1..Len(Made') : Made'[i] >= harness.first
  <2>1. PICK j \in Nat : /\ a.trace = backend.trace \o [i \in 1..j |-> r.id]
                         /\ Made' = Made \o [i \in 1..j |-> r.id] /\ Len(Made') = Len(Made) + j
                         /\ \A i \in (Len(Made) + 1)..(Len(Made) + j) : Made'[i] = r.id
    BY <1>8, <1>9
  <2>2. answer["harness"] = NoAnswer /\ answer'["harness"] = a /\ r.id >= harness.first
    BY <1>8, <1>9
  <2>3. Made = <<>> /\ backend.trace = <<>>
    BY <1>6, <1>9, <2>2 DEF HarnessSteps
  <2>4. Len(Made') = 0 + j /\ \A i \in (0 + 1)..(0 + j) : Made'[i] = r.id
    <3>1. Len(Made) = 0
      BY <2>3
    <3> QED
      BY <2>1, <3>1
  <2>5. \A i \in 1..Len(Made') : Made'[i] = r.id
    BY <2>4
  <2>6. a.trace = Made'
    BY <2>1, <2>3
  <2> QED
    BY <1>4, <2>2, <2>5, <2>6
<1>10. ASSUME harness.pc = "stepping", answer'["harness"] # Error
       PROVE  /\ answer'["harness"] # NoAnswer
              /\ Made' = Append(harness.trace, call["harness"])
              /\ \A i \in 1..Len(Made') : Made'[i] >= harness.first
  <2>1. PICK j \in Nat : /\ r.op = "step" => j = 1
                         /\ Made' = Made \o [i \in 1..j |-> r.id] /\ Len(Made') = Len(Made) + j
                         /\ \A i \in 1..Len(Made) : Made'[i] = Made[i]
                         /\ \A i \in (Len(Made) + 1)..(Len(Made) + j) : Made'[i] = r.id
                         /\ Made \in Seq(Nat) /\ Len(Made) \in Nat
    BY <1>8, <1>10
  <2>2. answer["harness"] = NoAnswer /\ answer'["harness"] = a /\ r.id >= harness.first
        /\ r.op = "step" /\ r.id = call["harness"]
    BY <1>8, <1>10 DEF Request
  <2>3. Made = harness.trace /\ \A i \in 1..Len(Made) : Made[i] >= harness.first
    BY <1>6, <1>10, <2>2, Answers DEF HarnessSteps
  <2>4. j = 1
    BY <2>1, <2>2
  <2>5. Made' = Append(Made, r.id)
    BY <1>2, <2>1, <2>4, OneMore
  <2>6. ASSUME NEW i \in 1..Len(Made') PROVE Made'[i] >= harness.first
    <3>1. i \in 1..Len(Made) \/ i \in (Len(Made) + 1)..(Len(Made) + j)
      BY <2>1
    <3> QED
      BY <2>1, <2>2, <2>3, <3>1
  <2> QED
    BY <1>4, <2>2, <2>3, <2>5, <2>6
<1>11. HarnessSteps'
  BY <1>4, <1>6, <1>7, <1>9, <1>10, Answers DEF HarnessSteps
<1> QED
  BY <1>11

(* A step that is served late belongs to a call that failed, and none is    *)
(* served once the verdict is asked for.                                    *)
LEMMA ServeResultSteps ==
  ASSUME EpisodeAssumption, ServiceAssumption, RInv, VInv, SInv, Serve, UNCHANGED <<harness, report>>
  PROVE  ResultSteps'
<1> DEFINE r == queue[1]
<1>1. /\ r.op \notin Moving \cup Ending => UNCHANGED <<backend, moves>>
      /\ queue # <<>> /\ Len(queue) \in Nat \ {0} /\ Len(queue') = Len(queue) - 1
      /\ \A i \in 1..Len(queue') : queue'[i] = queue[i + 1]
  BY ServeSim
<1>2. /\ r.id \in Nat
      /\ \E a : Reply(r, a) /\ Told(r, a)
      /\ \A e \in Episodes : \A j \in 1..Len(moves[e]) : moves[e][j] < r.id
  BY ServeTold DEF SInv
<1>3. 1 \in 1..Len(queue) /\ \A i \in 1..Len(queue') : i + 1 \in 1..Len(queue)
  BY <1>1
<1>4. SimOK /\ QueueOK /\ ServedOK /\ ResultSteps /\ RInv /\ (\A ops : Pending(ops)' => Pending(ops))
  BY ServeQueue DEF VInv, SInv
<1>5. \A ops : r.op \in ops => Pending(ops)
  BY <1>3 DEF Pending
<1> HIDE DEF r
<1>6. PICK a : Reply(r, a) /\ Told(r, a)
  BY <1>2
<1>7. ASSUME harness.pc = "refreshing", harness.exec.status = "completed"
      PROVE  /\ Recorded(Made', harness.first, harness.exec.trace)
             /\ \A i \in 1..Len(Made') :
                  Made'[i] \in ToSet(harness.exec.trace) \cup FailedSteps(harness.exec.events)
             /\ \A i \in 1..Len(queue') : queue'[i].op \in Moving =>
                  /\ queue'[i].op = "step" /\ queue'[i].id >= harness.first
                  /\ queue'[i].id \in FailedSteps(harness.exec.events)
  <2>1. backend # NoBackend /\ r.op \notin Ending
    BY <1>4, <1>5, <1>7 DEF ServedOK, QueueOK, InEpisode
  <2>2. backend.ep \in Episodes
    BY <1>4, <2>1 DEF SimOK
  <2>3. \A j \in 1..Len(Made) : Made[j] < r.id
    BY <1>2, <2>2 DEF Made
  <2>4. /\ Recorded(Made, harness.first, harness.exec.trace) /\ harness.first \in Nat
        /\ \A i \in 1..Len(Made) :
             Made[i] \in ToSet(harness.exec.trace) \cup FailedSteps(harness.exec.events)
        /\ \A i \in 1..Len(queue) : queue[i].op \in Moving =>
             /\ queue[i].op = "step" /\ queue[i].id >= harness.first
             /\ queue[i].id \in FailedSteps(harness.exec.events)
    BY <1>4, <1>7 DEF ResultSteps, ServedOK
  <2>5. r.op \in Moving =>
          r.op = "step" /\ r.id >= harness.first /\ r.id \in FailedSteps(harness.exec.events)
    BY <1>3, <2>4 DEF r
  <2>6. r.op \notin Moving => UNCHANGED backend
    BY <1>1, <2>1 DEF r
  <2>7. /\ Recorded(Made', harness.first, harness.exec.trace)
        /\ \A i \in 1..Len(Made') : \/ \E k \in 1..Len(Made) : Made'[i] = Made[k]
                                    \/ r.op \in Moving /\ Made'[i] = r.id
    BY <1>2, <1>6, <2>3, <2>4, <2>5, <2>6, ServeMade
  <2>8. \A i \in 1..Len(Made') :
          Made'[i] \in ToSet(harness.exec.trace) \cup FailedSteps(harness.exec.events)
    BY <2>4, <2>5, <2>7
  <2>9. \A i \in 1..Len(queue') : queue'[i].op \in Moving =>
          /\ queue'[i].op = "step" /\ queue'[i].id >= harness.first
          /\ queue'[i].id \in FailedSteps(harness.exec.events)
    BY <1>1, <1>3, <2>4
  <2> QED
    BY <2>7, <2>8, <2>9
<1>8. ASSUME harness.pc = "checking", answer'["harness"] # Error
      PROVE  Accounted(Made', harness.first, harness.trace, harness.exec.events)
  <2>1. /\ answer["harness"] = NoAnswer /\ r.op = "success"
    <3>1. "ok" \in DOMAIN a
      BY <1>6 DEF Told
    <3>2. harness.pc \in DOMAIN Request /\ Request[harness.pc] = "success"
      BY <1>8 DEF Request
    <3> QED
      BY <1>1, <1>6, <1>8, <3>1, <3>2, HarnessAnswered DEF r
  <2>2. r.op \notin Moving \cup Ending
    BY <2>1 DEF Moving, Ending
  <2>3. Made' = Made
    BY <1>1, <2>2 DEF Made, r
  <2>4. Accounted(Made, harness.first, harness.trace, harness.exec.events)
    BY <1>4, <1>8, <2>1, Answers DEF ResultSteps
  <2> QED
    BY <2>3, <2>4
<1>9. ASSUME harness.pc = "closing", harness.status = "completed"
      PROVE  /\ Accounted(moves'[harness.verdict.ep], harness.first, harness.trace, harness.exec.events)
             /\ ~Pending(Moving)'
  <2>1. /\ Accounted(moves[harness.verdict.ep], harness.first, harness.trace, harness.exec.events)
        /\ ~Pending(Moving)
    BY <1>4, <1>9 DEF ResultSteps
  <2>2. UNCHANGED moves
    BY <1>5, <1>6, <2>1 DEF Told
  <2> QED
    BY <1>4, <2>1, <2>2
<1>10. StepsAccounted'
  BY <1>1, <1>4 DEF StepsAccounted, RInv, ReportOK, Quiet, NoReport
<1> QED
  BY <1>7, <1>8, <1>9, <1>10 DEF ResultSteps

(* A wait that ends turns an open call into one that failed.                *)
LEMMA CallFailsSteps ==
  ASSUME EpisodeAssumption, ServiceAssumption, RInv, VInv, SInv, NEW c \in Clients, CallFails(c),
         UNCHANGED <<harness, worker, file, report, runs>>
  PROVE  SInv'
<1>1. /\ answer[c] = NoAnswer /\ answer' = [answer EXCEPT ![c] = Error]
      /\ UNCHANGED <<queue, backend, moves, sent, call>>
  BY DEF CallFails, simVars, wireVars
<1>2. /\ Clients = {"harness", "worker"} /\ DOMAIN answer = Clients
      /\ StepFields /\ ServedOK /\ PolicySteps /\ HarnessSteps /\ ResultSteps
  BY DEF EpisodeAssumption, RInv, WireOK, SInv
<1>3. StepFields'
  BY <1>2 DEF StepFields
<1>4. ServedOK'
  BY <1>1, <1>2 DEF ServedOK, Past
<1>5. /\ answer'["harness"] = Error \/ answer'["harness"] = answer["harness"]
      /\ answer'["worker"] = Error \/ answer'["worker"] = answer["worker"]
  BY <1>1, <1>2
<1>6. Made' = Made
  BY <1>1 DEF Made
<1>7. HarnessSteps'
  BY <1>1, <1>2, <1>5, <1>6, Answers DEF HarnessSteps
<1>8. (\A ops : Pending(ops)' <=> Pending(ops)) /\ (StepsAccounted => StepsAccounted')
  BY <1>1 DEF Pending, StepsAccounted
<1>9. ResultSteps'
  BY <1>1, <1>2, <1>5, <1>6, <1>8 DEF ResultSteps
<1>10. Lost \subseteq Lost'
  <2>1. StepFailed => StepFailed'
    BY <1>5 DEF StepFailed
  <2> QED
    BY <2>1 DEF Lost
<1>11. ASSUME harness.pc = "policy", NEW i \in 1..Len(queue), queue[i].op \in Moving
       PROVE  /\ queue[i].op = "step" /\ queue[i].id >= harness.first
              /\ queue[i].id \in Lost' \/ Awaited(i)'
  <2>1. /\ queue[i].op = "step" /\ queue[i].id >= harness.first
        /\ queue[i].id \in Lost \/ Awaited(i)
    BY <1>2, <1>11 DEF PolicySteps
  <2>2. CASE Awaited(i) /\ answer'["worker"] = Error
    <3>1. worker.pc = "moving" /\ queue[i].id = call["worker"] /\ call["worker"] \in worker.asked
      BY <1>2, <1>11, <2>2 DEF Awaited, PolicySteps
    <3>2. queue[i].id \in Lost'
      BY <2>2, <3>1 DEF Lost, StepFailed
    <3> QED
      BY <2>1, <3>2
  <2>3. CASE Awaited(i) /\ answer'["worker"] = answer["worker"]
    <3>1. Awaited(i)'
      BY <1>1, <2>3 DEF Awaited
    <3> QED
      BY <2>1, <3>1
  <2> QED
    BY <1>5, <1>10, <2>1, <2>2, <2>3
<1>12. PolicySteps'
  BY <1>1, <1>2, <1>5, <1>6, <1>10, <1>11, Answers DEF PolicySteps, Due
<1> QED
  BY <1>3, <1>4, <1>7, <1>9, <1>12 DEF SInv

(* A request that is sent comes after all others.                           *)
LEMMA SendLast ==
  ASSUME WireOK, NEW c \in Clients, NEW op \in Operations, NEW cfg \in Configs \cup {NoConfig},
         SendAfter(sent, c, op, cfg)
  PROVE  /\ sent \in Nat /\ sent' = sent + 1 /\ Len(queue) \in Nat /\ Len(queue') = Len(queue) + 1
         /\ \A i \in 1..Len(queue) : queue'[i] = queue[i] /\ queue[i].id <= sent
         /\ queue'[Len(queue')] = [id |-> sent + 1, from |-> c, op |-> op, config |-> cfg]
         /\ call'[c] = sent + 1 /\ answer'[c] = NoAnswer
         /\ \A x \in Nat : Past(x) => Past(x)'
<1>1. /\ queue \in Seq(Wire) /\ sent \in Nat /\ DOMAIN call = Clients /\ DOMAIN answer = Clients
      /\ \A i \in 1..Len(queue) : queue[i].id \in 1..sent
  BY DEF WireOK
<1> DEFINE r == [id |-> sent + 1, from |-> c, op |-> op, config |-> cfg]
<1>2. r \in Wire
  BY <1>1 DEF Wire
<1>3. /\ sent' = sent + 1 /\ queue' = Append(queue, r)
      /\ call' = [call EXCEPT ![c] = sent + 1] /\ answer' = [answer EXCEPT ![c] = NoAnswer]
  BY DEF SendAfter
<1>4. /\ Len(queue) \in Nat /\ Len(queue') = Len(queue) + 1
      /\ \A i \in 1..Len(queue) : queue'[i] = queue[i]
      /\ queue'[Len(queue')] = r
  <2> HIDE DEF r
  <2> QED
    BY <1>1, <1>2, <1>3, ToSetAppend
<1>5. r.id = sent + 1
  OBVIOUS
<1>6. ASSUME NEW x \in Nat, Past(x) PROVE Past(x)'
  <2>1. \A i \in 1..Len(queue') : i \in 1..Len(queue) \/ i = Len(queue')
    BY <1>4
  <2>2. x <= sent /\ \A i \in 1..Len(queue) : x < queue[i].id
    BY <1>6 DEF Past
  <2>3. x <= sent + 1 /\ x < sent + 1
    BY <1>1, <2>2
  <2> HIDE DEF r
  <2> QED
    BY <1>3, <1>4, <1>5, <2>1, <2>2, <2>3 DEF Past
<1>7. call'[c] = sent + 1 /\ answer'[c] = NoAnswer
  BY <1>1, <1>3
<1>8. \A i \in 1..Len(queue) : queue[i].id <= sent
  BY <1>1
<1> QED
  BY <1>1, <1>3, <1>4, <1>6, <1>7, <1>8

(* The harness sends its next request.                                      *)
LEMMA AskSteps ==
  ASSUME EpisodeAssumption, ServiceAssumption, RInv, VInv, SInv, NEW op \in Operations,
         Ask("harness", op), UNCHANGED <<simVars, report, file>>, StepFields',
         worker' = worker \/ worker'.pc # "exited",
         harness'.first = harness.first, harness'.pc \notin {"resetting", "policy"},
         harness'.pc \in InEpisode => backend # NoBackend,
         harness'.pc = "reference" => Made = <<>> /\ backend.trace = <<>>,
         harness'.pc = "stepping" =>
           Made = harness'.trace /\ \A i \in 1..Len(Made) : Made[i] >= harness.first,
         harness'.pc = "refreshing" /\ harness'.exec.status = "completed" =>
           /\ op \notin Moving
           /\ Recorded(Made, harness.first, harness'.exec.trace)
           /\ \A i \in 1..Len(Made) :
                Made[i] \in ToSet(harness'.exec.trace) \cup FailedSteps(harness'.exec.events)
           /\ \A i \in 1..Len(queue) : queue[i].op \in Moving =>
                /\ queue[i].op = "step" /\ queue[i].id >= harness.first
                /\ queue[i].id \in FailedSteps(harness'.exec.events),
         harness'.pc = "checking" =>
           Accounted(Made, harness.first, harness'.trace, harness'.exec.events),
         harness'.pc = "closing" /\ harness'.status = "completed" =>
           /\ Accounted(moves[harness'.verdict.ep], harness.first, harness'.trace, harness'.exec.events)
           /\ ~Pending(Moving) /\ op \notin Moving
  PROVE  SInv'
<1>1. /\ "harness" \in Clients /\ harness.config \in Configs \cup {NoConfig} /\ WireOK /\ SimOK
      /\ ServedOK /\ PolicySteps /\ ResultSteps
  BY DEF EpisodeAssumption, RInv, PartiesOK, VInv, SInv
<1>2. SendAfter(sent, "harness", op, harness.config) /\ UNCHANGED <<backend, moves>>
  BY DEF Ask, Send, simVars
<1>3. /\ sent \in Nat /\ sent' = sent + 1 /\ Len(queue) \in Nat /\ Len(queue') = Len(queue) + 1
      /\ \A i \in 1..Len(queue) : queue'[i] = queue[i]
      /\ queue'[Len(queue')] = [id |-> sent + 1, from |-> "harness", op |-> op, config |-> harness.config]
      /\ call'["harness"] = sent + 1 /\ answer'["harness"] = NoAnswer
      /\ \A x \in Nat : Past(x) => Past(x)'
  BY <1>1, <1>2, SendLast
<1>4. queue'[Len(queue')].op = op
  BY <1>3
<1>5. \A i \in 1..Len(queue') : i \in 1..Len(queue) \/ i = Len(queue')
  BY <1>3
<1>6. Made' = Made
  BY <1>2 DEF Made
<1>7. ServedOK'
  <2>1. ASSUME NEW e \in Episodes, NEW j \in 1..Len(moves[e]) PROVE Past(moves[e][j])'
    <3>1. moves[e] \in Seq(Nat)
      BY <1>1 DEF SimOK
    <3>2. moves[e][j] \in Nat /\ Past(moves[e][j])
      BY <1>1, <3>1, ElementOfSeq DEF ServedOK
    <3>3. \A x \in Nat : Past(x) => Past(x)'
      BY <1>3
    <3>4. PICK y \in Nat : y = moves[e][j]
      BY <3>2
    <3>5. Past(y)'
      BY <3>2, <3>3, <3>4
    <3> QED
      BY <1>2, <3>4, <3>5
  <2>2. harness.first \in Nat /\ harness.first <= sent + 1
    BY <1>1, <1>3 DEF ServedOK
  <2>3. harness'.first \in Nat /\ harness'.first <= sent'
    BY <1>3, <2>2
  <2>4. \A e \in Episodes : \A j \in 1..Len(moves'[e]) : Past(moves[e][j])'
    BY <1>2, <2>1
  <2> QED
    BY <1>2, <2>3, <2>4 DEF ServedOK
<1>8. PolicySteps'
  BY <1>1 DEF PolicySteps
<1>9. HarnessSteps'
  <2>1. sent + 1 >= harness.first
    BY <1>1, <1>3 DEF ServedOK
  <2> QED
    BY <1>2, <1>3, <1>6, <2>1, Answers DEF HarnessSteps
<1>10. op \notin Moving => (Pending(Moving)' => Pending(Moving))
  BY <1>3, <1>4, <1>5 DEF Pending
<1>11. ASSUME harness'.pc = "refreshing", harness'.exec.status = "completed",
              NEW i \in 1..Len(queue'), queue'[i].op \in Moving
       PROVE  /\ queue'[i].op = "step" /\ queue'[i].id >= harness.first
              /\ queue'[i].id \in FailedSteps(harness'.exec.events)
  <2>1. i \in 1..Len(queue)
    BY <1>4, <1>5, <1>11
  <2> QED
    BY <1>3, <1>11, <2>1
<1>12. StepsAccounted'
  BY <1>1, <1>2 DEF ResultSteps, StepsAccounted
<1>13. ResultSteps'
  BY <1>2, <1>6, <1>10, <1>11, <1>12 DEF ResultSteps
<1> QED
  BY <1>7, <1>8, <1>9, <1>13 DEF SInv

(* A run that fails says nothing of its steps.                              *)
LEMMA FailedRunSteps ==
  ASSUME EpisodeAssumption, ServiceAssumption, RInv, VInv, SInv, NEW h,
         {"pc", "first", "trace", "final", "status", "verdict"} \subseteq DOMAIN h,
         h.first = harness.first, FailedRun(h), UNCHANGED <<simVars, worker, report, file>>
  PROVE  SInv'
<1>1. /\ harness'.pc = "closing" /\ harness'.status = "failed" /\ harness'.first = harness.first
      /\ DOMAIN harness' = DOMAIN h
  BY DEF FailedRun
<1>2. Ask("harness", "close") /\ "close" \in Operations /\ "closing" \notin InEpisode
  BY DEF FailedRun, Operations, InEpisode
<1>3. StepFields'
  BY <1>1 DEF SInv, StepFields
<1> QED
  BY <1>1, <1>2, <1>3, AskSteps

(* The reset was answered: the episode has no step yet.                     *)
LEMMA ResetAnsweredSteps ==
  ASSUME EpisodeAssumption, ServiceAssumption, RInv, VInv, SInv, ResetAnswered
  PROVE  SInv'
<1> DEFINE h == [harness EXCEPT !.initial = Taken(answer["harness"]), !.last = Taken(answer["harness"])]
<1>1. /\ harness.pc = "resetting" /\ answer["harness"] # NoAnswer /\ FieldsOK /\ StepFields
      /\ WaitOK /\ HarnessSteps /\ ServedOK /\ ResultSteps
      /\ UNCHANGED <<simVars, file, report, runs>> /\ UNCHANGED <<backend, moves>>
  BY DEF ResetAnswered, Harness, Answered, VInv, SInv, simVars
<1>2. {"pc", "first", "trace", "final", "status", "verdict", "exec"} \subseteq DOMAIN harness
  BY <1>1 DEF FieldsOK, StepFields
<1>3. CASE ~answer["harness"].ok
  <2>1. FailedRun(harness) /\ worker' = worker
    BY <1>3 DEF ResetAnswered
  <2> QED
    BY <1>1, <1>2, <2>1, FailedRunSteps
<1>4. CASE answer["harness"].ok
  <2>1. answer["harness"] \notin {NoAnswer, Error}
    BY <1>1, <1>4 DEF Error
  <2>2. Made = <<>> /\ backend.trace = <<>> /\ harness.trace = <<>>
    BY <1>1, <2>1 DEF HarnessSteps
  <2>3. queue = <<>> /\ backend # NoBackend
    BY <1>1, <2>1 DEF WaitOK, Request
  <2>4. /\ h.trace = harness.trace /\ h.first = harness.first /\ DOMAIN h = DOMAIN harness
    BY <1>2
  <2>5. Len(Made) = 0 /\ Len(queue) = 0
    BY <2>2, <2>3
  <2>6. \A i \in 1..Len(Made) : Made[i] >= harness.first
    BY <2>5
  <2>7. /\ "reference" \in Operations /\ "step" \in Operations
    BY DEF Operations
  <2>8. CASE \/ harness' = [h EXCEPT !.pc = "reference"] /\ Ask("harness", "reference") /\ worker' = worker
             \/ harness' = [h EXCEPT !.pc = "stepping", !.left = MaxSteps] /\ Ask("harness", "step") /\ worker' = worker
    <3> HIDE DEF h
    <3>1. /\ harness'.pc \in {"reference", "stepping"} /\ harness'.first = harness.first
          /\ harness'.trace = <<>> /\ DOMAIN harness' = DOMAIN harness
      BY <1>2, <2>2, <2>4, <2>8
    <3>2. StepFields'
      BY <1>1, <2>8, <3>1 DEF StepFields
    <3> QED
      BY <1>1, <2>2, <2>3, <2>6, <2>7, <2>8, <3>1, <3>2, AskSteps
  <2>9. CASE /\ harness' = [h EXCEPT !.pc = "policy"] /\ Heard("harness") /\ UNCHANGED <<queue, sent>>
             /\ worker' = [NoWorker EXCEPT !.pc = "starting"]
    <3> HIDE DEF h
    <3>1. /\ harness'.pc = "policy" /\ harness'.first = harness.first /\ DOMAIN harness' = DOMAIN harness
      BY <1>2, <2>4, <2>9
    <3>2. /\ worker'.pc = "starting" /\ worker'.trace = <<>> /\ "trace" \in DOMAIN worker'
      BY <2>9 DEF NoWorker
    <3>3. StepFields'
      BY <1>1, <3>1, <3>2 DEF StepFields
    <3>4. ServedOK'
      BY <1>1, <2>3, <2>9, <3>1 DEF ServedOK, Past
    <3>5. Made' = <<>> /\ Len(Made') = 0 /\ Len(worker'.trace) = 0 /\ Len(queue') = 0
      <4>1. Made' = <<>>
        BY <1>1, <2>2 DEF Made
      <4> QED
        BY <2>5, <2>9, <3>2, <4>1
    <3>6. Recorded(Made', harness'.first, worker'.trace)
      <4>1. worker'.trace \in Seq(Nat)
        BY <3>2, EmptySeq
      <4>2. ToSet(worker'.trace) = ToSet(Made')
        BY <3>2, <3>5
      <4> QED
        BY <3>5, <4>1, <4>2 DEF Recorded, Increasing
    <3>7. PolicySteps'
      BY <3>2, <3>5, <3>6 DEF PolicySteps
    <3>8. HarnessSteps'
      BY <3>1 DEF HarnessSteps
    <3>9. StepsAccounted'
      BY <1>1 DEF ResultSteps, StepsAccounted
    <3>10. ResultSteps'
      BY <3>1, <3>9 DEF ResultSteps
    <3> QED
      BY <3>3, <3>4, <3>7, <3>8, <3>10 DEF SInv
  <2>10. CASE FailedRun(h) /\ worker' = worker
    <3> HIDE DEF h
    <3> QED
      BY <1>1, <1>2, <2>4, <2>10, FailedRunSteps
  <2> QED
    BY <1>4, <2>8, <2>9, <2>10 DEF ResetAnswered, h
<1> QED
  BY <1>3, <1>4

(* The verdict is asked for: the trace of the run is complete.              *)
LEMMA CheckingSteps ==
  ASSUME EpisodeAssumption, ServiceAssumption, RInv, VInv, SInv, NEW h,
         {"pc", "first", "trace", "final", "exec"} \subseteq DOMAIN h,
         h.first = harness.first, Checking(h), UNCHANGED <<simVars, worker, report, file>>,
         Accounted(Made, harness.first, h.trace, h.exec.events)
  PROVE  SInv'
<1>1. /\ harness'.pc = "checking" /\ harness'.first = harness.first /\ harness'.trace = h.trace
      /\ harness'.exec = h.exec /\ DOMAIN harness' = DOMAIN h
  BY DEF Checking
<1>2. Ask("harness", "success") /\ "success" \in Operations /\ "checking" \notin InEpisode
  BY DEF Checking, Operations, InEpisode
<1>3. StepFields'
  BY <1>1 DEF SInv, StepFields
<1> QED
  BY <1>1, <1>2, <1>3, AskSteps

(* The other answers, up to the verdict.                                    *)
LEMMA OthersAnsweredSteps ==
  ASSUME EpisodeAssumption, ServiceAssumption, RInv, VInv, SInv,
         ReferenceAnswered \/ NoOpStepAnswered \/ RefreshAnswered \/ VerdictAnswered
  PROVE  SInv'
<1> DEFINE a == answer["harness"]
<1>1. /\ harness.pc \in {"reference", "stepping", "refreshing", "checking"} /\ a # NoAnswer
      /\ FieldsOK /\ StepFields /\ WaitOK /\ SimOK /\ ServedOK /\ HarnessSteps /\ ResultSteps
      /\ UNCHANGED <<simVars, worker, file, report, runs>>
  BY DEF ReferenceAnswered, NoOpStepAnswered, RefreshAnswered, VerdictAnswered, Harness, Answered, VInv, SInv
<1>2. harness.pc \in DOMAIN Request
  BY <1>1 DEF Request
<1>3. a.ok => /\ queue = <<>> /\ backend # NoBackend /\ a # Error
              /\ Taken(a) = [obs |-> backend.raw, now |-> Here]
  <2>1. a.ok => a # Error
    BY DEF Error
  <2> QED
    BY <1>1, <1>2, <2>1 DEF WaitOK
<1>4. {"pc", "first", "last", "trace", "exec", "status", "final", "verdict"} \subseteq DOMAIN harness
  BY <1>1 DEF FieldsOK, StepFields
<1>5. CASE FailedRun(harness)
  BY <1>1, <1>4, <1>5, FailedRunSteps
<1>6. a.ok => Made \in Seq(Nat)
  BY <1>1, <1>3 DEF SimOK, Made
<1>7. CASE ReferenceAnswered
  <2> DEFINE h == [harness EXCEPT !.last = Taken(a), !.trace = a.trace]
  <2>1. /\ DOMAIN h = DOMAIN harness /\ h.trace = a.trace /\ h.first = harness.first
    BY <1>4
  <2>2. harness.pc = "reference" /\ (FailedRun(harness) \/ (a.ok /\ Checking(h)))
    BY <1>7 DEF ReferenceAnswered, Harness
  <2>3. a.ok => a.trace = Made /\ \A i \in 1..Len(Made) : Made[i] >= harness.first
    BY <1>1, <1>3, <2>2 DEF HarnessSteps
  <2> HIDE DEF h, a
  <2>4. a.ok => Accounted(Made, harness.first, h.trace, h.exec.events)
    BY <1>6, <2>1, <2>3, KeptSelf
  <2> QED
    BY <1>1, <1>4, <1>5, <2>1, <2>2, <2>4, CheckingSteps
<1>8. CASE RefreshAnswered
  <2> DEFINE h == [harness EXCEPT !.last = Taken(a), !.trace = harness.exec.trace]
  <2>1. /\ DOMAIN h = DOMAIN harness /\ h.trace = harness.exec.trace /\ h.first = harness.first
        /\ h.exec = harness.exec
    BY <1>4
  <2>2. /\ harness.pc = "refreshing"
        /\ \/ FailedRun(harness) \/ FailedRun(h)
           \/ a.ok /\ harness.exec.status = "completed" /\ Checking(h)
    BY <1>8 DEF RefreshAnswered, Harness
  <2> HIDE DEF h, a
  <2>3. CASE a.ok /\ harness.exec.status = "completed" /\ Checking(h)
    <3>1. /\ Recorded(Made, harness.first, harness.exec.trace)
          /\ \A i \in 1..Len(Made) :
               Made[i] \in ToSet(harness.exec.trace) \cup FailedSteps(harness.exec.events)
      BY <1>1, <2>2, <2>3 DEF ResultSteps
    <3>2. Accounted(Made, harness.first, harness.exec.trace, harness.exec.events)
      BY <1>6, <2>3, <3>1, RecordedAccounted
    <3> QED
      BY <1>1, <1>4, <2>1, <2>3, <3>2, CheckingSteps
  <2> QED
    BY <1>1, <1>4, <1>5, <2>1, <2>2, <2>3, FailedRunSteps
<1>9. CASE NoOpStepAnswered
  <2> DEFINE h == Acknowledged(harness, "harness")
  <2>1. /\ DOMAIN h = DOMAIN harness /\ h.trace = Append(harness.trace, call["harness"])
        /\ h.first = harness.first /\ h.pc = harness.pc
    BY <1>4 DEF Acknowledged
  <2>2. /\ harness.pc = "stepping"
        /\ \/ FailedRun(harness) \/ FailedRun(h) \/ (a.ok /\ Checking(h))
           \/ a.ok /\ harness' = h /\ Ask("harness", "step")
    BY <1>9 DEF NoOpStepAnswered, Harness
  <2>3. a.ok => h.trace = Made /\ \A i \in 1..Len(Made) : Made[i] >= harness.first
    BY <1>1, <1>3, <2>1, <2>2 DEF HarnessSteps
  <2> HIDE DEF h, a
  <2>4. a.ok => Accounted(Made, harness.first, h.trace, h.exec.events)
    BY <1>6, <2>3, KeptSelf
  <2>5. CASE a.ok /\ harness' = h /\ Ask("harness", "step")
    <3>1. harness'.pc = "stepping" /\ harness'.first = harness.first /\ harness'.trace = h.trace
      BY <2>1, <2>2, <2>5
    <3>2. StepFields' /\ "step" \in Operations
      BY <1>1, <2>1, <2>5 DEF StepFields, Operations
    <3> QED
      BY <1>1, <1>3, <2>3, <2>5, <3>1, <3>2, AskSteps
  <2> QED
    BY <1>1, <1>4, <1>5, <2>1, <2>2, <2>4, <2>5, FailedRunSteps, CheckingSteps
<1>10. CASE VerdictAnswered
  <2>1. CASE /\ a.ok
             /\ harness' = [harness EXCEPT !.pc = "closing", !.status = "completed", !.verdict = a.now]
             /\ Ask("harness", "close")
    <3>1. /\ harness'.pc = "closing" /\ harness'.verdict = a.now /\ harness'.trace = harness.trace
          /\ harness'.first = harness.first
          /\ harness'.exec = harness.exec /\ DOMAIN harness' = DOMAIN harness
      BY <1>4, <2>1
    <3>2. "close" \in Operations /\ "close" \notin Moving /\ "closing" \notin InEpisode
      BY DEF Operations, Moving, InEpisode
    <3>3. harness.pc = "checking"
      BY <1>10 DEF VerdictAnswered, Harness
    <3>4. Accounted(Made, harness.first, harness.trace, harness.exec.events)
      BY <1>1, <1>3, <2>1, <3>3 DEF ResultSteps
    <3>5. a.now.ep = backend.ep
      BY <1>3, <2>1 DEF Taken, Here
    <3>6. ~Pending(Moving)
      BY <1>3, <2>1, EmptySeq DEF Pending
    <3>7. StepFields'
      BY <1>1, <3>1 DEF StepFields
    <3>8. Accounted(moves[harness'.verdict.ep], harness.first, harness'.trace, harness'.exec.events)
      BY <3>1, <3>4, <3>5 DEF Made
    <3> HIDE DEF a
    <3> QED
      BY <1>1, <2>1, <3>1, <3>2, <3>6, <3>7, <3>8, AskSteps
  <2> QED
    BY <1>5, <1>10, <2>1 DEF VerdictAnswered
<1> QED
  BY <1>7, <1>8, <1>9, <1>10

(* The policy is over: what its file says, if it is used, is what it made.  *)
LEMMA PolicyEndsSteps ==
  ASSUME EpisodeAssumption, ServiceAssumption, RInv, VInv, SInv, PolicyOver \/ PolicyTimesOut
  PROVE  SInv'
<1>1. /\ harness.pc = "policy" /\ FieldsOK /\ StepFields /\ PolicyOK /\ PolicySteps /\ ServedOK
      /\ UNCHANGED <<simVars, file, report, runs>>
  BY DEF PolicyOver, PolicyTimesOut, Harness, VInv, SInv
<1>2. PICK status : /\ Refreshing(status)
                    /\ status = "completed" => worker.pc = "exited" /\ worker.code = 0
  BY DEF PolicyOver, PolicyTimesOut
<1>3. worker' = worker \/ worker'.pc # "exited"
  BY DEF PolicyOver, PolicyTimesOut, RInv, PartiesOK
<1>4. "trace" \in DOMAIN worker'
  BY <1>1 DEF PolicyOver, PolicyTimesOut, StepFields
<1>5. /\ harness'.pc = "refreshing" /\ harness'.first = harness.first
      /\ harness'.exec.status = status /\ harness'.exec.trace = file.trace
      /\ harness'.exec.events = file.events /\ DOMAIN harness' = DOMAIN harness
      /\ Ask("harness", "observation")
  BY <1>1, <1>2 DEF Refreshing, FieldsOK, StepFields
<1>6. StepFields'
  BY <1>1, <1>4, <1>5 DEF StepFields
<1>7. "observation" \in Operations /\ "observation" \notin Moving /\ backend # NoBackend
  BY <1>1 DEF Operations, Moving, ServedOK, InEpisode
<1>8. ASSUME status = "completed"
      PROVE  /\ Recorded(Made, harness.first, file.trace)
             /\ \A i \in 1..Len(Made) : Made[i] \in ToSet(file.trace) \cup FailedSteps(file.events)
             /\ \A i \in 1..Len(queue) : queue[i].op \in Moving =>
                  /\ queue[i].op = "step" /\ queue[i].id >= harness.first
                  /\ queue[i].id \in FailedSteps(file.events)
  <2>1. worker.pc = "exited" /\ worker.code = 0
    BY <1>2, <1>8
  <2>2. file.trace = worker.trace /\ file.events = worker.events
    BY <1>1, <2>1 DEF PolicyOK, PolicySteps
  <2>3. Lost = FailedSteps(file.events) /\ (\A id : ~Due(id)) /\ (\A i : ~Awaited(i))
    BY <2>1, <2>2 DEF Lost, StepFailed, Due, Awaited
  <2> QED
    BY <1>1, <2>2, <2>3 DEF PolicySteps
<1> QED
  BY <1>1, <1>3, <1>5, <1>6, <1>7, <1>8, AskSteps

(* The result is what the harness had.                                      *)
LEMMA CloseAnsweredSteps ==
  ASSUME EpisodeAssumption, ServiceAssumption, RInv, VInv, SInv, CloseAnswered
  PROVE  SInv'
<1>1. /\ harness.pc = "closing" /\ ServedOK /\ ResultSteps /\ WireOK
      /\ UNCHANGED <<backend, moves, queue, sent>> /\ harness' = IdleHarness /\ worker' = NoWorker
  BY DEF CloseAnswered, Harness, SInv, RInv, simVars
<1>2. /\ harness'.pc = "idle" /\ harness'.first = 0 /\ worker'.pc = "off" /\ StepFields'
  BY <1>1 DEF IdleHarness, NoWorker, StepFields
<1>3. ServedOK'
  BY <1>1, <1>2 DEF ServedOK, Past, InEpisode, WireOK
<1>4. PolicySteps' /\ HarnessSteps'
  BY <1>2 DEF PolicySteps, HarnessSteps
<1>5. StepsAccounted'
  <2>1. CASE report' = NoReport
    BY <2>1 DEF StepsAccounted, NoReport
  <2>2. CASE report' = [status |-> harness.status, policy |-> harness.policy,
                        first |-> harness.first, trace |-> harness.trace,
                        events |-> harness.exec.events, final |-> harness.final,
                        verdict |-> harness.verdict]
    <3>1. /\ report'.status = harness.status /\ report'.first = harness.first
          /\ report'.trace = harness.trace /\ report'.verdict = harness.verdict
          /\ report'.events = harness.exec.events
      BY <2>2
    <3>2. harness.status = "completed" =>
            Accounted(moves[harness.verdict.ep], harness.first, harness.trace, harness.exec.events)
      BY <1>1 DEF ResultSteps
    <3> QED
      BY <1>1, <3>1, <3>2 DEF StepsAccounted
  <2> QED
    BY <2>1, <2>2 DEF CloseAnswered
<1>6. ResultSteps'
  BY <1>2, <1>5 DEF ResultSteps
<1> QED
  BY <1>2, <1>3, <1>4, <1>6 DEF SInv

(* A run begins, under new numbers if none is in use.                       *)
LEMMA RunBeginsSteps ==
  ASSUME EpisodeAssumption, ServiceAssumption, RInv, VInv, SInv, RunBegins
  PROVE  SInv'
<1> DEFINE n == IF NamesFree THEN 0 ELSE sent
<1>1. PICK p \in Policies, cfg \in Plan[runs + 1].configs :
        /\ harness' = [IdleHarness EXCEPT !.pc = "resetting", !.policy = p, !.config = cfg,
                                          !.first = n + 1]
        /\ SendAfter(n, "harness", "reset", cfg)
  BY DEF RunBegins
<1>2. cfg \in Configs \cup {NoConfig}
  <2>1. runs + 1 \in 1..Len(Plan)
    BY DEF RunBegins, RInv, PartiesOK, EpisodeAssumption
  <2>2. Plan[runs + 1] \in [configs : SUBSET Configs, calls : Nat]
    BY <2>1, ElementOfSeq DEF EpisodeAssumption
  <2> QED
    BY <2>2
<1>3. /\ WireOK /\ SimOK /\ ServedOK /\ PolicySteps /\ StepFields
      /\ "harness" \in Clients /\ "reset" \in Operations
  BY DEF RInv, VInv, SInv, EpisodeAssumption, Operations
<1>4. n \in Nat
  BY <1>3 DEF WireOK
<1>5. sent' = n + 1 /\ DOMAIN answer = Clients /\ answer' = [answer EXCEPT !["harness"] = NoAnswer]
  BY <1>1, <1>3 DEF SendAfter, WireOK
<1>6. UNCHANGED <<backend, worker, file>> /\ report' = NoReport
  BY DEF RunBegins
<1>7. ServedOK'
  <2>1. ASSUME NEW e \in Episodes, NEW j \in 1..Len(moves'[e]) PROVE Past(moves[e][j])'
    <3>1. CASE NamesFree
      <4>1. moves' = [x \in Episodes |-> <<>>]
        BY <3>1 DEF RunBegins
      <4>2. Len(moves'[e]) = 0
        BY <4>1
      <4> QED
        BY <2>1, <4>2
    <3>2. CASE ~NamesFree
      <4>1. moves' = moves /\ SendAfter(sent, "harness", "reset", cfg)
        BY <1>1, <3>2 DEF RunBegins
      <4>2. \A x \in Nat : Past(x) => Past(x)'
        BY <1>2, <1>3, <4>1, SendLast
      <4>3. moves[e] \in Seq(Nat)
        BY <1>3 DEF SimOK
      <4>4. moves[e][j] \in Nat /\ Past(moves[e][j])
        BY <1>3, <4>1, <4>3, ElementOfSeq DEF ServedOK
      <4>5. PICK y \in Nat : y = moves[e][j]
        BY <4>4
      <4>6. Past(y)'
        BY <4>2, <4>4, <4>5
      <4> QED
        BY <4>1, <4>5, <4>6
    <3> QED
      BY <3>1, <3>2
  <2> HIDE DEF n
  <2>2. harness'.first = n + 1 /\ harness'.pc = "resetting"
    BY <1>1 DEF IdleHarness
  <2>3. "resetting" \notin InEpisode
    BY DEF InEpisode
  <2> QED
    BY <1>4, <1>5, <2>1, <2>2, <2>3 DEF ServedOK
<1> HIDE DEF n
<1>8. /\ harness'.pc = "resetting" /\ harness'.trace = <<>> /\ {"first", "trace"} \subseteq DOMAIN harness'
  BY <1>1 DEF IdleHarness
<1>9. StepFields'
  BY <1>3, <1>6, <1>8 DEF StepFields
<1>10. PolicySteps'
  BY <1>3, <1>6, <1>8 DEF PolicySteps
<1>11. HarnessSteps'
  <2>1. answer'["harness"] = NoAnswer
    BY <1>3, <1>5
  <2> QED
    BY <1>8, <2>1 DEF HarnessSteps
<1>12. ResultSteps'
  BY <1>6, <1>8 DEF ResultSteps, StepsAccounted, NoReport
<1> QED
  BY <1>7, <1>9, <1>10, <1>11, <1>12 DEF SInv

(* What no step of the worker disturbs, when it waits for no step.          *)
LEMMA WorkerQuietSteps ==
  ASSUME RInv, SInv, harness.pc = "policy", StepFields',
         UNCHANGED <<backend, moves, queue, sent, harness, report>>,
         worker.pc # "moving" \/ answer["worker"] # NoAnswer, worker'.pc # "moving",
         Recorded(Made, harness.first, worker'.trace),
         \A i \in 1..Len(worker'.trace) : worker'.trace[i] <= sent,
         \A i \in 1..Len(Made) : Made[i] \in ToSet(worker'.trace) \cup Lost', Lost \subseteq Lost',
         worker'.pc = "exited" /\ worker'.code = 0 => file'.trace = worker'.trace
  PROVE  SInv'
<1>1. ServedOK /\ PolicySteps /\ ResultSteps
  BY DEF SInv
<1>2. Made' = Made
  BY DEF Made
<1>3. ServedOK'
  BY <1>1 DEF ServedOK, Past
<1>4. HarnessSteps' /\ ResultSteps'
  BY <1>1 DEF HarnessSteps, ResultSteps, StepsAccounted
<1>5. \A i \in 1..Len(queue) : queue[i].op \in Moving =>
        queue[i].op = "step" /\ queue[i].id >= harness.first /\ queue[i].id \in Lost'
  BY <1>1 DEF PolicySteps, Awaited
<1>6. PolicySteps'
  BY <1>2, <1>5 DEF PolicySteps
<1> QED
  BY <1>3, <1>4, <1>6 DEF SInv

(* The worker sends a request; for a step it remembers which.               *)
LEMMA WorkerSendsSteps ==
  ASSUME EpisodeAssumption, RInv, VInv, SInv, harness.pc = "policy", StepFields',
         UNCHANGED <<simVars, harness, report>>,
         NEW op \in {"session", "step"}, Ask("worker", op),
         op = "step" => worker'.pc = "moving" /\ sent + 1 \in worker'.asked,
         op = "session" => worker'.pc # "moving", worker'.pc # "exited",
         worker.pc # "moving" \/ answer["worker"] # NoAnswer,
         Recorded(Made, harness.first, worker'.trace),
         \A i \in 1..Len(worker'.trace) : worker'.trace[i] <= sent,
         \A i \in 1..Len(Made) : Made[i] \in ToSet(worker'.trace) \cup Lost', Lost \subseteq Lost'
  PROVE  SInv'
<1>1. /\ "worker" \in Clients /\ harness.config \in Configs \cup {NoConfig} /\ WireOK /\ SimOK
      /\ ServedOK /\ PolicySteps /\ ResultSteps
  BY DEF EpisodeAssumption, RInv, PartiesOK, VInv, SInv
<1>2. /\ SendAfter(sent, "worker", op, harness.config) /\ UNCHANGED <<backend, moves>>
      /\ op \in Operations /\ (op \in Moving => op = "step")
  BY DEF Ask, Send, simVars, Operations, Moving
<1>3. /\ sent \in Nat /\ sent' = sent + 1 /\ Len(queue) \in Nat /\ Len(queue') = Len(queue) + 1
      /\ \A i \in 1..Len(queue) : queue'[i] = queue[i] /\ queue[i].id <= sent
      /\ queue'[Len(queue')] = [id |-> sent + 1, from |-> "worker", op |-> op, config |-> harness.config]
      /\ call'["worker"] = sent + 1 /\ answer'["worker"] = NoAnswer
      /\ \A x \in Nat : Past(x) => Past(x)'
  BY <1>1, <1>2, SendLast
<1>4. /\ queue'[Len(queue')].op = op /\ queue'[Len(queue')].id = sent + 1
      /\ queue'[Len(queue')].from = "worker"
  BY <1>3
<1>5. \A i \in 1..Len(queue') : i \in 1..Len(queue) \/ i = Len(queue')
  BY <1>3
<1>6. Made' = Made
  BY <1>2 DEF Made
<1>7. harness.first \in Nat /\ harness.first <= sent /\ sent + 1 >= harness.first
  BY <1>1, <1>3 DEF ServedOK
<1>8. ServedOK'
  <2>1. ASSUME NEW e \in Episodes, NEW j \in 1..Len(moves[e]) PROVE Past(moves[e][j])'
    <3>1. moves[e] \in Seq(Nat)
      BY <1>1 DEF SimOK
    <3>2. moves[e][j] \in Nat /\ Past(moves[e][j])
      BY <1>1, <3>1, ElementOfSeq DEF ServedOK
    <3>3. \A x \in Nat : Past(x) => Past(x)'
      BY <1>3
    <3>4. PICK y \in Nat : y = moves[e][j]
      BY <3>2
    <3>5. Past(y)'
      BY <3>2, <3>3, <3>4
    <3> QED
      BY <1>2, <3>4, <3>5
  <2>2. \A e \in Episodes : \A j \in 1..Len(moves'[e]) : Past(moves[e][j])'
    BY <1>2, <2>1
  <2>3. harness'.first \in Nat /\ harness'.first <= sent'
    BY <1>3, <1>7
  <2> QED
    BY <1>1, <1>2, <2>2, <2>3 DEF ServedOK
<1>9. HarnessSteps' /\ ResultSteps'
  BY <1>1, <1>2 DEF HarnessSteps, ResultSteps, StepsAccounted
<1>10. ASSUME NEW i \in 1..Len(queue'), queue'[i].op \in Moving
       PROVE  /\ queue'[i].op = "step" /\ queue'[i].id >= harness.first
              /\ queue'[i].id \in Lost' \/ Awaited(i)'
  <2>1. CASE i \in 1..Len(queue)
    BY <1>1, <1>3, <1>10, <2>1 DEF PolicySteps, Awaited
  <2>2. CASE i = Len(queue')
    <3>1. op = "step" /\ worker'.pc = "moving"
      BY <1>2, <1>4, <1>10, <2>2
    <3>2. Awaited(i)'
      BY <1>3, <1>4, <2>2, <3>1 DEF Awaited
    <3> QED
      BY <1>4, <1>7, <2>2, <3>1, <3>2
  <2> QED
    BY <1>5, <2>1, <2>2
<1>11. ASSUME NEW i \in 1..Len(queue'), queue'[i].id = sent + 1
       PROVE  i = Len(queue')
  <2>1. CASE i \in 1..Len(queue)
    <3>1. queue[i].id \in 1..sent
      BY <1>1, <2>1 DEF WireOK
    <3>2. queue[i].id = sent + 1
      BY <1>3, <1>11, <2>1
    <3> QED
      BY <1>3, <3>1, <3>2
  <2> QED
    BY <1>5, <2>1
<1>12. worker'.pc = "moving" => \A i \in 1..Len(queue') : queue'[i].id = sent + 1 => queue'[i].op = "step"
  BY <1>4, <1>11
<1>13. \A i \in 1..Len(worker'.trace) : worker'.trace[i] <= sent + 1 /\ worker'.trace[i] < sent + 1
  <2>1. worker'.trace \in Seq(Nat)
    BY DEF Recorded
  <2>2. \A i \in 1..Len(worker'.trace) : worker'.trace[i] \in Nat
    BY <2>1, ElementOfSeq
  <2> QED
    BY <1>3, <2>2
<1>14. sent + 1 <= sent'
  BY <1>3
<1>15. worker'.pc = "moving" => sent + 1 \in worker'.asked
  OBVIOUS
<1>16. PolicySteps'
  BY <1>3, <1>6, <1>10, <1>12, <1>13, <1>14, <1>15 DEF PolicySteps
<1> QED
  BY <1>8, <1>9, <1>16 DEF SInv

(* The steps of a call that failed are those its event names.               *)
LEMMA FailedStepsAppend ==
  ASSUME NEW S, NEW s \in Seq(S), NEW e \in S
  PROVE  FailedSteps(Append(s, e)) = FailedSteps(s) \cup (IF e.status = "failed" THEN e.asked ELSE {})
<1>1. ToSet(Append(s, e)) = ToSet(s) \cup {e}
  BY ToSetAppend
<1> QED
  BY <1>1 DEF FailedSteps

(* The steps of the worker.                                                 *)
LEMMA WorkerStepsKeep ==
  ASSUME EpisodeAssumption, ServiceAssumption, RInv, WorkerOK, VInv, SInv, WorkerStep
  PROVE  SInv'
<1>1. /\ worker.pc \notin {"off", "exited"} /\ WorkerFields \subseteq DOMAIN worker
      /\ {"raises", "code"} \subseteq DOMAIN worker
      /\ UNCHANGED <<simVars, harness, report, runs>> /\ UNCHANGED <<backend, moves>>
  BY DEF WorkerStep, WorkerAttaches, AttachAnswered, SensorCall, MotionCall, StepAnswered, CallReturns,
     PolicyReturns, WorkerExits, Worker, serviceVars, simVars, WorkerOK, VInv, FieldsOK
<1>2. /\ harness.pc = "policy" /\ StepFields /\ PolicySteps /\ "trace" \in DOMAIN worker
      /\ SimOK /\ ServedOK
  BY <1>1 DEF RInv, PartiesOK, SInv, StepFields, VInv
<1>3. "trace" \in DOMAIN worker' => StepFields'
  BY <1>1, <1>2 DEF StepFields
<1>4. /\ Recorded(Made, harness.first, worker.trace)
      /\ \A i \in 1..Len(worker.trace) : worker.trace[i] <= sent
      /\ \A i \in 1..Len(Made) : Made[i] \in ToSet(worker.trace) \cup Lost \/ Due(Made[i])
  BY <1>2 DEF PolicySteps
<1>5. worker.pc # "moving" => \A i \in 1..Len(Made) : Made[i] \in ToSet(worker.trace) \cup Lost
  BY <1>4 DEF Due
<1>6. worker.pc \notin {"moving", "returning"} /\ worker'.events = worker.events => Lost \subseteq Lost'
  BY DEF Lost, StepFailed
<1>7. CASE WorkerAttaches
  <2>1. worker.pc = "starting" /\ worker'.pc = "attaching" /\ worker'.events = worker.events
        /\ worker'.trace = worker.trace /\ "trace" \in DOMAIN worker' /\ Ask("worker", "session")
    BY <1>1, <1>2, <1>7 DEF WorkerAttaches, Worker, WorkerFields
  <2>2. Lost \subseteq Lost'
    BY <1>6, <2>1
  <2>3. \A i \in 1..Len(Made) : Made[i] \in ToSet(worker'.trace) \cup Lost'
    BY <1>5, <2>1, <2>2
  <2> QED
    BY <1>1, <1>2, <1>3, <1>4, <2>1, <2>2, <2>3, WorkerSendsSteps
<1>8. CASE MotionCall
  <2>1. worker.pc = "running" /\ worker'.pc = "moving" /\ worker'.events = worker.events
        /\ worker'.trace = worker.trace /\ "trace" \in DOMAIN worker' /\ Ask("worker", "step")
        /\ sent + 1 \in worker'.asked
    BY <1>1, <1>2, <1>8 DEF MotionCall, Worker, WorkerFields
  <2>2. Lost \subseteq Lost'
    BY <1>6, <2>1
  <2>3. \A i \in 1..Len(Made) : Made[i] \in ToSet(worker'.trace) \cup Lost'
    BY <1>5, <2>1, <2>2
  <2> QED
    BY <1>1, <1>2, <1>3, <1>4, <2>1, <2>2, <2>3, WorkerSendsSteps
<1>9. CASE AttachAnswered \/ SensorCall \/ PolicyReturns
  <2>1. worker.pc \in {"attaching", "running"} /\ worker'.pc \in {"running", "ending", "returning"}
        /\ worker'.events = worker.events /\ worker'.trace = worker.trace /\ "trace" \in DOMAIN worker'
        /\ UNCHANGED <<queue, sent>>
    BY <1>1, <1>2, <1>9 DEF AttachAnswered, SensorCall, PolicyReturns, Worker, WorkerFields, serviceVars
  <2>2. Lost \subseteq Lost'
    BY <1>6, <2>1
  <2>3. \A i \in 1..Len(Made) : Made[i] \in ToSet(worker'.trace) \cup Lost'
    BY <1>5, <2>1, <2>2
  <2> QED
    BY <1>1, <1>2, <1>3, <1>4, <2>1, <2>2, <2>3, WorkerQuietSteps
<1>10. CASE StepAnswered
  <2>1. worker.pc = "moving" /\ answer["worker"] # NoAnswer
    BY <1>10 DEF StepAnswered, Worker, Answered
  <2>2. /\ call["worker"] \in worker.asked /\ call["worker"] <= sent
        /\ \A i \in 1..Len(worker.trace) : worker.trace[i] < call["worker"]
        /\ answer["worker"] # Error => call["worker"] \in ToSet(Made)
    BY <1>2, <2>1 DEF PolicySteps
  <2>3. CASE /\ worker' = [worker EXCEPT !.pc = "returning", !.raises = TRUE]
             /\ UNCHANGED <<queue, sent>>
    <3>1. /\ worker'.pc = "returning" /\ worker'.raises /\ worker'.events = worker.events
          /\ worker'.asked = worker.asked /\ worker'.trace = worker.trace /\ "trace" \in DOMAIN worker'
      BY <1>1, <1>2, <2>3 DEF WorkerFields
    <3>2. Lost \subseteq Lost' /\ worker.asked \subseteq Lost'
      BY <3>1 DEF Lost, StepFailed
    <3>3. \A i \in 1..Len(Made) : Made[i] \in ToSet(worker'.trace) \cup Lost'
      BY <1>4, <2>2, <3>1, <3>2 DEF Due
    <3> QED
      BY <1>1, <1>2, <1>3, <1>4, <2>1, <2>3, <3>1, <3>2, <3>3, WorkerQuietSteps
  <2> DEFINE w == Acknowledged(worker, "worker")
  <2>4. w.events = worker.events /\ DOMAIN w = DOMAIN worker /\ w.pc = worker.pc
        /\ w.trace = Append(worker.trace, call["worker"]) /\ w.asked = worker.asked
    BY <1>1, <1>2 DEF Acknowledged, WorkerFields
  <2>5. answer["worker"].ok => answer["worker"] # Error
    BY DEF Error
  <2> HIDE DEF w
  <2>6. ASSUME answer["worker"].ok, worker'.trace = w.trace, worker'.events = worker.events
        PROVE  /\ Recorded(Made, harness.first, worker'.trace)
               /\ \A i \in 1..Len(worker'.trace) : worker'.trace[i] <= sent
               /\ Lost \subseteq Lost'
               /\ \A i \in 1..Len(Made) : Made[i] \in ToSet(worker'.trace) \cup Lost'
    <3> DEFINE s == worker.trace
               t == worker'.trace
               id == call["worker"]
    <3>1. s \in Seq(Nat) /\ id \in Nat /\ id \in ToSet(Made)
      BY <1>4, <2>2, <2>5, <2>6, EpisodeAssumption DEF Recorded, RInv, WireOK, EpisodeAssumption
    <3>2. t = Append(s, id)
      BY <2>4, <2>6
    <3>3. /\ t \in Seq(Nat) /\ Len(t) = Len(s) + 1 /\ Len(s) \in Nat
          /\ \A i \in 1..Len(s) : t[i] = s[i]
          /\ t[Len(s) + 1] = id /\ ToSet(t) = ToSet(s) \cup {id}
      BY <3>1, <3>2, ToSetAppend
    <3>4. /\ \A i \in 1..Len(s) : s[i] < id /\ s[i] <= sent
          /\ id <= sent /\ Increasing(s) /\ ToSet(s) \subseteq ToSet(Made)
          /\ Increasing(Made) /\ \A i \in 1..Len(Made) : Made[i] >= harness.first
      BY <1>4, <2>2 DEF Recorded
    <3>5. Lost \subseteq Lost'
      BY <2>1, <2>5, <2>6 DEF Lost, StepFailed
    <3>6. \A i \in 1..Len(Made) : Made[i] \in ToSet(s) \cup Lost \cup {id}
      BY <1>4 DEF Due
    <3> HIDE DEF s, t, id
    <3>7. \A i \in 1..Len(t) : i \in 1..Len(s) \/ (i = Len(s) + 1 /\ t[i] = id)
      BY <3>3
    <3>8. Increasing(t)
      <4> SUFFICES ASSUME NEW i \in 1..Len(t), NEW j \in 1..Len(t), i < j PROVE t[i] < t[j]
        BY DEF Increasing
      <4>1. i \in 1..Len(s)
        BY <3>3, <3>7
      <4>2. CASE j \in 1..Len(s)
        BY <3>3, <3>4, <4>1, <4>2 DEF Increasing
      <4>3. CASE j \notin 1..Len(s)
        BY <3>3, <3>4, <3>7, <4>1, <4>3
      <4> QED
        BY <4>2, <4>3
    <3>9. Recorded(Made, harness.first, t)
      BY <3>1, <3>3, <3>4, <3>8 DEF Recorded
    <3>10. \A i \in 1..Len(t) : t[i] <= sent
      BY <3>3, <3>4, <3>7
    <3>11. \A i \in 1..Len(Made) : Made[i] \in ToSet(t) \cup Lost'
      BY <3>3, <3>5, <3>6
    <3> QED
      BY <3>5, <3>9, <3>10, <3>11 DEF t
  <2>7. CASE /\ answer["worker"].ok /\ UNCHANGED <<queue, sent>>
             /\ \E raises \in BOOLEAN : worker' = [w EXCEPT !.pc = "returning", !.raises = raises]
    <3>1. worker'.pc = "returning" /\ worker'.events = worker.events /\ worker'.trace = w.trace
          /\ "trace" \in DOMAIN worker'
      BY <1>1, <1>2, <2>4, <2>7 DEF WorkerFields
    <3> QED
      BY <1>1, <1>2, <1>3, <2>1, <2>6, <2>7, <3>1, WorkerQuietSteps
  <2>8. CASE /\ answer["worker"].ok /\ Ask("worker", "step")
             /\ worker' = [w EXCEPT !.asked = @ \cup {sent + 1}]
    <3>1. worker'.pc = "moving" /\ worker'.events = worker.events /\ worker'.trace = w.trace
          /\ "trace" \in DOMAIN worker' /\ sent + 1 \in worker'.asked
      BY <1>1, <1>2, <2>1, <2>4, <2>8 DEF WorkerFields
    <3> QED
      BY <1>1, <1>2, <1>3, <2>1, <2>6, <2>8, <3>1, WorkerSendsSteps
  <2> QED
    BY <1>10, <2>3, <2>7, <2>8 DEF StepAnswered, w
<1>11. CASE CallReturns
  <2> DEFINE e == [sequence |-> worker.seq, of |-> worker.calls, asked |-> worker.asked,
                   status |-> IF worker.raises THEN "failed" ELSE "completed"]
             w == Emitted(worker)
  <2>1. w.events = Append(worker.events, e) /\ DOMAIN w = DOMAIN worker /\ w.trace = worker.trace
    BY <1>1, <1>2 DEF Emitted, WorkerFields
  <2>2. e \in Event /\ e.asked = worker.asked /\ (e.status = "failed" <=> worker.raises)
    BY LenProperties DEF Event, WorkerOK
  <2>3. worker.pc = "returning" /\ UNCHANGED <<queue, sent>>
    BY <1>11 DEF CallReturns, Worker, serviceVars
  <2>4. worker' \in {[w EXCEPT !.pc = "running"], [w EXCEPT !.pc = "ending"]}
    BY <1>11 DEF CallReturns, Persist
  <2> HIDE DEF w, e
  <2>5. FailedSteps(w.events) = FailedSteps(worker.events) \cup (IF worker.raises THEN worker.asked ELSE {})
    BY <2>1, <2>2, FailedStepsAppend DEF WorkerOK
  <2>6. worker'.pc \in {"running", "ending"} /\ worker'.events = w.events
        /\ worker'.trace = worker.trace /\ "trace" \in DOMAIN worker'
    BY <1>1, <1>2, <2>1, <2>4 DEF WorkerFields
  <2>7. Lost \subseteq Lost'
    BY <2>3, <2>5, <2>6 DEF Lost, StepFailed
  <2>8. \A i \in 1..Len(Made) : Made[i] \in ToSet(worker'.trace) \cup Lost'
    BY <1>5, <2>3, <2>6, <2>7
  <2> QED
    BY <1>1, <1>2, <1>3, <1>4, <2>3, <2>6, <2>7, <2>8, WorkerQuietSteps
<1>12. CASE WorkerExits
  <2>1. worker.pc = "ending" /\ UNCHANGED <<queue, sent>>
    BY <1>12 DEF WorkerExits, Worker, serviceVars
  <2> DEFINE code == IF worker.status = "completed" THEN 0 ELSE 1
             out == [status |-> worker.status,
                     trace |-> IF worker.pc = "ending" THEN worker.trace ELSE <<>>,
                     events |-> worker.events]
  <2>2. \/ file' = out /\ worker' = [worker EXCEPT !.pc = "exited", !.code = code]
        \/ worker' = [worker EXCEPT !.pc = "exited", !.code = 1]
    BY <1>12 DEF WorkerExits, Persist
  <2>3. out.trace = worker.trace
    BY <2>1
  <2> HIDE DEF out, code
  <2>4. worker'.pc = "exited" /\ worker'.events = worker.events /\ worker'.trace = worker.trace
        /\ "trace" \in DOMAIN worker' /\ (worker'.code = 0 => file'.trace = worker.trace)
    <3>1. CASE file' = out /\ worker' = [worker EXCEPT !.pc = "exited", !.code = code]
      BY <1>1, <1>2, <2>3, <3>1 DEF WorkerFields
    <3>2. CASE worker' = [worker EXCEPT !.pc = "exited", !.code = 1]
      <4>1. worker'.code = 1
        BY <1>1, <3>2 DEF WorkerFields
      <4> QED
        BY <1>1, <1>2, <3>2, <4>1 DEF WorkerFields
    <3> QED
      BY <2>2, <3>1, <3>2
  <2>5. Lost \subseteq Lost'
    BY <1>6, <2>1, <2>4
  <2>6. \A i \in 1..Len(Made) : Made[i] \in ToSet(worker'.trace) \cup Lost'
    BY <1>5, <2>1, <2>4, <2>5
  <2> QED
    BY <1>1, <1>2, <1>3, <1>4, <2>1, <2>4, <2>5, <2>6, WorkerQuietSteps
<1> QED
  BY <1>7, <1>8, <1>9, <1>10, <1>11, <1>12 DEF WorkerStep

(* Every step keeps the account.                                            *)
LEMMA StepsKeep ==
  EpisodeAssumption /\ ServiceAssumption /\ RInv /\ EventsInv /\ VInv /\ SInv /\ [EpisodeNext]_vars => SInv'
<1> SUFFICES ASSUME EpisodeAssumption, ServiceAssumption, RInv, EventsInv, VInv, SInv, [EpisodeNext]_vars
             PROVE  SInv'
  OBVIOUS
<1>1. CASE HarnessStep
  BY <1>1, ResetAnsweredSteps, OthersAnsweredSteps, PolicyEndsSteps, CloseAnsweredSteps DEF HarnessStep
<1>2. CASE ServiceStep
  <2>1. UNCHANGED <<harness, worker, file, report, runs>> /\ "harness" \in Clients /\ "worker" \in Clients
    BY <1>2 DEF ServiceStep, EpisodeAssumption
  <2>2. CASE Serve
    <3>1. ServedOK'
      BY <2>1, <2>2, ServeTold DEF SInv
    <3>2. PolicySteps' /\ HarnessSteps' /\ ResultSteps'
      BY <2>1, <2>2, ServePolicySteps, ServeHarnessSteps, ServeResultSteps
    <3>3. StepFields'
      BY <2>1 DEF SInv, StepFields
    <3> QED
      BY <3>1, <3>2, <3>3 DEF SInv
  <2> QED
    BY <1>2, <2>1, <2>2, CallFailsSteps DEF ServiceStep
<1>3. CASE UNCHANGED vars
  <2>1. UNCHANGED <<queue, backend, moves, sent, call, answer, harness, worker, file, report>>
    BY <1>3 DEF vars
  <2>2. Made' = Made /\ Lost' = Lost /\ (Pending(Moving)' <=> Pending(Moving))
    BY <2>1 DEF Made, Lost, StepFailed, Pending
  <2>3. StepFields' /\ ServedOK'
    BY <2>1 DEF SInv, StepFields, ServedOK, Past
  <2>4. HarnessSteps'
    BY <2>1, <2>2 DEF SInv, HarnessSteps
  <2>5. PolicySteps'
    BY <2>1, <2>2 DEF SInv, PolicySteps, Due, Awaited
  <2>6. ResultSteps'
    BY <2>1, <2>2 DEF SInv, ResultSteps, StepsAccounted
  <2> QED
    BY <2>3, <2>4, <2>5, <2>6 DEF SInv
<1> QED
  BY <1>1, <1>2, <1>3, RunBeginsSteps, WorkerStepsKeep DEF EpisodeNext, EventsInv

(* The account is an invariant.                                             *)
LEMMA StepsInvariant == EpisodeSpec => []SInv
<1>1. EpisodeInit => SInv
  <2> SUFFICES ASSUME EpisodeInit PROVE SInv
    OBVIOUS
  <2>1. /\ backend = NoBackend /\ moves = [e \in Episodes |-> <<>>] /\ sent = 0
        /\ harness = IdleHarness /\ worker = NoWorker /\ report = NoReport
    BY DEF EpisodeInit, ServiceInit
  <2>2. /\ harness.pc = "idle" /\ harness.first = 0 /\ worker.pc = "off" /\ report.status = "none"
        /\ StepFields
    BY <2>1 DEF IdleHarness, NoWorker, NoReport, StepFields
  <2>3. ServedOK
    <3>1. \A e \in Episodes : \A j \in 1..Len(moves[e]) : FALSE
      <4>1. \A e \in Episodes : Len(moves[e]) = 0
        BY <2>1
      <4> QED
        BY <4>1
    <3> QED
      BY <2>1, <2>2, <3>1 DEF ServedOK, InEpisode
  <2>4. PolicySteps /\ HarnessSteps /\ ResultSteps
    BY <2>2 DEF PolicySteps, HarnessSteps, ResultSteps, StepsAccounted
  <2> QED
    BY <2>2, <2>3, <2>4 DEF SInv
<1> QED
  BY <1>1, StepsKeep, EpisodeInvariant, EventsInvariant, VerdictInvariant, EpisodeAssumption,
     ServiceAssumption, PTL DEF EpisodeSpec

(* A completed run accounts for the robot (runner.py:66-88): whatever was   *)
(* asked for and given up, each step made in its episode is in its trace,   *)
(* in order, or belongs to a call whose event says that it failed.          *)
THEOREM StepsAccountedHolds == EpisodeSpec => []StepsAccounted
<1>1. SInv => StepsAccounted
  BY DEF SInv, ResultSteps
<1> QED
  BY <1>1, StepsInvariant, PTL

=============================================================================
