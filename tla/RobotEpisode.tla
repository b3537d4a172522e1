---------------------------- MODULE RobotEpisode ----------------------------
(***************************************************************************)
(* Benchmark episodes on the simulator service of RobotService: run_episode *)
(* resets the environment, lets a policy act, reads the native verdict and *)
(* closes the environment.  A frozen policy runs in a sandbox worker, which *)
(* attaches to the episode, reaches the robot through the shared SDK facade *)
(* and persists an event for every SDK call; it is killed at its timeout.  *)
(***************************************************************************)
EXTENDS RobotService, SequencesExt

CONSTANTS
  Policies,  \* policies that are run: "no-op", "reference", "frozen-public"
  Plan,      \* the runs, one after the other: the configurations each may ask for, and
             \* as a bound the SDK calls its policy makes
  MaxSteps,  \* bound: robot steps a policy makes, in one call or in several
  SinkFails  \* the event sink may raise (persist() meets a full disk)

ASSUME EpisodeAssumption ==
  /\ Policies \subseteq {"no-op", "reference", "frozen-public"}
  /\ Clients = {"harness", "worker"}
  /\ Plan \in Seq([configs : SUBSET Configs, calls : Nat])
  /\ MaxSteps \in Nat \ {0}
  /\ SinkFails \in BOOLEAN

VARIABLES
  harness,  \* run_episode and its RobosuiteRobotBackend
  worker,   \* the sandbox worker, its adapter and its SDK trace
  file,     \* the worker's output file
  report,   \* the result run_episode returned last, or NoReport
  runs      \* runs begun so far

vars == <<queue, backend, config, live, moves, sent, call, answer,
          harness, worker, file, report, runs>>

NoReport == [status |-> "none"]
NoTaken  == [obs |-> NoView, now |-> NoView]   \* no observation yet

Taken(a) == [obs |-> a.obs, now |-> a.now]

NoFile == [status |-> "missing", trace |-> <<>>, events |-> <<>>]
NoExec == [status |-> "none", trace |-> <<>>, events |-> <<>>]

IdleHarness == [pc |-> "idle", policy |-> "none", config |-> NoConfig, first |-> 0,
                initial |-> NoTaken, last |-> NoTaken, trace |-> <<>>, left |-> 0,
                exec |-> NoExec, status |-> "none", final |-> NoTaken, verdict |-> NoView]

NoWorker == [pc |-> "off", last |-> NoTaken, trace |-> <<>>, calls |-> 0, left |-> 0,
             room |-> MaxSteps, asked |-> {}, raises |-> FALSE, seq |-> 0, events |-> <<>>,
             status |-> "failed", code |-> 1]

-----------------------------------------------------------------------------
(* The harness.                                                             *)
Harness(pc) == harness.pc = pc

Ask(c, op) == Send(c, op, harness.config)

Heard(c) ==
  /\ call' = [call EXCEPT ![c] = 0]
  /\ answer' = [answer EXCEPT ![c] = NoAnswer]

(* No request and no environment is left that could be named.               *)
NamesFree == queue = <<>> /\ backend = NoBackend /\ live = {}

(* run_episode starts: a new adapter, which resets the environment.  The    *)
(* numbering of requests starts anew when it can, to keep the model small.  *)
RunBegins ==
  LET n == IF NamesFree THEN 0 ELSE sent IN
  /\ Harness("idle")
  /\ runs < Len(Plan)
  /\ \E p \in Policies, cfg \in Plan[runs + 1].configs :
       /\ harness' = [IdleHarness EXCEPT !.pc = "resetting", !.policy = p, !.config = cfg,
                                         !.first = n + 1]
       /\ SendAfter(n, "harness", "reset", cfg)
  /\ moves' = IF NamesFree THEN [e \in Episodes |-> <<>>] ELSE moves
  /\ runs' = runs + 1
  /\ report' = NoReport
  /\ UNCHANGED <<backend, config, live, worker, file>>

(* The except branch: the run failed, its final observation is the last the *)
(* adapter has, if the reset gave one; then the finally branch closes.      *)
FailedRun(h) ==
  /\ harness' = [h EXCEPT !.pc = "closing", !.status = "failed", !.verdict = NoView,
                          !.final = IF h.initial = NoTaken THEN NoTaken ELSE h.last]
  /\ Ask("harness", "close")

Checking(h) ==
  /\ harness' = [h EXCEPT !.pc = "checking", !.final = h.last]
  /\ Ask("harness", "success")

(* The adapter holds the new episode, and the policy takes over.  The no-op *)
(* policy may find its time spent before the first step; a frozen policy    *)
(* that cannot be read, does not validate or cannot be started has no       *)
(* worker: either run fails here.                                           *)
ResetAnswered ==
  LET h == [harness EXCEPT !.initial = Taken(answer["harness"]), !.last = Taken(answer["harness"])]
      ok == answer["harness"].ok
  IN
  /\ Harness("resetting") /\ Answered("harness")
  /\ \/ /\ \/ ~ok /\ FailedRun(harness)
           \/ ok /\ harness.policy \in {"no-op", "frozen-public"} /\ FailedRun(h)
           \/ /\ ok /\ harness.policy = "reference"
              /\ harness' = [h EXCEPT !.pc = "reference"]
              /\ Ask("harness", "reference")
           \/ /\ ok /\ harness.policy = "no-op"
              /\ harness' = [h EXCEPT !.pc = "stepping", !.left = MaxSteps]
              /\ Ask("harness", "step")
        /\ worker' = worker
     \/ /\ ok /\ harness.policy = "frozen-public"
        /\ harness' = [h EXCEPT !.pc = "policy"]
        /\ worker' = [NoWorker EXCEPT !.pc = "starting"]
        /\ Heard("harness") /\ UNCHANGED <<queue, sent>>
  /\ UNCHANGED <<simVars, file, report, runs>>

(* run_reference_policy: trace and observation come from the service.       *)
ReferenceAnswered ==
  /\ Harness("reference") /\ Answered("harness")
  /\ IF answer["harness"].ok
     THEN Checking([harness EXCEPT !.last = Taken(answer["harness"]),
                                   !.trace = answer["harness"].trace])
     ELSE FailedRun(harness)
  /\ UNCHANGED <<simVars, worker, file, report, runs>>

(* RobosuiteRobotBackend.step: what was acknowledged enters the trace.      *)
Acknowledged(adapter, c) ==
  [adapter EXCEPT !.last = Taken(answer[c]), !.trace = Append(@, call[c]), !.left = @ - 1]

(* The no-op policy looks at the time before each step.                     *)
NoOpStepAnswered ==
  LET h == Acknowledged(harness, "harness") IN
  /\ Harness("stepping") /\ Answered("harness")
  /\ \/ ~answer["harness"].ok /\ FailedRun(harness)
     \/ answer["harness"].ok /\ h.left = 0 /\ Checking(h)
     \/ answer["harness"].ok /\ h.left > 0 /\ FailedRun(h)
     \/ answer["harness"].ok /\ h.left > 0 /\ harness' = h /\ Ask("harness", "step")
  /\ UNCHANGED <<simVars, worker, file, report, runs>>

(* execute_policy: what is known of the policy is what its output file says.*)
Refreshing(status) ==
  /\ harness' = [harness EXCEPT !.pc = "refreshing",
                                !.exec = [status |-> status, trace |-> file.trace,
                                          events |-> file.events]]
  /\ Ask("harness", "observation")

PolicyOver ==
  /\ Harness("policy")
  /\ worker.pc = "exited"
  /\ Refreshing(IF worker.code = 0 /\ file.status = "completed" /\ file.trace # <<>>
                THEN "completed" ELSE "failed")
  /\ UNCHANGED <<simVars, worker, file, report, runs>>

BuggyPolicyTimesOut ==   \* the timeout does not end the process
  /\ Harness("policy")
  /\ worker.pc \notin {"off", "exited"}
  /\ Refreshing("timeout")
  /\ UNCHANGED <<simVars, worker, file, report, runs>>

BuggyPolicyMustAnswer ==   \* a policy is ended between its calls only
  /\ Harness("policy")
  /\ worker.pc = "running"
  /\ Refreshing("timeout")
  /\ worker' = [worker EXCEPT !.pc = "off"]
  /\ UNCHANGED <<simVars, file, report, runs>>

(* subprocess.run kills the worker; a request it sent stays in the queue.   *)
PolicyTimesOut ==
  /\ Harness("policy")
  /\ worker.pc \notin {"off", "exited"}
  /\ Refreshing("timeout")
  /\ worker' = [worker EXCEPT !.pc = "off"]
  /\ UNCHANGED <<simVars, file, report, runs>>

(* adapter.refresh(), then the worker's trace becomes the episode's.  The   *)
(* run fails also when execution.json cannot be written.                    *)
RefreshAnswered ==
  LET h == [harness EXCEPT !.last = Taken(answer["harness"]), !.trace = harness.exec.trace] IN
  /\ Harness("refreshing") /\ Answered("harness")
  /\ \/ ~answer["harness"].ok /\ FailedRun(harness)
     \/ answer["harness"].ok /\ FailedRun(h)
     \/ answer["harness"].ok /\ harness.exec.status = "completed" /\ Checking(h)
  /\ UNCHANGED <<simVars, worker, file, report, runs>>

VerdictAnswered ==
  /\ Harness("checking") /\ Answered("harness")
  /\ IF answer["harness"].ok
     THEN /\ harness' = [harness EXCEPT !.pc = "closing", !.status = "completed",
                                        !.verdict = answer["harness"].now]
          /\ Ask("harness", "close")
     ELSE FailedRun(harness)
  /\ UNCHANGED <<simVars, worker, file, report, runs>>

(* adapter.close() returned: the result is written.  When it raises, the    *)
(* exception leaves the finally block and there is no result at all.        *)
CloseAnswered ==
  /\ Harness("closing") /\ Answered("harness")
  /\ report' = IF answer["harness"].ok
               THEN [status |-> harness.status, policy |-> harness.policy,
                     first |-> harness.first, trace |-> harness.trace,
                     events |-> harness.exec.events, final |-> harness.final,
                     verdict |-> harness.verdict]
               ELSE NoReport
  /\ harness' = IdleHarness
  /\ worker' = NoWorker
  /\ file' = NoFile
  /\ call' = [c \in Clients |-> 0]
  /\ answer' = [c \in Clients |-> NoAnswer]
  /\ UNCHANGED <<simVars, queue, sent, runs>>

-----------------------------------------------------------------------------
(* The sandbox worker.                                                      *)
Worker(pc) == worker.pc = pc

(* persist(): the temporary file replaces the output file, or it raises.    *)
Persist(w, returns, raises) ==
  \/ /\ file' = [status |-> w.status, trace |-> IF w.pc = "ending" THEN w.trace ELSE <<>>,
                 events |-> w.events]
     /\ worker' = returns
  \/ /\ SinkFails
     /\ file' = file
     /\ worker' = raises

WorkerAttaches ==
  /\ Worker("starting")
  /\ worker' = [worker EXCEPT !.pc = "attaching"]
  /\ Ask("worker", "session")
  /\ UNCHANGED <<simVars, harness, file, report, runs>>

(* attach: the episode of another task is refused.                          *)
AttachAnswered ==
  /\ Worker("attaching") /\ Answered("worker")
  /\ worker' = IF answer["worker"].ok /\ answer["worker"].config = harness.config
               THEN [worker EXCEPT !.pc = "running", !.last = Taken(answer["worker"])]
               ELSE [worker EXCEPT !.pc = "ending"]
  /\ Heard("worker")
  /\ UNCHANGED <<simVars, queue, sent, harness, file, report, runs>>

(* The policy reads a sensor.  get_observation, pixel_to_world and the      *)
(* refused find_objects need no request: they read what the adapter has, or *)
(* raise (no calibration, a pixel outside of the image, no depth there).    *)
SensorCall ==
  /\ Worker("running")
  /\ worker.calls < Plan[runs].calls
  /\ \E raises \in BOOLEAN :
       worker' = [worker EXCEPT !.pc = "returning", !.calls = @ + 1, !.asked = {},
                                !.raises = raises]
  /\ UNCHANGED <<serviceVars, harness, file, report, runs>>

(* The policy moves the arm or the gripper, which makes one or more steps.  *)
MotionCall ==
  /\ Worker("running")
  /\ worker.calls < Plan[runs].calls
  /\ \E n \in 1..worker.room :
       worker' = [worker EXCEPT !.pc = "moving", !.calls = @ + 1, !.left = n,
                                !.room = @ - n, !.asked = {sent + 1}]
  /\ Ask("worker", "step")
  /\ UNCHANGED <<simVars, harness, file, report, runs>>

(* The loop of set_gripper or move_arm_to_position; the latter raises when  *)
(* it has made max_steps steps without arriving.                            *)
StepAnswered ==
  LET w == Acknowledged(worker, "worker") IN
  /\ Worker("moving") /\ Answered("worker")
  /\ \/ /\ ~answer["worker"].ok
        /\ worker' = [worker EXCEPT !.pc = "returning", !.raises = TRUE]
        /\ Heard("worker") /\ UNCHANGED <<queue, sent>>
     \/ /\ answer["worker"].ok /\ w.left = 0
        /\ \E raises \in BOOLEAN :
             worker' = [w EXCEPT !.pc = "returning", !.raises = raises]
        /\ Heard("worker") /\ UNCHANGED <<queue, sent>>
     \/ /\ answer["worker"].ok /\ w.left > 0
        /\ worker' = [w EXCEPT !.asked = @ \cup {sent + 1}]
        /\ Ask("worker", "step")
  /\ UNCHANGED <<simVars, harness, file, report, runs>>

BuggyEmitted(w) ==   \* the except branch emits nothing
  IF w.raises THEN w
  ELSE [w EXCEPT !.seq = @ + 1,
                 !.events = Append(@, [sequence |-> w.seq, of |-> w.calls, asked |-> w.asked,
                                       status |-> "completed"])]

(* _SDKTraceEmitter._emit: the sequence number is taken before the sink is  *)
(* called, and record_sdk_event keeps the event before it persists.  `of`   *)
(* is the number of the call and `asked` its steps (both history).          *)
Emitted(w) ==
  [w EXCEPT !.seq = @ + 1,
            !.events = Append(@, [sequence |-> w.seq, of |-> w.calls, asked |-> w.asked,
                                  status |-> IF w.raises THEN "failed" ELSE "completed"])]

(* The call returns to the policy, or raises there; a raising sink turns a  *)
(* call that succeeded into one that raises.  The policy catches what it    *)
(* can, or ends.                                                            *)
CallReturns ==
  LET w == Emitted(worker) IN
  /\ Worker("returning")
  /\ \E goesOn \in BOOLEAN :
       LET raised == IF goesOn THEN [w EXCEPT !.pc = "running"]
                               ELSE [w EXCEPT !.pc = "ending"]
       IN Persist(w, IF w.raises THEN raised ELSE [w EXCEPT !.pc = "running"], raised)
  /\ UNCHANGED <<serviceVars, harness, report, runs>>

PolicyReturns ==
  /\ Worker("running")
  /\ worker' = [worker EXCEPT !.pc = "ending", !.status = "completed"]
  /\ UNCHANGED <<serviceVars, harness, file, report, runs>>

(* The finally branch adds the trace; only then does the file have one.     *)
WorkerExits ==
  /\ Worker("ending")
  /\ Persist(worker,
             [worker EXCEPT !.pc = "exited", !.code = IF worker.status = "completed" THEN 0 ELSE 1],
             [worker EXCEPT !.pc = "exited", !.code = 1])
  /\ UNCHANGED <<serviceVars, harness, report, runs>>

-----------------------------------------------------------------------------
EpisodeInit ==
  /\ ServiceInit
  /\ harness = IdleHarness
  /\ worker = NoWorker
  /\ file = NoFile
  /\ report = NoReport
  /\ runs = 0

HarnessStep ==
  \/ ResetAnswered \/ ReferenceAnswered \/ NoOpStepAnswered
  \/ PolicyOver \/ PolicyTimesOut \/ RefreshAnswered \/ VerdictAnswered \/ CloseAnswered

WorkerStep ==
  \/ WorkerAttaches \/ AttachAnswered \/ SensorCall \/ MotionCall \/ StepAnswered
  \/ CallReturns \/ PolicyReturns \/ WorkerExits

ServiceStep ==
  /\ \/ Serve
     \/ CallFails("harness")
     \/ worker.pc # "off" /\ CallFails("worker")
  /\ UNCHANGED <<harness, worker, file, report, runs>>

EpisodeNext == RunBegins \/ HarnessStep \/ WorkerStep \/ ServiceStep

EpisodeSpec == EpisodeInit /\ [][EpisodeNext]_vars

(* urlopen has a timeout, and so has the subprocess; the harness itself is  *)
(* an ordinary sequential program.  Nothing is assumed of the service or of *)
(* the policy.                                                              *)
EpisodeFairness ==
  /\ WF_vars(HarnessStep)
  /\ WF_vars(CallFails("harness") /\ UNCHANGED <<harness, worker, file, report, runs>>)

EpisodeFairSpec == EpisodeSpec /\ EpisodeFairness

-----------------------------------------------------------------------------
(* Requests, calls, the service queue and the report keep to their types,  *)
(* and the worker numbers its events from zero.                             *)
EpisodeTypeOK ==
  /\ sent \in 0..MaxRequests
  /\ call \in [Clients -> 0..MaxRequests]
  /\ live \subseteq 1..MaxRequests
  /\ \A i \in 1..Len(queue) : queue[i].id \in 1..sent /\ queue[i].from \in Clients
  /\ worker.calls \in Nat /\ worker.seq = Len(worker.events)
  /\ report = NoReport \/ report.status \in {"completed", "failed"}

(* What the backend remembers belongs to one episode: observation, seed and *)
(* trace (backend.py:116-118), although a reset or a step that raises       *)
(* leaves the environment ahead of it.                                      *)
BackendCoherent ==
  backend # NoBackend /\ backend.raw # NoView =>
    /\ backend.raw.ep = backend.seed
    /\ backend.raw.n <= Len(moves[backend.seed])
    /\ Len(backend.trace) <= backend.raw.n
    /\ ToSet(backend.trace) \subseteq ToSet(moves[backend.seed])

(* trace is what is left of made when only the steps in it are kept: each   *)
(* place of trace has its place in made, in the same order, and no other    *)
(* place of made holds a step that is in trace.                             *)
Kept(trace, made) ==
  \E at \in [DOMAIN trace -> DOMAIN made] :
    /\ \A i, j \in DOMAIN trace : i < j => at[i] < at[j]
    /\ \A i \in DOMAIN trace : made[at[i]] = trace[i]
    /\ \A k \in DOMAIN made : made[k] \in ToSet(trace) => \E i \in DOMAIN trace : at[i] = k

FailedSteps(events) == UNION {e.asked : e \in {x \in ToSet(events) : x.status = "failed"}}

(* The record of a completed run accounts for the robot: every step made in *)
(* its episode was asked for by this run, and is in its trace, once and in  *)
(* order, or belongs to an SDK call recorded as failed; nothing is in the   *)
(* trace that was not made (runner.py:66-88).                               *)
Accounted(made, first, trace, events) ==
  /\ \A i \in 1..Len(made) : made[i] >= first
  /\ Kept(trace, made)
  /\ ToSet(made) \subseteq ToSet(trace) \cup FailedSteps(events)

StepsAccounted ==
  report.status = "completed" =>
    Accounted(moves[report.verdict.ep], report.first, report.trace, report.events)

(* The verdict of a completed run is about the state its final observation  *)
(* was taken in (runner.py:88-89), also when a step the worker gave up was  *)
(* still on its way; and the observation is of that state, unless a call    *)
(* was recorded as failed.                                                  *)
VerdictOnFinalState ==
  report.status = "completed" =>
    /\ report.final.now = report.verdict
    /\ \/ report.final.obs = report.verdict
       \/ \E e \in ToSet(report.events) : e.status = "failed"

(* One event per SDK call, numbered without gaps, whether the call          *)
(* returned, raised or lost its sink; what the worker persisted is a prefix *)
(* of it, so that a kill loses at most the last calls (facade.py:302-343).  *)
EventsFollowCalls ==
  /\ \A i \in 1..Len(worker.events) : worker.events[i].sequence = i - 1 /\ worker.events[i].of = i
  /\ worker.calls - Len(worker.events) \in
       (IF worker.pc \in {"moving", "returning"} THEN {1}
        ELSE IF worker.pc = "off" THEN {0, 1} ELSE {0})
  /\ IsPrefix(file.events, worker.events)

(* Once a run has its result, nothing of it is left in the service: no      *)
(* environment, no request of a killed worker (runner.py:100).              *)
ReportedRunIsOver ==
  report # NoReport => backend = NoBackend /\ live = {} /\ queue = <<>>

(* Every run ends, although the service or the policy may hang.             *)
RunsEnd == (harness.pc # "idle") ~> (harness.pc = "idle")

=============================================================================
