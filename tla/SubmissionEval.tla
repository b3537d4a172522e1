--------------------------- MODULE SubmissionEval ---------------------------
(***************************************************************************)
(* Path B of the skill orchestrator beside the pipeline of SkillPipeline:  *)
(* a dev agent runs submit_and_wait.py, which reports its execution with   *)
(* POST /job-done and polls GET /eval-result for a verdict; the            *)
(* orchestrator evaluates the execution under the skill's eval lock, which *)
(* it shares with path A, and in autonomous mode replaces an agent that    *)
(* was paused meanwhile.                                                   *)
(***************************************************************************)
EXTENDS SkillPipeline

CONSTANTS
  Submissions,   \* runs of submit_and_wait.py whose job was completed
  PollsExpire    \* the 600 s of polling may end before a verdict is there

ASSUME SubmissionAssumption ==
  /\ Submissions \cap (Agents \cup {"none", "outlived"}) = {}
  /\ "outlived" \notin Agents
  /\ PollsExpire \in BOOLEAN

VARIABLES
  result,       \* _submission_evals: the future that stands for each skill
  evaluation,   \* the _run_submission_eval task of each submission
  client        \* the submit_and_wait.py process of each submission

subVars == <<result, evaluation, client>>

NoResult     == [of |-> "none", verdict |-> "none", about |-> "none"]
NoEvaluation == [pc |-> "none", kill |-> {}]
NoClient     == [skill |-> 0, pc |-> "idle", verdict |-> "none", about |-> "none"]

Verdicts == {"passed", "rejected"}

-----------------------------------------------------------------------------
(* POST /job-done: a new future takes the skill's place in the table, and a *)
(* task evaluates the execution.                                            *)
Submit(c, s) ==
  /\ client[c].pc = "idle"
  /\ \E a \in Agents : agent[a].pc = "working" /\ agent[a].skill = s
  /\ client' = [client EXCEPT ![c] = [NoClient EXCEPT !.skill = s, !.pc = "polling"]]
  /\ result' = [result EXCEPT ![s] = [of |-> c, verdict |-> "pending", about |-> "none"]]
  /\ evaluation' = [evaluation EXCEPT ![c].pc = "queued"]
  /\ UNCHANGED vars

(* _run_submission_eval takes the eval lock and starts the evaluator.       *)
EvaluationBegins(c) ==
  /\ evaluation[c].pc = "queued"
  /\ EvalLockFree(client[c].skill)
  /\ evalLock' = [evalLock EXCEPT ![client[c].skill] = c]
  /\ evaluation' = [evaluation EXCEPT ![c].pc = "evaluating"]
  /\ UNCHANGED <<entry, testAttempts, evalAttempts, inTestLoop, devMode, agent, zombie,
                 spawner, pendingPasses, loop, commands, history, result, client>>

BuggyStored(s, c, verdict) ==   \* an evaluator that fails resolves no future
  IF result[s].verdict = "pending" /\ verdict = "passed"
  THEN [result[s] EXCEPT !.verdict = verdict, !.about = c] ELSE result[s]

(* The verdict resolves whatever future the skill has by now.               *)
Stored(s, c, verdict) ==
  IF result[s].verdict = "pending" THEN [result[s] EXCEPT !.verdict = verdict, !.about = c]
                                   ELSE result[s]

Paused(s) == {a \in Agents : agent[a].listed /\ agent[a].skill = s /\ agent[a].status = "paused"}

(* _maybe_resume_paused_dev has something to do.                            *)
Resumable(s) ==
  /\ Autonomous
  /\ entry[s] \in {"writing", "failed", "evaluating"}
  /\ Paused(s) # {}

(* The evaluator returns, or fails, which is a rejection; then the skill    *)
(* goes to review, or its paused agents are to be replaced, or nothing more *)
(* happens.                                                                 *)
EvaluationReturns(c, verdict) ==
  LET s == client[c].skill IN
  /\ evaluation[c].pc = "evaluating"
  /\ evalLock' = [evalLock EXCEPT ![s] = "none"]
  /\ result' = [result EXCEPT ![s] = Stored(s, c, verdict)]
  /\ \/ /\ ~Resumable(s)
        /\ evaluation' = [evaluation EXCEPT ![c].pc = "over"]
        /\ UNCHANGED <<entry, evalAttempts>>
     \/ /\ Resumable(s) /\ evalAttempts[s] >= MaxEvalRetries
        /\ evaluation' = [evaluation EXCEPT ![c].pc = "over"]
        /\ entry' = [entry EXCEPT ![s] = "review"]
        /\ UNCHANGED evalAttempts
     \/ /\ Resumable(s) /\ evalAttempts[s] < MaxEvalRetries
        /\ evaluation' = [evaluation EXCEPT ![c] = [pc |-> "resuming", kill |-> Paused(s)]]
        /\ evalAttempts' = [evalAttempts EXCEPT ![s] = @ + 1]
        /\ UNCHANGED entry
  /\ UNCHANGED <<testAttempts, inTestLoop, devMode, agent, zombie, spawner,
                 pendingPasses, loop, commands, history, client>>

(* An agent id in a kill list means nothing once the agent was dropped from *)
(* `agents`: slot a is listed before and after the step, and as one agent.  *)
SameAgent(a) == agent'[a].listed /\ (agent'[a].pc = "spawned" => agent[a].pc = "spawned")

KillListsFollow ==
  evaluation' = [c \in Submissions |->
                   [evaluation[c] EXCEPT !.kill = {a \in @ : SameAgent(a)}]]

(* Each paused agent that is still there is killed, by the code of a kill   *)
(* from the dashboard.                                                      *)
ResumeKills(c) ==
  /\ evaluation[c].pc = "resuming"
  /\ \E a \in evaluation[c].kill : Killed(a)
  /\ KillListsFollow
  /\ UNCHANGED <<commands, result, client>>

(* Then a new agent is spawned, without a target; as in every spawn its     *)
(* task is created later (TaskCreated).                                     *)
ResumeSpawns(c) ==
  LET s == client[c].skill IN
  /\ evaluation[c].pc = "resuming"
  /\ evaluation[c].kill = {}
  /\ devMode
  /\ Slots(s, Untargeted) # {}
  /\ agent' = WithSpawn(agent, Slot(s, Untargeted), s, Untargeted)
  /\ evaluation' = [d \in Submissions |->
                      IF d = c THEN [pc |-> "over", kill |-> {}]
                      ELSE [evaluation[d] EXCEPT !.kill = {a \in @ : SameAgent(a)}]]
  /\ UNCHANGED <<entry, testAttempts, evalAttempts, inTestLoop, devMode, evalLock, zombie,
                 spawner, pendingPasses, loop, commands, history, result, client>>

-----------------------------------------------------------------------------
(* poll_eval_result of submit_and_wait.py.                                  *)

BuggyTaken(s) == result[s]     \* the result stays in the table

(* A result that was read is taken out of the table.                        *)
Taken(s) == IF result[s].verdict = "pending" THEN result[s] ELSE NoResult

(* GET /eval-result: nothing there, and the script prints the raw output;   *)
(* or a verdict, which is the script's answer.                              *)
ClientPolls(c) ==
  LET s == client[c].skill IN
  /\ client[c].pc = "polling"
  /\ result[s].verdict # "pending"
  /\ result' = [result EXCEPT ![s] = Taken(s)]
  /\ client' = [client EXCEPT ![c] = [@ EXCEPT !.pc = "over", !.verdict = result[s].verdict,
                                               !.about = result[s].about]]
  /\ UNCHANGED <<vars, evaluation>>

(* EVAL_TIMEOUT passes: the script reports success.                         *)
ClientGivesUp(c) ==
  /\ PollsExpire
  /\ client[c].pc = "polling"
  /\ client' = [client EXCEPT ![c].pc = "over", ![c].verdict = "passed"]
  /\ UNCHANGED <<vars, result, evaluation>>

(* The script dies with the turn of the agent that ran it.                  *)
ClientDies(c) ==
  /\ client[c].pc = "polling"
  /\ \A a \in Agents : ~(agent[a].pc = "working" /\ agent[a].skill = client[c].skill)
  /\ client' = [client EXCEPT ![c].pc = "over"]
  /\ UNCHANGED <<vars, result, evaluation>>

-----------------------------------------------------------------------------
(* The whole.                                                               *)

(* A step of the pipeline, which knows nothing of submissions.              *)
PipelineStep ==
  /\ \/ \E a \in Agents : RunnerStep(a) \/ RunnerFails(a) \/ AgentTimesOut(a)
     \/ \E o \in Callers : PassBegins(o)
     \/ PassContinues
     \/ \E l \in Loops : LoopStep(l)
     \/ \E s \in Skills : ZombieEnds(s)
     \/ Command
  /\ KillListsFollow
  /\ UNCHANGED <<result, client>>

(* A restart forgets the futures and the tasks; the scripts poll on.        *)
RestartAll ==
  /\ Restart
  /\ result' = [s \in Skills |-> NoResult]
  /\ evaluation' = [c \in Submissions |->
                      IF evaluation[c].pc = "none" THEN NoEvaluation
                                                   ELSE [pc |-> "over", kill |-> {}]]
  /\ UNCHANGED client

EvaluationStep(c) ==
  \/ EvaluationBegins(c)
  \/ \E verdict \in Verdicts : EvaluationReturns(c, verdict)
  \/ ResumeKills(c)
  \/ ResumeSpawns(c)

ClientStep(c) ==
  \/ \E s \in Skills : Submit(c, s)
  \/ ClientPolls(c)
  \/ ClientGivesUp(c)
  \/ ClientDies(c)

SubInit ==
  /\ Init
  /\ result = [s \in Skills |-> NoResult]
  /\ evaluation = [c \in Submissions |-> NoEvaluation]
  /\ client = [c \in Submissions |-> NoClient]

SubNext ==
  \/ PipelineStep
  \/ RestartAll
  \/ \E c \in Submissions : EvaluationStep(c) \/ ClientStep(c)

SubSpec == SubInit /\ [][SubNext]_<<vars, subVars>>

(* The event loop runs the tasks, and a script polls again and again; a     *)
(* task that waits for the eval lock gets it in its turn.                   *)
SubFairness ==
  /\ \A a \in Agents : WF_vars(RunnerStep(a))
  /\ \A c \in Submissions :
       /\ SF_<<vars, subVars>>(EvaluationBegins(c))
       /\ WF_<<vars, subVars>>(EvaluationStep(c))
       /\ WF_<<vars, subVars>>(ClientPolls(c))

SubFairSpec == SubSpec /\ SubFairness

-----------------------------------------------------------------------------
(* Properties.                                                              *)

(* The variables of path B keep to their values, and the eval lock may be   *)
(* held by a submission; a result is about an execution when it is there.   *)
SubTypeOK ==
  /\ result \in [Skills -> [of : Submissions \cup {"none"},
                            verdict : Verdicts \cup {"none", "pending"},
                            about : Submissions \cup {"none"}]]
  /\ \A s \in Skills : result[s].about # "none" <=> result[s].verdict \in Verdicts
  /\ evaluation \in [Submissions ->
       [pc : {"none", "queued", "evaluating", "resuming", "over"}, kill : SUBSET Agents]]
  /\ client \in [Submissions ->
       [skill : 0..NumSkills, pc : {"idle", "polling", "over"},
        verdict : Verdicts \cup {"none"}, about : Submissions \cup {"none"}]]
  /\ evalLock \in [Skills -> Agents \cup Submissions \cup {"none"}]

(* The evaluators at work on a skill: those a task of path A or path B      *)
(* awaits, and the subprocess that outlived its task.                       *)
Evaluators(s) ==
  {a \in Agents : agent[a].pc = "evaluating" /\ agent[a].skill = s} \cup
  {c \in Submissions : evaluation[c].pc = "evaluating" /\ client[c].skill = s} \cup
  {"outlived" : z \in zombie \cap {s}}

(* An evaluator can outlive its task: openclaw's is a subprocess that is    *)
(* not told of a kill, a timeout, a restart or a resume, which kills too.   *)
MayOutlive ==
  Harness = "openclaw" /\ (Autonomous \/ Env \cap {"kill", "timeout", "restart"} # {})

(* Both paths evaluate a skill under one lock, in turn: the evaluator that  *)
(* is awaited is the one of the lock's holder, through kills, resumes and   *)
(* restarts.  Beside it works nobody but an openclaw subprocess whose own   *)
(* task was cancelled or restarted, and where nothing cancels a task,       *)
(* nobody at all.                                                           *)
EvaluationsSerialized ==
  \A s \in Skills :
    Evaluators(s) \ (IF MayOutlive THEN {"outlived"} ELSE {}) = {evalLock[s]} \ {"none"}

(* What the lock is there for (agent_orchestrator.py:1156-1160): two        *)
(* evaluators never work in the session of a skill at once.                 *)
SessionAlone == \A s \in Skills : \A x, y \in Evaluators(s) : x = y

(* A future that is pending has a task on its way that will resolve it,     *)
(* though the task of another submission may be the one that does.          *)
FutureServed ==
  \A s \in Skills : result[s].verdict = "pending" =>
    \E c \in Submissions : client[c].skill = s /\ evaluation[c].pc \in {"queued", "evaluating"}

(* No verdict is given to two scripts, although they ask by skill and one   *)
(* may read the future that was made for another.                           *)
VerdictGivenOnce ==
  \A c, d \in Submissions : c # d /\ client[c].about # "none" => client[c].about # client[d].about

(* Every script gets an answer, or dies with its agent.                     *)
ScriptsEnd == \A c \in Submissions : client[c].pc = "polling" ~> client[c].pc = "over"

(* The verdict a script gets is about its own execution.                    *)
VerdictIsOwn == \A c \in Submissions : client[c].about \in {"none", c}
=============================================================================
