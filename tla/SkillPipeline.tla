--------------------------- MODULE SkillPipeline ---------------------------
(***************************************************************************)
(* The skill orchestrator of skill-agent-setup/claude-code                 *)
(* (agent_orchestrator.py): the entries of the skill graph, the dev agents *)
(* and their runner tasks, the evaluator (path A), the auto-spawn pass     *)
(* under _spawn_lock, the ground-truth test loop of a task root, and the   *)
(* dashboard commands.                                                     *)
(*                                                                         *)
(* The program is one asyncio event loop: a coroutine runs undisturbed     *)
(* from one await to the next, so an action is a stretch of code between   *)
(* two awaits at which another coroutine can see, or change, something.    *)
(* Dashboard traffic, prompts, logs and session ids are left out.          *)
(***************************************************************************)
EXTENDS Integers, FiniteSets

CONSTANTS
  NumSkills,            \* the graph's entries are 1..NumSkills, in list order
  Deps,                 \* Deps[s]: the dependencies of skill s
  Reused,               \* entries the graph file already lists as done
  NumTargets,           \* number of targets (robots or simulators)
  Agents,               \* slots for agent ids; a slot is reused when nothing refers to it
  Loops,                \* slots for running _root_skill_test_loop tasks
  Harness,              \* "sdk" (ClaudeSDKClient) or "openclaw" (subprocess)
  Autonomous,           \* the --autonomous flag
  TaskEnv,              \* graph_meta has a task_env
  MaxEvalRetries,       \* MAX_EVAL_RETRIES
  MaxRootTestAttempts,  \* MAX_ROOT_TEST_ATTEMPTS
  MaxCommands,          \* bound: dashboard commands given in a behavior
  Env                   \* bound: the faults and the dashboard commands that may occur

Skills  == 1..NumSkills
Targets == 1..NumTargets
Untargeted == 0         \* target_name "" of an agent spawned without a target

Faults   == {"error", "timeout", "restart"}
Commands == {"xbot-start", "confirm", "patch", "retry", "stop", "kill"}

ASSUME ConfigAssumption ==
  /\ NumSkills \in Nat
  /\ Deps \in [Skills -> SUBSET Skills]
  /\ Reused \subseteq Skills
  /\ NumTargets \in Nat
  /\ Harness \in {"sdk", "openclaw"}
  /\ Autonomous \in BOOLEAN
  /\ TaskEnv \in BOOLEAN
  /\ MaxEvalRetries \in Nat
  /\ MaxRootTestAttempts \in Nat
  /\ MaxCommands \in Nat
  /\ Env \subseteq Faults \cup Commands
  /\ Agents \cap Loops = {}
  /\ {"none", "task"} \cap (Agents \cup Loops) = {}

VARIABLES
  entry,         \* status of each entry; every update is saved to graph.json at once
  testAttempts,  \* entry["test_attempts"], saved with the entry
  evalAttempts,  \* _eval_attempt_count
  inTestLoop,    \* _skills_in_test_loop
  devMode,       \* dev_mode of the module that serves the dashboard
  agent,         \* the AgentState of each slot and the position of its task
  evalLock,      \* _eval_skill_locks: the agent whose evaluator holds the lock, or "none"
  zombie,        \* skills with an evaluator subprocess that outlived its cancelled task
  spawner,       \* the auto-spawn pass that holds _spawn_lock
  pendingPasses, \* background tasks waiting to run _auto_spawn_ready_skills
  loop,          \* the running _root_skill_test_loop tasks
  commands,      \* number of dashboard commands given, for the bound
  started, handled, approved, finished   \* history, see DependencyOrder

history == <<started, handled, approved, finished>>
vars    == <<entry, testAttempts, evalAttempts, inTestLoop, devMode, agent,
             evalLock, zombie, spawner, pendingPasses, loop, commands, history>>

-----------------------------------------------------------------------------
(* Values *)

EntryStatus == {"planned", "writing", "evaluating", "testing", "review",
                "failed", "done"}

AgentStatus == {"free", "starting", "running", "paused", "done",
                "confirmed_done", "stopped", "error", "failed"}

(* Where the task of an agent stands.                                       *)
(*   spawned     in `agents`, its task not created yet                      *)
(*   starting    task created, client or subprocess not up yet              *)
(*   working     the agent develops the skill                               *)
(*   finishing   work over, _handle_agent_done fetching the job list        *)
(*   queued      entry is "evaluating", waiting for the skill's eval lock   *)
(*   evaluating  run_evaluator, holding the lock                            *)
(*   passed, rejected   verdict known, not applied yet                      *)
(*   confirming  in _confirm_skill_done: waiting for, or running, a pass    *)
(*   resting     client kept open, waiting for exit_event                   *)
(*   gone        the task is over                                           *)
(*   taskless    spawn_agent was cancelled before it created the task       *)
TaskPc == {"free", "spawned", "starting", "working", "finishing", "queued",
           "evaluating", "passed", "rejected", "confirming", "resting",
           "gone", "taskless"}

LoopPc == {"free", "testing", "promoting", "validating", "failing",
           "respawned", "waiting"}

NoAgent == [skill |-> 0, target |-> Untargeted, status |-> "free", pc |-> "free",
            listed |-> FALSE, exit |-> FALSE, client |-> "none"]
NoLoop  == [skill |-> 0, pc |-> "free", attempt |-> 0, dev |-> "none"]
NoPass  == [owner |-> "none", done |-> {}, active |-> {}, skill |-> 0,
            left |-> {}, dev |-> "none"]

(* A task root: the graph has a task_env and nothing depends on the skill.  *)
IsTaskRoot(s) == TaskEnv /\ \A r \in Skills : s \notin Deps[r]

ActiveStatus == {"starting", "running"}

Active(a) == agent[a].listed /\ agent[a].status \in ActiveStatus

(* The slots a new agent of skill s and target t may take: nobody refers to *)
(* them any more, but for the entry in `agents` that the new agent replaces. *)
Slots(s, t) ==
  {a \in Agents : /\ agent[a].pc \in {"free", "gone", "taskless"}
                  /\ agent[a].pc = "free" \/ (agent[a].skill = s /\ agent[a].target = t)
                  /\ spawner.dev # a
                  /\ \A l \in Loops : loop[l].dev # a}
Slot(s, t) == CHOOSE a \in Slots(s, t) : TRUE
FreeLoops == {l \in Loops : loop[l] = NoLoop}

(* An agent that is neither listed nor running frees its slot.              *)
Settled(r) == IF ~r.listed /\ r.pc \in {"gone", "taskless"} THEN NoAgent ELSE r

(* After the response is resolved the SDK runner keeps its client open and  *)
(* waits for exit_event; a subprocess runner, and the task that consumed an *)
(* evaluator retry on the closed client, are over.                          *)
AfterWork(r) == IF r.client = "open" THEN "resting" ELSE "gone"

-----------------------------------------------------------------------------
(* What the operations do to the agents.                                    *)

(* spawn_agent up to its first broadcast: the agents of the same skill and  *)
(* target are stopped, released and dropped, the new one is inserted.       *)
WithSpawn(ag, a, s, t) ==
  [b \in Agents |->
     IF b = a
     THEN [NoAgent EXCEPT !.skill = s, !.target = t, !.status = "starting",
                          !.pc = "spawned", !.listed = TRUE]
     ELSE IF ag[b].listed /\ ag[b].skill = s /\ ag[b].target = t
          THEN Settled([ag[b] EXCEPT !.status = IF @ \in ActiveStatus THEN "paused" ELSE @,
                                     !.exit = TRUE, !.listed = FALSE])
          ELSE ag[b]]

(* Once the broadcast is over spawn_agent creates the task.                 *)
WithTask(ag, a) == [ag EXCEPT ![a].pc = "starting"]

(* The events of a skill's listed agents are set: their clients close.      *)
Released(ag, s) ==
  [b \in Agents |-> IF ag[b].listed /\ ag[b].skill = s
                    THEN [ag[b] EXCEPT !.exit = TRUE] ELSE ag[b]]

-----------------------------------------------------------------------------
(* Runner of a dev agent: _run_agent_sdk / _run_agent_openclaw,             *)
(* _resolve_completion and _handle_agent_done.                              *)

(* A spawn that came from the dashboard creates the task of its agent.      *)
TaskCreated(a) ==
  /\ agent[a].pc = "spawned"
  /\ spawner.dev # a
  /\ \A l \in Loops : loop[l].dev # a
  /\ agent' = WithTask(agent, a)
  /\ UNCHANGED <<entry, testAttempts, evalAttempts, inTestLoop, devMode, commands, evalLock,
                 zombie, spawner, pendingPasses, loop, history>>

(* The client or the subprocess is up.  Whatever the status was meanwhile,  *)
(* it becomes "running".                                                    *)
RunnerStarts(a) ==
  /\ agent[a].pc = "starting"
  /\ agent' = [agent EXCEPT ![a].pc = "working", ![a].status = "running",
                            ![a].client = IF Harness = "sdk" THEN "open" ELSE "none"]
  /\ UNCHANGED <<entry, testAttempts, evalAttempts, inTestLoop, devMode, commands, evalLock,
                 zombie, spawner, pendingPasses, loop, history>>

(* A client that is left is closed, a subprocess leaves none.               *)
Closed(client) == IF client = "open" THEN "closed" ELSE client

(* The client fails or stays silent for 15 minutes, which a closed one may  *)
(* always do; or the subprocess leaves no envelope, which it may always do  *)
(* after its SIGINT.  An exception in a retry task changes no status.       *)
RunnerFails(a) ==
  LET r == agent[a] IN
  /\ \/ "error" \in Env
     \/ Harness = "openclaw" /\ r.status = "paused"
     \/ r.client = "closed"
  /\ r.pc \in {"starting", "working"}
  /\ \E status \in {"error"} \cup (IF r.client = "closed" THEN {r.status} ELSE {}) :
       agent' = [agent EXCEPT ![a] = Settled([r EXCEPT !.status = status, !.pc = "gone",
                                                       !.client = Closed(@)])]
  /\ UNCHANGED <<entry, testAttempts, evalAttempts, inTestLoop, devMode, commands, evalLock,
                 zombie, spawner, pendingPasses, loop, history>>

(* The status the agent rests with once _handle_agent_done left it "done".  *)
RestStatus(s) == IF ~IsTaskRoot(s) /\ ~Autonomous THEN "paused" ELSE "done"

(* The response is consumed: _resolve_completion decides what it was worth. *)
WorkEnds(a) ==
  LET r == agent[a]
      s == r.skill
      over(status) == Settled([r EXCEPT !.status = status, !.pc = AfterWork(r)])
  IN
  /\ r.pc = "working"
  /\ agent' = [agent EXCEPT ![a] =
        CASE r.status # "running"  -> over(r.status)
          [] r.status = "running" /\ entry[s] = "done"  -> over("confirmed_done")
          [] r.status = "running" /\ entry[s] # "done" /\ s \in inTestLoop
               -> over(RestStatus(s))
          [] OTHER -> [r EXCEPT !.status = "done", !.pc = "finishing"]]
  /\ UNCHANGED <<entry, testAttempts, evalAttempts, inTestLoop, devMode, commands, evalLock,
                 zombie, spawner, pendingPasses, loop, history>>

(* The job list is fetched: the entry becomes "evaluating" and the runner   *)
(* queues for the skill's eval lock.                                        *)
EvaluationQueued(a) ==
  /\ agent[a].pc = "finishing"
  /\ entry' = [entry EXCEPT ![agent[a].skill] = "evaluating"]
  /\ agent' = [agent EXCEPT ![a].pc = "queued"]
  /\ UNCHANGED <<testAttempts, evalAttempts, inTestLoop, devMode, commands, evalLock,
                 zombie, spawner, pendingPasses, loop, history>>

(* BuggyEvalLockFree, and every definition named Buggy..., is the one that  *)
(* follows with a bug of the kind this code could have: the mutants show    *)
(* that the properties notice it.                                           *)
BuggyEvalLockFree(s) == TRUE

(* asyncio.Lock per skill: _eval_skill_locks.                               *)
EvalLockFree(s) == evalLock[s] = "none"

EvaluatorStarts(a) ==
  /\ agent[a].pc = "queued"
  /\ EvalLockFree(agent[a].skill)
  /\ evalLock' = [evalLock EXCEPT ![agent[a].skill] = a]
  /\ agent' = [agent EXCEPT ![a].pc = "evaluating"]
  /\ UNCHANGED <<entry, testAttempts, evalAttempts, inTestLoop, devMode, commands,
                 zombie, spawner, pendingPasses, loop, history>>

BuggyEvaluatorReturns(a, verdict) ==   \* the lock is not released
  /\ agent[a].pc = "evaluating"
  /\ agent' = [agent EXCEPT ![a].pc = verdict]
  /\ UNCHANGED <<entry, testAttempts, evalAttempts, inTestLoop, devMode, commands,
                 evalLock, zombie, spawner, pendingPasses, loop, history>>

(* run_evaluator returns; whatever goes wrong inside it is a rejection.     *)
EvaluatorReturns(a, verdict) ==
  /\ agent[a].pc = "evaluating"
  /\ evalLock' = [evalLock EXCEPT ![agent[a].skill] = "none"]
  /\ agent' = [agent EXCEPT ![a].pc = verdict]
  /\ UNCHANGED <<entry, testAttempts, evalAttempts, inTestLoop, devMode, commands,
                 zombie, spawner, pendingPasses, loop, history>>

(* The end of _handle_agent_done and of _resolve_completion.                *)
Finished(r) ==
  Settled([r EXCEPT !.status = IF @ = "done" THEN RestStatus(r.skill) ELSE @,
                    !.pc = AfterWork(r)])

(* The retries are used up, or nobody can retry: the human takes over.      *)
SentToReview(a) ==
  LET s == agent[a].skill IN
  /\ evalAttempts' = [evalAttempts EXCEPT ![s] = 0]
  /\ entry' = [entry EXCEPT ![s] = "review"]
  /\ agent' = [agent EXCEPT ![a] = Finished(agent[a])]
  /\ UNCHANGED pendingPasses

CanRetryInSession(r) == r.client # "none" /\ r.status \in {"done", "paused"}

(* The feedback is sent to the live client; a new task consumes the answer  *)
(* while the runner, seeing "running", leaves its client context and so     *)
(* closes the client.  On a client that is closed already the query raises. *)
RetriedInSession(r) ==
  IF r.client = "open" THEN [r EXCEPT !.status = "running", !.pc = "working",
                                      !.client = "closed"]
                       ELSE Settled([r EXCEPT !.status = "running", !.pc = "gone"])

(* The attempt counter allows another retry.                                *)
RetriesLeft(s) == evalAttempts[s] + 1 < MaxEvalRetries

(* A rejection: count it, then retry in the same session, respawn through   *)
(* the auto-spawn pass, or send the skill to review.                        *)
RejectionHandled(a) ==
  LET r == agent[a]
      s == r.skill
  IN
  /\ r.pc = "rejected"
  /\ \/ /\ RetriesLeft(s)
        /\ CanRetryInSession(r)
        /\ evalAttempts' = [evalAttempts EXCEPT ![s] = @ + 1]
        /\ entry' = [entry EXCEPT ![s] = "writing"]
        /\ agent' = [agent EXCEPT ![a] = RetriedInSession(r)]
        /\ UNCHANGED pendingPasses
     \/ /\ RetriesLeft(s)
        /\ ~CanRetryInSession(r) /\ Autonomous
        /\ evalAttempts' = [evalAttempts EXCEPT ![s] = @ + 1]
        /\ entry' = [entry EXCEPT ![s] = "failed"]
        /\ agent' = [agent EXCEPT ![a] = Finished(r)]
        /\ pendingPasses' = pendingPasses + 1
     \/ /\ ~RetriesLeft(s) \/ ~(CanRetryInSession(r) \/ Autonomous)
        /\ SentToReview(a)
  /\ UNCHANGED <<testAttempts, inTestLoop, devMode, commands, evalLock, zombie, spawner,
                 loop, history>>

(* The loop body up to the test run: another attempt, or give up.           *)
NextAttempt(s, n) ==
  IF n < MaxRootTestAttempts THEN [skill |-> s, pc |-> "testing", attempt |-> n + 1, dev |-> "none"]
                             ELSE NoLoop

(* A pass verdict: a task root goes to its ground-truth test, another skill *)
(* is promoted (autonomous) or waits for the human.                         *)
PassHandled(a) ==
  LET r == agent[a]
      s == r.skill
      n == NextAttempt(s, testAttempts[s])
  IN
  /\ r.pc = "passed"
  /\ evalAttempts' = [evalAttempts EXCEPT ![s] = 0]
  /\ \/ /\ IsTaskRoot(s)
        /\ agent' = [agent EXCEPT ![a] = Finished([r EXCEPT !.exit = TRUE])]
        /\ \E l \in FreeLoops : loop' = [loop EXCEPT ![l] = n]
        /\ entry' = [entry EXCEPT ![s] = IF n = NoLoop THEN "review" ELSE "testing"]
        /\ inTestLoop' = IF n = NoLoop THEN inTestLoop \ {s} ELSE inTestLoop \cup {s}
        /\ testAttempts' = [testAttempts EXCEPT ![s] = IF n = NoLoop THEN @ ELSE n.attempt]
        /\ UNCHANGED finished
     \/ /\ ~IsTaskRoot(s) /\ Autonomous
        /\ entry' = [entry EXCEPT ![s] = "done"]
        /\ finished' = finished \cup {s}
        /\ agent' = Released([agent EXCEPT ![a].pc = "confirming"], s)
        /\ UNCHANGED <<loop, inTestLoop, testAttempts>>
     \/ /\ ~IsTaskRoot(s) /\ ~Autonomous
        /\ entry' = [entry EXCEPT ![s] = "review"]
        /\ agent' = [agent EXCEPT ![a] = Finished(r)]
        /\ UNCHANGED <<loop, inTestLoop, testAttempts, finished>>
  /\ UNCHANGED <<devMode, commands, evalLock, zombie, spawner, pendingPasses,
                 started, handled, approved>>

(* exit_event is set: the runner closes its client and ends.                *)
RunnerLeaves(a) ==
  /\ agent[a].pc = "resting"
  /\ agent[a].exit
  /\ agent' = [agent EXCEPT ![a] = Settled([agent[a] EXCEPT !.pc = "gone", !.client = Closed(@)])]
  /\ UNCHANGED <<entry, testAttempts, evalAttempts, inTestLoop, devMode, commands, evalLock,
                 zombie, spawner, pendingPasses, loop, history>>

-----------------------------------------------------------------------------
(* The auto-spawn pass: _auto_spawn_ready_skills under _spawn_lock.  It is  *)
(* run by whoever called it: the runner of a promoted agent, a test loop,   *)
(* or a background task ("task").                                           *)

BuggyActivePairs == {}
DoneSkills  == {s \in Skills : entry[s] = "done"}
ActivePairs == {<<agent[a].skill, agent[a].target>> : a \in {b \in Agents : Active(b)}}

BuggyReady(s, done, ent) == ent[s] \in {"planned", "failed"}       \* no dependency gate
BuggyReadyPlanned(s, done, ent) == ent[s] = "planned" /\ Deps[s] \subseteq done
BuggyReadyAgain(s, done, ent) == ent[s] # "writing" /\ Deps[s] \subseteq done

(* A skill the pass would spawn; ent is read when the pass gets to it, the  *)
(* set of done skills when the pass began.                                  *)
Ready(s, done, ent) == ent[s] \in {"planned", "failed"} /\ Deps[s] \subseteq done

Unserved(s, active) == {t \in Targets : <<s, t>> \notin active}

(* The owner of the pass goes on once the pass is over.                     *)
AgentsAfterPass(ag, o) ==
  [b \in Agents |-> IF b = o THEN Settled([ag[b] EXCEPT !.pc = AfterWork(ag[b])])
                             ELSE ag[b]]
LoopsAfterPass(o) ==
  [l \in Loops |-> IF l = o THEN [loop[l] EXCEPT !.pc = "validating"] ELSE loop[l]]

(* Spawn skill s on the first of the targets in left, which is an await.    *)
PassSpawns(o, done, active, s, left, ag) ==
  \E t \in left :
    /\ \A u \in left : t <= u
    /\ Slots(s, t) # {}
    /\ agent' = WithSpawn(ag, Slot(s, t), s, t)
    /\ spawner' = [owner |-> o, done |-> done, active |-> active, skill |-> s,
                   left |-> left \ {t}, dev |-> Slot(s, t)]
    /\ started' = started \cup {s}

(* The loop over the entries from number `from` on, up to its next await.   *)
PassFrom(o, done, active, from, ent, ag) ==
  LET todo == {s \in Skills : /\ s >= from
                              /\ Ready(s, done, ent)
                              /\ Unserved(s, active) # {}}
  IN
  /\ entry' = ent
  /\ \/ /\ todo = {}
        /\ agent' = AgentsAfterPass(ag, o)
        /\ loop' = LoopsAfterPass(o)
        /\ spawner' = NoPass
        /\ UNCHANGED started
     \/ \E s \in todo :
        /\ \A r \in todo : s <= r
        /\ PassSpawns(o, done, active, s, Unserved(s, active), ag)
        /\ UNCHANGED loop

(* In planning mode every spawn of the pass is refused, yet counted.        *)
PassRefused(o, done, active) ==
  /\ entry' = [s \in Skills |-> IF Ready(s, done, entry) /\ Unserved(s, active) # {}
                                THEN "writing" ELSE entry[s]]
  /\ agent' = AgentsAfterPass(agent, o)
  /\ loop' = LoopsAfterPass(o)
  /\ UNCHANGED <<spawner, started>>

BuggyWaiting(o) == o = "task" /\ pendingPasses > 0   \* a promotion starts no pass

Waiting(o) ==
  \/ o \in Agents /\ agent[o].pc = "confirming"
  \/ o \in Loops  /\ loop[o].pc = "promoting"
  \/ o = "task"   /\ pendingPasses > 0

(* The lock is taken and the pass takes its snapshots.                      *)
PassBegins(o) ==
  /\ spawner.owner = "none"
  /\ Waiting(o)
  /\ pendingPasses' = IF o = "task" THEN pendingPasses - 1 ELSE pendingPasses
  /\ IF devMode THEN PassFrom(o, DoneSkills, ActivePairs, 1, entry, agent)
                ELSE PassRefused(o, DoneSkills, ActivePairs)
  /\ UNCHANGED <<testAttempts, evalAttempts, inTestLoop, devMode, commands, evalLock, zombie,
                 handled, approved, finished>>

(* spawn_agent creates the task and returns: the pass goes on with the next *)
(* target, or marks the entry and goes on with the next one.                *)
PassContinues ==
  LET p  == spawner
      ag == WithTask(agent, p.dev)
  IN
  /\ p.owner # "none"
  /\ IF p.left # {}
     THEN /\ PassSpawns(p.owner, p.done, p.active, p.skill, p.left, ag)
          /\ UNCHANGED <<entry, loop>>
     ELSE PassFrom(p.owner, p.done, p.active, p.skill + 1,
                   [entry EXCEPT ![p.skill] = "writing"], ag)
  /\ UNCHANGED <<testAttempts, evalAttempts, inTestLoop, devMode, commands, evalLock, zombie,
                 pendingPasses, handled, approved, finished>>

-----------------------------------------------------------------------------
(* The ground-truth test of a task root: _root_skill_test_loop.             *)

BuggyLoopGoesOnFlagged(l, n) ==   \* no `finally`: the skill stays in the set
  LET s == loop[l].skill IN
  /\ loop' = [loop EXCEPT ![l] = n]
  /\ entry' = [entry EXCEPT ![s] = IF n = NoLoop THEN "review" ELSE "testing"]
  /\ testAttempts' = [testAttempts EXCEPT ![s] = IF n = NoLoop THEN @ ELSE n.attempt]
  /\ UNCHANGED inTestLoop

BuggyLoopGoesOnPromotes(l, n) ==  \* the review gate is skipped
  LET s == loop[l].skill IN
  /\ loop' = [loop EXCEPT ![l] = n]
  /\ entry' = [entry EXCEPT ![s] = IF n = NoLoop THEN "done" ELSE "testing"]
  /\ testAttempts' = [testAttempts EXCEPT ![s] = IF n = NoLoop THEN @ ELSE n.attempt]
  /\ inTestLoop' = IF n = NoLoop THEN inTestLoop \ {s} ELSE inTestLoop

(* The loop makes its next attempt, or gives up and leaves the skill to the *)
(* human; either way its dev agent no longer matters.                       *)
LoopGoesOn(l, n) ==
  LET s == loop[l].skill IN
  /\ loop' = [loop EXCEPT ![l] = n]
  /\ entry' = [entry EXCEPT ![s] = IF n = NoLoop THEN "review" ELSE "testing"]
  /\ testAttempts' = [testAttempts EXCEPT ![s] = IF n = NoLoop THEN @ ELSE n.attempt]
  /\ inTestLoop' = IF n = NoLoop THEN inTestLoop \ {s} ELSE inTestLoop

(* run_mechanical_test: it writes the entry's status itself.                *)
TestReturns(l, passed) ==
  /\ loop[l].pc = "testing"
  /\ finished' = IF passed /\ Autonomous THEN finished \cup {loop[l].skill} ELSE finished
  /\ entry' = [entry EXCEPT ![loop[l].skill] =
                 IF ~passed THEN "failed" ELSE IF Autonomous THEN "done" ELSE "review"]
  /\ loop' = [loop EXCEPT ![l].pc =
                 IF ~passed THEN "failing" ELSE IF Autonomous THEN "promoting" ELSE "validating"]
  /\ UNCHANGED <<testAttempts, evalAttempts, inTestLoop, devMode, commands, agent, evalLock,
                 zombie, spawner, pendingPasses, started, handled, approved>>

(* run_multi_target_test when there are several targets; with one target    *)
(* the primary test was all.                                                *)
LoopValidates(l, passed) ==
  /\ loop[l].pc = "validating"
  /\ passed \/ NumTargets > 1
  /\ IF passed THEN LoopGoesOn(l, NoLoop)
     ELSE /\ loop' = [loop EXCEPT ![l].pc = "failing"]
          /\ UNCHANGED <<entry, testAttempts, inTestLoop>>
  /\ UNCHANGED <<evalAttempts, devMode, commands, agent, evalLock, zombie, spawner,
                 pendingPasses, history>>

(* The loop runs in the module that ran the agent; under openclaw that is   *)
(* the second import of the orchestrator, whose dev_mode the dashboard      *)
(* never sets.                                                              *)
LoopMaySpawn == IF Harness = "openclaw" THEN Autonomous ELSE devMode

(* The test failed: give up, or spawn an (untargeted) dev agent.            *)
LoopRetries(l) ==
  LET s == loop[l].skill IN
  /\ loop[l].pc = "failing"
  /\ \/ /\ loop[l].attempt >= MaxRootTestAttempts
        /\ LoopGoesOn(l, NoLoop)
        /\ UNCHANGED agent
     \/ /\ loop[l].attempt < MaxRootTestAttempts
        /\ IF LoopMaySpawn
           THEN /\ Slots(s, Untargeted) # {}
                /\ agent' = WithSpawn(agent, Slot(s, Untargeted), s, Untargeted)
                /\ loop' = [loop EXCEPT ![l].pc = "respawned", ![l].dev = Slot(s, Untargeted)]
           ELSE /\ loop' = [loop EXCEPT ![l].pc = "respawned"]
                /\ UNCHANGED agent
        /\ UNCHANGED <<entry, testAttempts, inTestLoop>>
  /\ UNCHANGED <<evalAttempts, devMode, commands, evalLock, zombie, spawner, pendingPasses, history>>

(* The spawn returns; the loop looks for an active agent of the skill and   *)
(* awaits its task, or goes on at once when there is none.                  *)
LoopPicksDev(l) ==
  LET s     == loop[l].skill
      d     == loop[l].dev
      ag    == IF d \in Agents THEN WithTask(agent, d) ELSE agent
      found == {a \in Agents : /\ ag[a].listed /\ ag[a].skill = s
                               /\ ag[a].status \in ActiveStatus}
  IN
  /\ loop[l].pc = "respawned"
  /\ agent' = ag
  /\ \/ \E a \in found :
        /\ ag[a].pc \notin {"spawned", "taskless"}
        /\ loop' = [loop EXCEPT ![l].pc = "waiting", ![l].dev = a]
        /\ UNCHANGED <<entry, testAttempts, inTestLoop>>
     \/ /\ found = {} \/ \E a \in found : ag[a].pc \in {"spawned", "taskless"}
        /\ LoopGoesOn(l, NextAttempt(s, loop[l].attempt))
  /\ UNCHANGED <<evalAttempts, devMode, commands, evalLock, zombie, spawner, pendingPasses, history>>

(* The awaited task is over; the first task of an agent also is over when   *)
(* the agent goes on in a retry task.                                       *)
LoopResumes(l) ==
  /\ loop[l].pc = "waiting"
  /\ \/ agent[loop[l].dev].pc \in {"gone", "free"}
     \/ agent[loop[l].dev].client = "closed"
  /\ LoopGoesOn(l, NextAttempt(loop[l].skill, loop[l].attempt))
  /\ UNCHANGED <<evalAttempts, devMode, commands, agent, evalLock, zombie, spawner,
                 pendingPasses, history>>

-----------------------------------------------------------------------------
(* Dashboard commands.                                                      *)

Given(command) ==
  /\ command \in Env
  /\ commands < MaxCommands
  /\ commands' = commands + 1

(* POST /xbot-start                                                         *)
XbotStart ==
  /\ Given("xbot-start")
  /\ devMode' = TRUE
  /\ pendingPasses' = pendingPasses + 1
  /\ UNCHANGED <<entry, testAttempts, evalAttempts, inTestLoop, agent, evalLock,
                 zombie, spawner, loop, history>>

(* confirm_done over the WebSocket; the message may name a listed agent.    *)
Confirm(s) ==
  /\ Given("confirm")
  /\ entry' = [entry EXCEPT ![s] = "done"]
  /\ \E named \in {"none"} \cup {a \in Agents : agent[a].listed /\ agent[a].skill = s} :
       agent' = Released([a \in Agents |->
                  IF a = named THEN [agent[a] EXCEPT !.status = "confirmed_done"]
                               ELSE agent[a]], s)
  /\ pendingPasses' = pendingPasses + 1
  /\ handled' = handled \cup {s}
  /\ approved' = approved \cup {s}
  /\ finished' = finished \cup {s}
  /\ UNCHANGED <<testAttempts, evalAttempts, inTestLoop, devMode, evalLock, zombie,
                 spawner, loop, started>>

(* PATCH /entries/{name} with status "done".                                *)
PatchDone(s) ==
  /\ Given("patch")
  /\ entry' = [entry EXCEPT ![s] = "done"]
  /\ pendingPasses' = pendingPasses + 1
  /\ handled' = handled \cup {s}
  /\ approved' = approved \cup {s}
  /\ finished' = finished \cup {s}
  /\ UNCHANGED <<testAttempts, evalAttempts, inTestLoop, devMode, agent, evalLock,
                 zombie, spawner, loop, started>>

(* retry, edit and spawn: an agent without a target; the entry's status and *)
(* its dependencies play no part.                                           *)
Retry(s) ==
  /\ Given("retry")
  /\ devMode
  /\ Slots(s, Untargeted) # {}
  /\ agent' = WithSpawn(agent, Slot(s, Untargeted), s, Untargeted)
  /\ handled' = handled \cup {s}
  /\ UNCHANGED <<entry, testAttempts, evalAttempts, inTestLoop, devMode, evalLock,
                 zombie, spawner, pendingPasses, loop, started, approved, finished>>

(* stop: whatever the agent was doing it is "paused" now.                   *)
StopAgent(a) ==
  /\ Given("stop")
  /\ agent[a].listed
  /\ agent' = [agent EXCEPT ![a].status = "paused"]
  /\ UNCHANGED <<entry, testAttempts, evalAttempts, inTestLoop, devMode, evalLock,
                 zombie, spawner, pendingPasses, loop, history>>

HasTask(r) == r.pc \notin {"free", "spawned", "gone", "taskless"}

BuggyTaskCancelledInEval(a) ==    \* the eval lock is left behind
  LET s == agent[a].skill IN
  /\ UNCHANGED evalLock
  /\ zombie' = IF Harness = "openclaw" /\ agent[a].pc = "evaluating"
               THEN zombie \cup {s} ELSE zombie
  /\ spawner' = IF spawner.owner = a THEN NoPass ELSE spawner

BuggyTaskCancelledInPass(a) ==    \* _spawn_lock is left behind
  LET s == agent[a].skill IN
  /\ evalLock' = [evalLock EXCEPT ![s] = IF @ = a THEN "none" ELSE @]
  /\ zombie' = IF Harness = "openclaw" /\ agent[a].pc = "evaluating"
               THEN zombie \cup {s} ELSE zombie
  /\ UNCHANGED spawner

(* A cancelled task releases the eval lock and _spawn_lock if it held them; *)
(* an openclaw evaluator subprocess is not told and keeps running.          *)
TaskCancelled(a) ==
  LET s == agent[a].skill IN
  /\ evalLock' = [evalLock EXCEPT ![s] = IF @ = a THEN "none" ELSE @]
  /\ zombie' = IF Harness = "openclaw" /\ agent[a].pc = "evaluating"
               THEN zombie \cup {s} ELSE zombie
  /\ spawner' = IF spawner.owner = a THEN NoPass ELSE spawner

(* What becomes of the agents when a's task is cancelled: r replaces a, and *)
(* a spawn that a's pass was awaiting never gets its task.                  *)
AgentsAfterCancel(a, r) ==
  [b \in Agents |->
     IF b = a THEN Settled(r)
     ELSE IF spawner.owner = a /\ b = spawner.dev
          THEN Settled([agent[b] EXCEPT !.pc = "taskless"])
          ELSE agent[b]]

BuggyStatusAfterKill(status) == "failed"
(* The status a killed agent leaves its skill in.                           *)
StatusAfterKill(status) == IF status = "done" THEN status ELSE "failed"

(* kill_agent.  A test loop that awaits the killed task is cancelled with   *)
(* it under openclaw; the SDK runner swallows the cancellation.             *)
Killed(a) ==
  LET r == agent[a]
      s == r.skill
  IN
  /\ r.listed
  /\ TaskCancelled(a)
  /\ agent' = AgentsAfterCancel(a, [r EXCEPT !.status = "stopped", !.exit = TRUE,
                                             !.listed = FALSE, !.client = Closed(@),
                                             !.pc = IF HasTask(r) THEN "gone" ELSE @])
  /\ evalAttempts' = [evalAttempts EXCEPT ![s] = 0]
  /\ inTestLoop' = inTestLoop \ {s}
  /\ entry' = [entry EXCEPT ![s] = StatusAfterKill(@)]
  /\ loop' = [l \in Loops |->
                IF Harness = "openclaw" /\ loop[l].pc = "waiting" /\ loop[l].dev = a /\ HasTask(r)
                THEN NoLoop ELSE loop[l]]
  /\ UNCHANGED <<testAttempts, devMode, pendingPasses, history>>

KillAgent(a) == Given("kill") /\ Killed(a)

-----------------------------------------------------------------------------
(* Faults.                                                                  *)

(* DEV_AGENT_TIMEOUT.  The handler that fails the skill runs only if the    *)
(* cancellation leaves the runner as an exception; the SDK runner swallows  *)
(* it and just becomes "stopped".  A retry task has no such limit.          *)
AgentTimesOut(a) ==
  LET r == agent[a]
      s == r.skill
  IN
  /\ "timeout" \in Env
  /\ HasTask(r) /\ r.client # "closed"
  /\ TaskCancelled(a)
  /\ agent' = AgentsAfterCancel(a, [r EXCEPT !.pc = "gone", !.client = Closed(@),
                                 !.status = IF Harness = "openclaw" THEN "failed" ELSE "stopped"])
  /\ entry' = IF Harness = "openclaw" THEN [entry EXCEPT ![s] = "failed"] ELSE entry
  /\ UNCHANGED <<testAttempts, evalAttempts, inTestLoop, devMode, commands, pendingPasses, loop,
                 history>>

(* The evaluator subprocess that nobody awaits ends.                        *)
ZombieEnds(s) ==
  /\ s \in zombie
  /\ zombie' = zombie \ {s}
  /\ UNCHANGED <<entry, testAttempts, evalAttempts, inTestLoop, devMode, commands, agent,
                 evalLock, spawner, pendingPasses, loop, history>>

BuggyStatusAfterRestartType(status) == IF status \in {"done", "planned"} THEN status ELSE "error"
BuggyStatusAfterRestart(status) == status   \* nothing is reset
(* _load_entries: work in progress has no agent behind it any more.         *)
StatusAfterRestart(status) == IF status \in {"done", "planned"} THEN status ELSE "failed"

(* The process dies and is started again: only graph.json survives.         *)
Restart ==
  /\ "restart" \in Env
  /\ entry' = [s \in Skills |-> StatusAfterRestart(entry[s])]
  /\ evalAttempts' = [s \in Skills |-> 0]
  /\ inTestLoop' = {}
  /\ devMode' = Autonomous
  /\ agent' = [a \in Agents |-> NoAgent]
  /\ evalLock' = [s \in Skills |-> "none"]
  /\ zombie' = zombie \cup {s \in Skills : Harness = "openclaw" /\ evalLock[s] # "none"}
  /\ spawner' = NoPass
  /\ pendingPasses' = 0
  /\ loop' = [l \in Loops |-> NoLoop]
  /\ UNCHANGED <<testAttempts, commands, history>>

-----------------------------------------------------------------------------
Init ==
  /\ entry = [s \in Skills |-> IF s \in Reused THEN "done" ELSE "planned"]
  /\ testAttempts = [s \in Skills |-> 0]
  /\ evalAttempts = [s \in Skills |-> 0]
  /\ inTestLoop = {}
  /\ devMode = Autonomous
  /\ agent = [a \in Agents |-> NoAgent]
  /\ evalLock = [s \in Skills |-> "none"]
  /\ zombie = {}
  /\ spawner = NoPass
  /\ pendingPasses = 0
  /\ loop = [l \in Loops |-> NoLoop]
  /\ commands = 0
  /\ started = {}
  /\ handled = {}
  /\ approved = {}
  /\ finished = Reused

RunnerStep(a) ==
  \/ TaskCreated(a) \/ RunnerStarts(a) \/ WorkEnds(a) \/ EvaluationQueued(a)
  \/ EvaluatorStarts(a)
  \/ \E verdict \in {"passed", "rejected"} : EvaluatorReturns(a, verdict)
  \/ RejectionHandled(a) \/ PassHandled(a) \/ RunnerLeaves(a)

LoopStep(l) ==
  \/ \E passed \in BOOLEAN : TestReturns(l, passed) \/ LoopValidates(l, passed)
  \/ LoopRetries(l) \/ LoopPicksDev(l) \/ LoopResumes(l)

Callers == Agents \cup Loops \cup {"task"}

Command ==
  \/ XbotStart
  \/ \E s \in Skills : Confirm(s) \/ PatchDone(s) \/ Retry(s)
  \/ \E a \in Agents : StopAgent(a) \/ KillAgent(a)

Fault ==
  \/ \E a \in Agents : RunnerFails(a) \/ AgentTimesOut(a)
  \/ Restart

Next ==
  \/ \E a \in Agents : RunnerStep(a)
  \/ \E o \in Callers : PassBegins(o)
  \/ PassContinues
  \/ \E l \in Loops : LoopStep(l)
  \/ \E s \in Skills : ZombieEnds(s)
  \/ Command
  \/ Fault

Spec == Init /\ [][Next]_vars

(* Every task of the event loop that can run is run eventually: agents end  *)
(* their work and evaluators return (both have time limits), and            *)
(* asyncio.Lock serves its waiters in turn, hence the strong fairness.      *)
Fairness ==
  /\ \A a \in Agents : WF_vars(RunnerStep(a)) /\ SF_vars(EvaluatorStarts(a))
  /\ \A o \in Callers : SF_vars(PassBegins(o))
  /\ WF_vars(PassContinues)
  /\ \A l \in Loops : WF_vars(LoopStep(l))
  /\ \A s \in Skills : WF_vars(ZombieEnds(s))

FairSpec == Spec /\ Fairness
-----------------------------------------------------------------------------
(* Properties.                                                              *)

AgentRecord ==
  [skill : 0..NumSkills, target : 0..NumTargets, status : AgentStatus, pc : TaskPc,
   listed : BOOLEAN, exit : BOOLEAN, client : {"none", "open", "closed"}]
LoopRecord ==
  [skill : 0..NumSkills, pc : LoopPc, attempt : Nat, dev : Agents \cup {"none"}]
PassRecord ==
  [owner : Callers \cup {"none"}, done : SUBSET Skills,
   active : SUBSET ((0..NumSkills) \X (0..NumTargets)), skill : 0..NumSkills,
   left : SUBSET Targets, dev : Agents \cup {"none"}]

(* Every variable keeps to the values the code stores in it.                *)
TypeOK ==
  /\ entry \in [Skills -> EntryStatus]
  /\ testAttempts \in [Skills -> Nat]
  /\ evalAttempts \in [Skills -> Nat]
  /\ inTestLoop \subseteq Skills
  /\ devMode \in BOOLEAN
  /\ agent \in [Agents -> AgentRecord]
  /\ evalLock \in [Skills -> Agents \cup {"none"}]
  /\ zombie \subseteq Skills
  /\ spawner \in PassRecord
  /\ pendingPasses \in Nat
  /\ loop \in [Loops -> LoopRecord]
  /\ commands \in 0..MaxCommands
  /\ started \subseteq Skills
  /\ handled \subseteq Skills
  /\ approved \subseteq Skills
  /\ finished \subseteq Skills

Order == INSTANCE DependencyOrder

(* The pipeline does nothing that DependencyOrder does not allow: whatever  *)
(* the interleaving of passes, verdicts, kills and restarts, a skill starts *)
(* by itself only after its dependencies, and only a human, or autonomous   *)
(* mode after a start, finishes one.                                        *)
ImplementsOrder == Order!Spec

(* The dependency gate of _auto_spawn_ready_skills, whose set of done       *)
(* skills is a snapshot that may be old when a skill is spawned.            *)
DependencyGate == \A s \in started : Deps[s] \subseteq finished

(* The review gate: without --autonomous a skill that is done was reused or *)
(* marked by a human, never by a verdict, a test or a restart.              *)
ReviewGate ==
  Autonomous \/ \A s \in Skills : entry[s] = "done" => s \in Reused \cup approved

(* Why both gates hold: what is done has been finished, the snapshot of a   *)
(* pass only holds finished skills and covers the skill being spawned, and  *)
(* every agent and test loop goes back to a start, by a pass or by a human. *)
PassIsCovered ==
  spawner.owner # "none" =>
    /\ spawner.skill \in Skills
    /\ Deps[spawner.skill] \subseteq spawner.done
    /\ spawner.done \subseteq finished
AgentsKnown == \A a \in Agents : agent[a].pc # "free" => agent[a].skill \in started \cup handled
LoopsKnown  == \A l \in Loops : loop[l].pc # "free" => loop[l].skill \in started \cup handled
GateInv ==
  /\ DoneSkills \subseteq finished
  /\ PassIsCovered
  /\ AgentsKnown
  /\ LoopsKnown
  /\ DependencyGate
  /\ Autonomous \/ finished \subseteq Reused \cup approved

(* The eval lock of a skill is held by the agent whose evaluator runs and   *)
(* by nobody else: a kill or a timeout in the middle of an evaluation       *)
(* leaves no lock behind, and two evaluators of a skill are never awaited   *)
(* at once.                                                                 *)
EvalLockOwned ==
  \A s \in Skills, a \in Agents :
    evalLock[s] = a <=> agent[a].pc = "evaluating" /\ agent[a].skill = s

(* _spawn_lock is never left behind either: who holds it still waits for    *)
(* its own pass to end.                                                     *)
SpawnLockOwned ==
  LET o == spawner.owner IN
  \/ o \in {"none", "task"}
  \/ o \in Agents /\ agent[o].pc = "confirming"
  \/ o \in Loops /\ loop[o].pc = "promoting"

Busy(a) == agent[a].pc \notin {"free", "resting", "gone", "taskless"}

(* No skill is stuck unseen: one that says it is being written, evaluated   *)
(* or tested has a task behind it that will move it on; or an agent of it   *)
(* is still listed with status "error", for when the client fails, or the   *)
(* subprocess leaves no envelope, that is all the runner says               *)
(* (agent_orchestrator_openclaw.py:535), and only a human goes on from      *)
(* there.                                                                   *)
GaveUp(r) == r.listed /\ r.pc = "gone" /\ r.status = "error"
WorkIsServed ==
  \A s \in Skills : entry[s] \in {"writing", "evaluating", "testing"} =>
    \/ \E l \in Loops : loop[l].skill = s
    \/ /\ entry[s] # "testing"
       /\ \E a \in Agents : agent[a].skill = s /\ (Busy(a) \/ GaveUp(agent[a]))

(* The auto-spawn passes never let two agents develop the same skill for    *)
(* the same target, though each spawn is an await at which another caller   *)
(* may come; an agent that was replaced counts for as long as it runs.  The *)
(* agents that a test loop or a retry spawns have no target: a loop may     *)
(* await another agent than the one it spawned (2070-2077), and then spawns *)
(* the next one beside it.                                                  *)
Develops(a) == agent[a].pc \in {"spawned", "starting", "working"} /\ agent[a].status \in ActiveStatus
OneDevPerTarget ==
  \A a, b \in Agents :
    a # b /\ Develops(a) /\ Develops(b) /\ agent[a].target # Untargeted =>
      <<agent[a].skill, agent[a].target>> # <<agent[b].skill, agent[b].target>>

(* Nobody works any more on a skill that is done.                           *)
DoneIsQuiet ==
  \A s \in Skills : entry[s] = "done" =>
    \A a \in Agents : agent[a].skill = s => ~Busy(a) \/ agent[a].pc = "confirming"

(* A skill that is done stays done: no late verdict, failure, kill or       *)
(* restart takes it back.                                                   *)
DoneStays == [][\A s \in Skills : entry[s] = "done" => entry'[s] = "done"]_vars

(* A skill that is marked as in the test loop has a loop that will take the *)
(* mark back: it is never left behind, by a kill, a loop cancelled with its *)
(* agent or a second loop of the skill, to have the verdicts of its agents  *)
(* ignored for good.                                                        *)
TestLoopFlag ==
  \A s \in inTestLoop : \E l \in Loops : loop[l].pc # "free" /\ loop[l].skill = s

(* Once the pipeline was started, a skill whose dependencies are all done   *)
(* gets started without another command.                                    *)
ReadyStarts ==
  \A s \in Skills : started # {} /\ Deps[s] \subseteq DoneSkills ~> s \in started \cup Reused

(* The rounds of rejection and retry end: from some time on every skill is  *)
(* done, in review, or waits for one that is.                               *)
Settles == <>[](\A s \in Skills : entry[s] \in {"planned", "review", "done"})

(* Giving up is final: a skill that was sent to review stays there until a  *)
(* human decides.                                                           *)
ReviewStays ==
  [][\A s \in Skills : entry[s] = "review" => entry'[s] \in {"review", "done"}]_vars

(* A spawn is made whole: no agent stays in the table for which no task was *)
(* created.                                                                 *)
SpawnsWhole == \A a \in Agents : agent[a].listed => agent[a].pc # "taskless"

(* No evaluation lasts forever, nor does the wait for the eval lock.        *)
EvaluationEnds ==
  \A s \in Skills : entry[s] = "evaluating" ~> entry[s] # "evaluating"
=============================================================================
