# A TLA+ model of the Tidybot Universe

Specifications, model-checking runs and proofs for the concurrent core of this
repository. Paths below are relative to `src/`; `AO` stands for
`skill-agent-setup/claude-code/agent_orchestrator.py`, `OC` for
`agent_orchestrator_openclaw.py` beside it, and `AH` for
`benchmarks/attention_harness/`. `PROJECT.json` maps every definition that models
code to its lines, and lists the hazards the properties are about.

1. [Inventory](#1-inventory)
2. [Plan](#2-plan)
3. [`SkillPipeline`](#3-skillpipeline): the orchestrator
4. [`SubmissionEval`](#4-submissioneval): evaluation of submissions
5. [`AgentSession`](#5-agentsession): commands, await by await
6. [`RobotService` and `RobotEpisode`](#6-robotservice-and-robotepisode): the simulator and benchmark episodes
7. [`SkillBundle`](#7-skillbundle): the bundler
8. [`AttentionRuntime` and `AdvisorTokens`](#8-attentionruntime-and-advisortokens): credits and tokens
9. [Not modelled](#9-not-modelled)

## 1. Inventory

### Skill orchestrator (AO, OC) -- `SkillPipeline`, `AgentSession`

One asyncio process drives a graph of *skills* (`graph.json`) to completion.

| State | Where | In the model |
|---|---|---|
| status and `test_attempts` of each entry, saved on every update | AO `skill_entries`, `_update_entry` | `entry`, `testAttempts` |
| agents by id, with status, client or subprocess, task, `exit_event` | AO `AgentState`, `agents` | `agent` |
| `_eval_skill_locks`, `_eval_attempt_count` | AO 1161, 2283 | `evalLock`, `evalAttempts` |
| `_spawn_lock`, and the tasks waiting for it | AO 1151 | `spawner`, `pendingPasses` |
| `_skills_in_test_loop`, running test loops | AO 2008 | `inTestLoop`, `loop` |
| `dev_mode`, `autonomous_mode` | AO 72-73 | `devMode`, `Autonomous` |
| evaluator subprocesses that nobody awaits | OC 660-806 | `zombie` |

A skill is developed by one agent per target; its work goes to an *evaluator*
(path A, `_handle_agent_done`), which accepts or rejects. A rejection is retried
in the same session (SDK) or by a new agent (openclaw, through the auto-spawn
pass), at most `MAX_EVAL_RETRIES` times, then a human gets it ("review"). An
accepted skill is promoted in autonomous mode and reviewed otherwise; a *task
root* first goes through `_root_skill_test_loop`. A promotion runs
`_auto_spawn_ready_skills`, which starts whatever has all its dependencies done.

Behind each agent is a harness back end: an SDK client, or a subprocess per turn.
Stop, hint, spawn and kill are coroutines of several awaits each, which meet each
other, the agent's tasks, and the client or subprocess while it starts or ends.

Interactions: all these coroutines share the state above; the dashboard calls in
through WebSocket and HTTP commands; agents, evaluators and tests are processes
that end when they want to; kills and timeouts cancel coroutines at any await.

Hard behaviour: every `await` lets everybody else run; snapshots of the entries
and agents grow old; cancellation strikes in the middle of a lock or a spawn;
one half of the state survives a crash, the other does not; under openclaw the
orchestrator is imported *twice* (AO 3466-3510) and some globals differ.

What makes it correct: dependency gate, review gate, at most one evaluator per
skill and one developer per skill and target, locks that do not outlive their
holders, nothing done is undone, bounded retries, nobody stuck.

### Submission evaluation, "path B" (AO 1230-1313, 3334-3375, `submit_and_wait.py`) -- `SubmissionEval`

A developer's script submits code, posts `/job-done` and polls `/eval-result`;
the orchestrator evaluates under the same per-skill lock and, in autonomous mode,
replaces an agent that was paused meanwhile. State: `_submission_evals` (one
future per *skill*), one task per submission, one process per script. Hard: a
second submission replaces the future of the first; 600 s of polling against
900 s of evaluation; a missing verdict that reads as "passed"; a resume that
kills with the dashboard's code, which forgets the retries just counted. Correct
when one evaluator at a time works on a skill, no future is left alone, every
script gets one answer, and the answer is about its own submission.

### Attention harness: store, runtime, advisor (`AH/core`) -- `AttentionBudget`, `AttentionRuntime`, `AdvisorTokens`

A benchmark of when a robot should ask for assistance. `store.py` keeps runs,
attempts, requests, responses, reservations and token charges in SQLite, one
transaction per call, with idempotent events; `runtime.py` opens requests against
a *reserved* credit and resolves them by proxy, human, deadline or cancellation;
`advisor.py` looks a question up in the reply cache, asks a provider, keeps the
reply. Hard: a crash between two transactions of one operation, repeated events,
resolutions racing, two callers paying for one question, both limits. Correct when
a request takes its credit before it is answered and is answered once, credits and
tokens stay within the run's limits, a settled reservation stays settled, and equal
questions get equal advice.

### Simulator service and benchmark episodes (`robosuite_sim/`, `tidybot_sdk/facade.py`, `AH/runner.py`, `AH/sandbox.py`) -- `RobotService`, `RobotEpisode`

One HTTP thread serves a simulator that holds one environment at most. A harness
resets it, lets a policy act (its own no-op or reference policy, or a frozen one in
a killed-at-timeout subprocess that drives the robot through the SDK facade and
persists one event per call), reads the native verdict and closes. Hard: library
calls that raise after half of their effect, answers nobody waits for any more, a
policy killed with a request on its way, an event sink that raises. Correct when
the service never holds two environments, the recorded trace accounts for what the
robot did, the verdict is about the state that was recorded, and nothing of a run
outlives its result.

### Bundler (`tidybot-bundle.py`, two equal copies) -- `SkillBundle`

Collects the skills a skill needs breadth-first, orders them depth-first, extracts
their code and joins it without repeated imports and functions, while agents go on
writing the directories. Hard: cycles, missing skills, directories that change
between two readings, blocks cut by indentation. Correct when dependencies come
before dependents, nothing needed is missing, and what is called is defined before.

### The rest

| Component | Status | Reason |
|---|---|---|
| memory life cycle, policies, projection (`AH/core`) | not modelled | single transactions; pure scoring (section 9) |
| PARCC runner, safety monitor, episode traces | not modelled | sequential loops without shared state (section 9) |
| dashboard, session log, agent prompts | not modelled | no decision depends on them |
| agent server, simulators of the robot | external | git submodules; their answers are choices |
| `eval/curobo_v1_v2`, set-up scripts | not modelled | numerical benchmarks, installation |

## 2. Plan

Done, in this order:

1. `DependencyOrder` (abstract), `SkillPipeline`, `SkillPipelineProofs`; then
   `SkillWorkProofs`: locks, developers, work under way and what is done.
2. `SubmissionEval`, which extends `SkillPipeline` and shares its locks and agents,
   and `SubmissionProofs`, which extends the proofs about the pipeline.
3. `RobotService`, `RobotEpisode` (the service composed with a benchmark run), `RobotProofs`.
4. `AgentSession`: the awaits `SkillPipeline` treats as single actions; `SessionProofs`.
5. `SkillBundle`, `BundleProofs`.
6. `AttentionBudget` (abstract), `AttentionRuntime`, then `AdvisorTokens`, which spells
   out the call to the advisor, and `AttentionProofs` about the three.

`FoldTheorems` holds what the last two need to know of folds over sets and sequences.

Two chains of refinement result: `SkillPipeline` implements `DependencyOrder`, and
`AdvisorTokens` implements `AttentionRuntime`, which implements `AttentionBudget`.

Left, should this code grow: `MemoryLifecycle`, `EpisodePersistence` (`AH/core/episode_trace.py`),
trace projection, `SafetyMonitor`, `ParccClient`.

Conventions. An `MC` module instantiates a specification, its `.cfg` gives the
constants and names the properties. Each component's theorems are in a module of
their own. An operator `BuggyX` beside `X` is what a plausible mistake in that code
would be; nothing refers to it, and each checked property is known to fail when `X`
is replaced by it.

## 3. `SkillPipeline`

### Correspondence

An action is a stretch of code between two awaits at which another coroutine can
see or change something. Where a stretch of awaits only broadcasts to dashboards
and the state around it is neither read nor written by others in between, it is
one action; the await between the insertion of an agent and the creation of its
task (AO 1740) is kept, because kills and other spawns do see it.

| Code | Actions |
|---|---|
| `spawn_agent` | `WithSpawn` (inside the callers' actions), `TaskCreated`, `WithTask` |
| `_run_agent_sdk`, `_run_agent_openclaw` | `RunnerStarts`, `RunnerFails`, `RunnerLeaves` |
| `_resolve_completion` | `WorkEnds`, `Finished` |
| `_handle_agent_done` | `EvaluationQueued`, `EvaluatorStarts`, `EvaluatorReturns`, `RejectionHandled`, `PassHandled` |
| `_auto_spawn_ready_skills`, `_confirm_skill_done` | `PassBegins`, `PassContinues` (one per spawn) |
| `_root_skill_test_loop`, `run_mechanical_test`, `run_multi_target_test` | `TestReturns`, `LoopValidates`, `LoopRetries`, `LoopPicksDev`, `LoopResumes` |
| `/xbot-start`, `confirm_done`, `PATCH /entries`, `retry`, `stop`, `kill` | `XbotStart`, `Confirm`, `PatchDone`, `Retry`, `StopAgent`, `KillAgent` |
| `DEV_AGENT_TIMEOUT`, process death and `_load_entries` | `AgentTimesOut`, `Restart` |

Notes.

- Agents have fresh ids in the program; the model reuses a *slot* when nothing
  refers to it any more (`Slots`, `Settled`). A spawn with no slot left is
  disabled, so `Agents` must be large enough: in each run one more slot changes
  no reachable behaviour of interest, and the proofs do not depend on the number.
- `LoopPicksDev` may pick any active agent of the skill; the program takes the
  first in insertion order. The model allows more.
- `started`, `handled`, `approved`, `finished` are history variables: what was
  started by a pass, what a human touched or approved, what was ever done.
- Abstracted: what prompts, feedback and logs say, session ids, the job list and
  trial images; verdicts and test results are choices.
- The persisted entry is written on every update, so `Restart` finds `entry` and
  `testAttempts` as they were and everything else empty.

`DependencyOrder` is the abstract specification: four actions on the history
variables. `SkillPipeline` implements it with the identity mapping
(`ImplementsOrder`), which says that no interleaving of passes, verdicts, kills
and restarts starts a skill early, or finishes one behind a human's back.

### Properties

| Property | Says |
|---|---|
| `TypeOK` | types |
| `DependencyGate`, `ReviewGate` | no skill starts by itself before its dependencies; outside autonomous mode only a human finishes one |
| `ImplementsOrder` | refinement of `DependencyOrder` |
| `EvalLockOwned` | the eval lock of a skill is held exactly by the agent being evaluated |
| `SpawnLockOwned` | the holder of `_spawn_lock` still waits for its pass |
| `WorkIsServed` | a skill in writing, evaluating or testing has a task behind it, or an agent listed with its error |
| `OneDevPerTarget` | no two developers of a skill on a target, even across awaits; agents without a target do not count (below) |
| `DoneIsQuiet`, `DoneStays` | nobody works on what is done; done stays done |
| `TestLoopFlag` | a skill marked as in the test loop has a loop that will take the mark back |
| `ReadyStarts`, `Settles`, `EvaluationEnds` | liveness: unblocked skills start, rounds of retries end, evaluations end |

`GateInv` is the strengthening of the gates, and is proved rather than run. `ReviewStays`
and `SpawnsWhole` are stated and do not hold (below). `DependencyGate` speaks of what was
ever done: a dependency that is taken back while a pass awaits does not stop it.

### Runs

| Run | Setting | Shows |
|---|---|---|
| `auto_root` | openclaw, autonomous, skill and root on it; errors, timeouts, restarts | order, locks, developers, no skill stuck unseen |
| `sdk_faults` | SDK, autonomous, a skill joining two; errors, timeouts, restarts, stops, kills | done is final |
| `review_gate` | openclaw, human review, two targets, all commands | gates, marks of the test loop |
| `liveness` | openclaw, autonomous, no faults, fairness | progress |
| `sdk_retry` | one SDK rejection | **violates** `WorkIsServed` |

`sdk_retry` is a finding (the retry answer is read on a client that the runner is
about to close). `WorkIsServed` is therefore checked with subprocess agents. There, a turn
that leaves no envelope ends in status `error` (OC 535), and its entry stays in writing
until a human looks: the property counts such a skill as reported (`GaveUp`) as long as
that agent is in the table. SDK agents whose four hours end leave not even that, because
`except CancelledError` swallows the timeout (AO 2253) and the handler that fails the
entry (1757) never runs.

Seven more behaviours of the code were met with TLC while the model was written.
They have no run; each line gives the setting in which to see it.

- *Two developers without a target.* The test loop spawns without a target, then
  waits for an active agent of the skill, which need not be the one it spawned (AO
  2070-2077). If the next test fails before that one started, it spawns another, and
  the runner of the replaced agent sets `running` over the stop (AO 2232). The last
  conjunct of `OneDevPerTarget` leaves these agents out: without it, it is violated in
  the setting of `auto_root`, once a loop may reach its third test.
- *A root that passed is demoted.* In autonomous mode `run_mechanical_test` marks
  the root done (AO 1865-1889); back in the test loop the same success is written as
  review (AO 2046, 2052), although `--autonomous` is to "skip review gate" (AO 85).
  `DoneStays` is violated in the setting of `auto_root` with one command; it is
  checked where there is no task root and no human's confirmation.
- *Review is left again.* The retry counter is per skill, agents are per skill and
  target. The agent whose rejection uses the retries up pops the counter and sends
  the skill to review (AO 2830; `kill_agent` pops it too, 3218); the other target's
  rejection then counts from 1 and marks the skill failed, so that it is developed
  again. `ReviewStays` is violated in autonomous mode with one skill (`Deps <- Solo`), two
  targets, two loops, no task environment, one command.
- *A refused spawn is counted.* `PATCH /entries` with status done runs the pass in
  planning mode too; `spawn_agent` refuses, the pass does not look at its answer and
  writes `writing` (AO 2985); `/xbot-start` then passes the skill by. `WorkIsServed`
  is violated outside autonomous mode with `Env = {"patch", "xbot-start"}` and two
  commands.
- *Two test loops, or a loop without its mark.* Whether an agent's work is left to the
  loop is asked when the work ends (AO 2763); the verdict, an evaluation later, starts
  a loop without asking again (AO 2892). After a loop ends, an agent a pass spawned and
  one the loop spawned may both still be at work and both be evaluated: the second
  verdict starts a second loop, or, with no test left, one that ends at once and takes
  the first loop's mark back (AO 2017); a kill does so too (AO 3219). In the setting of
  `auto_root`, `inTestLoop = {loop[l].skill : l \in Loops \ FreeLoops}` is violated;
  with one slot for loops it would seem to hold. `TestLoopFlag` is the half that is
  true, and the one progress rests on.
- *A spawn is left half made.* A pass awaits a broadcast between the insertion of an
  agent and the creation of its task (AO 1740). When the four hours of the agent whose
  promotion runs the pass end there, the pass is cancelled with it, and the new agent
  stays in the table as `starting`, with no task. `SpawnsWhole` states the contrary and is
  violated in the setting of `auto_root`, in 12 steps. The locks are released all the same.
- *A late verdict undoes a confirmation.* A human may confirm a skill whose
  evaluation goes on; the verdict is written over it (AO 2826-2900).

Bounds. Two or three skills are enough for a dependency, a join and a root; two
targets for two agents of a skill that share lock and counter; two retries (the
default) for a first and a last round. `auto_root` lets a root be tested three times,
as the default does: the agents of two rounds of the loop meet only in a third. Two
slots for loops let a second loop start beside the first; `auto_root` then has
3,241,245 states. Commands are
bounded by `MaxCommands` and restricted by `Env`, so that a run can spend its
states on the commands and faults it is about; every command and fault occurs in
a passing run. `CHECK_DEADLOCK FALSE` because the pipeline really comes to rest.

Fairness (`FairSpec`). Every coroutine that can run is run by the event loop:
weak fairness for runners, passes and loops. Agents and evaluators end because
both have time limits (`DEV_AGENT_TIMEOUT`, `EVAL_TIMEOUT`), which is why the
steps that wait for them are fair as well. `asyncio.Lock` wakes its waiters in
FIFO order, so a waiter that finds the lock free again and again gets it: strong
fairness of `EvaluatorStarts` and `PassBegins`. Commands and faults are not fair.

### Proofs (`SkillPipelineProofs`, `SkillWorkProofs`)

From `ConfigAssumption` only, for every graph, harness, number of targets, agent
slots and test loops, and every set of faults and commands:

- `TypeCorrect`, `DependencyGateHolds`, `ReviewGateHolds`, `GatesHold`,
  `SpawnLockHolds`: the invariants of the same names;
- `Implements`: `Spec => ImplementsOrder`.

The inductive invariant `IInv` is `TypeOK /\ GateInv /\ CallersOK` without the types
of the eval locks (`LocksOK`, which follow separately because submissions may hold
these locks too, section 4). It is cut by variable into parts (`EntriesOK`,
`AgentsOK`, ...) because an action disturbs only some of them. `DependencyGate` alone is not inductive: a pass starts a skill on
the strength of a snapshot taken some awaits ago, so one must know that what the
snapshot holds was finished and covers the skill under way (`PassIsCovered`), and
that agents and loops, which finish skills in autonomous mode, go back to a start
(`AgentsKnown`, `LoopsKnown`). Nor is that typed without `CallersOK`: a pass or a
loop that resumes gives a task to the agent it remembers and moves its owner on,
so both must still be where the caller left them, whatever was killed meanwhile
(`SpawnsAwaited`, `SpawnLockOwned`).
The proof has one lemma per action and one step per part the action disturbs;
refinement follows from the invariant, action by action.

`SkillWorkProofs` adds, on top of `IInv`, what is said of developers and of their work.
Four of these properties are false in some settings of the program; their theorems
state the setting as a hypothesis on the constants, which the run that checks the
property satisfies, for any graph, numbers and limits.

| Theorem | Setting | Invariant |
|---|---|---|
| `EvalLockHolds` | any | `EvalLockOwned` is inductive with `LocksOK` |
| `TestLoopFlagHolds` | any | `FlagInv` |
| `OneDevPerTargetHolds` | `Uninterrupted`: subprocess agents, no stop, kill or confirmation by name | `DevsInv` |
| `WorkIsServedHolds` | `Unhindered`: the same, in autonomous mode; runners may fail and time out | `WorkInv` with `DevsInv` |
| `DoneIsQuietHolds` | `SoleDeveloper`: one target, no task environment, no `confirm`, `patch`, `retry` | `QuietInv` |
| `DoneStaysHolds` | `SoleDeveloper`, and SDK agents or no four-hour timeout | action property, from `QuietInv` |

- `FlagInv`. A kill cancels the loop that waits for the agent and takes back the mark of
  the agent's skill; that these are one skill is not in the state of either: an agent
  keeps its skill until its slot is freed, and a slot that a loop refers to is not
  taken again (`SkillsKept`), which holds in every action.
- `DevsInv`. A pass decides by pairs of skill and target that it collected some awaits
  ago. Hence: a *young* agent (with a target, its work not ended) is active and listed,
  no two are of one pair, and each is in the snapshot of the pass under way or of a
  target that pass has dealt with. A stop, a kill or a confirmation takes a running
  agent out of the active pairs, and then a second developer may come: this is what
  `Uninterrupted` excludes.
- `WorkInv`. A skill in writing or evaluation has a test loop or an agent *at work* on
  it: one that is starting or running, or whose verdict is to come, but not the one a
  pass awaits; or an agent that gave up and stays in the table, which no pass is about
  to replace. A skill in testing, or marked in `inTestLoop`, has
  a loop. Outside autonomous mode (a refused spawn), with an SDK retry (`sdk_retry`)
  or after a stop the code really leaves an entry alone: hence `Unhindered`.
- `QuietInv`. An agent at work is the only one listed or at work on its skill; an entry
  that a pass may take has nobody at work but an agent whose spawn is awaited; on a
  done skill there is at most the agent that confirmed it. With a second target, or
  with an agent a human spawned beside it, one verdict finishes what another agent is
  still developing: hence `SoleDeveloper`. A subprocess agent whose four hours end
  during the pass after its own verdict marks the done skill failed: hence the
  second hypothesis of `DoneStaysHolds`.

Only model-checked: liveness (`ReadyStarts`, `Settles`, `EvaluationEnds`), which is
beyond the prover.

### Not modelled here

The awaits inside `stop_agent`, `kill_agent` and `inject_hint` (section 5); adding
and removing entries while the graph runs; two processes on one graph file; a torn
write of `graph.json`.

## 4. `SubmissionEval`

The module extends `SkillPipeline` with path B. A step is a step of the pipeline
(`PipelineStep`), a restart of everything (`RestartAll`), or a step of path B that
may write the pipeline's state (`evalLock`, `evalAttempts`, `entry`, `agent`).

| Code | Actions |
|---|---|
| `POST /job-done` | `Submit` |
| `_run_submission_eval` | `EvaluationBegins`, `EvaluationReturns` (with `Stored`) |
| `_maybe_resume_paused_dev` | the three branches of `EvaluationReturns`, `ResumeKills` (with `Killed`), `ResumeSpawns` |
| `GET /eval-result` and `poll_eval_result` | `ClientPolls` (with `Taken`), `ClientGivesUp`, `ClientDies` |
| process death | `RestartAll` |

A submission is a model value: one run of the script, whose job the external
agent server completed. `about` is a history field: the submission a verdict was
given on. `PollsExpire` says whether 600 s may pass without a verdict. A kill list
holds agent ids; because the pipeline reuses slots, a slot leaves the lists when
its agent is dropped (`KillListsFollow`), as `agents.get` finds nothing.

| Property | Says |
|---|---|
| `EvaluationsSerialized` | the evaluation a task of path A or B awaits is exactly the lock holder's; beside it only an openclaw subprocess that outlived its own task, and none where nothing cancels a task (`MayOutlive`) |
| `FutureServed` | a pending future has a task of the skill on its way to resolve it |
| `VerdictGivenOnce` | no verdict is given to two scripts |
| `ScriptsEnd` | every script gets an answer or dies with its agent, whether or not it has a time limit |
| `VerdictIsOwn` | a script's verdict is about its own execution: what the docstring says, not what the code does |

| Run | Setting | Shows |
|---|---|---|
| `submissions` | openclaw, autonomous, one skill, two submissions, stops and restarts, one retry; 37,419 states | all but the last |
| `submission_verdict` | one skill on two targets, whose agents submit before a verdict is there | **violates** `VerdictIsOwn` |

Met and not a property:

- *An evaluator outlives its task.* The lock is there so that two subprocesses never work
  in the session of a skill (AO 1156-1160, 1233-1236): `SessionAlone`. Cancelling the task
  of an evaluation does not end openclaw's subprocess (OC 660-806), so the lock is free
  while it works on, and the next evaluation starts beside it. TLC finds it in the setting
  of `submissions`, by a restart during an evaluation, and without restarts in 15 steps: an
  agent that was stopped while it is evaluated is killed by the resume of the first
  submission (`ResumeKills`), and the second submission is evaluated beside the subprocess.
  Under SDK, or where nothing cancels a task, `EvaluationsSerialized` includes `SessionAlone`.
- *A future may be left pending* when `_update_trial_images` raises (AO 1239), which comes
  before the `try`. Only a failure of the file system raises there; the model has none.

One skill is enough, because every table of path B is keyed by the skill; two
submissions are needed for one to replace the other's future; three agent slots
for the agent that was paused, the one that replaces it, and one that a pass
starts beside it; one retry so that both sides of the limit are met.
`SubFairness`: the event loop runs tasks and runners (weak fairness), the FIFO
queue of the eval lock (strong fairness of `EvaluationBegins`), and a script polls
again and again. Nothing forces a script to time out or to die, so `ScriptsEnd`
rests on the evaluation, not on the 600 s. `SubTypeOK` gives the types of the
variables and holds in `submissions` too. The first half of the script, which talks to
the agent server outside of this repository, is left out.

### Proofs (`SubmissionProofs`)

From `ConfigAssumption` and `SubmissionAssumption` only, for any number of submissions,
agents, skills and targets, both harnesses and every fault:

- `EvaluationsSerializedHolds`, `FutureServedHolds`, `VerdictGivenOnceHolds`, `SubTypeHolds`;
- `SubGatesHold`, `SubImplements`: the gates of section 3 and the refinement of
  `DependencyOrder`, now for both paths together.

A step of path B is a step of the pipeline, a kill or a spawn of one of its agents, or
leaves all but an eval lock, a retry count and a way to review alone; so the pipeline's
`IInv` survives it (`SubPipelineStep`), by the lemmas that the pipeline's own kill and
spawn rest on. `HeldInv` says who holds an eval lock: an agent exactly while its
evaluator runs, a submission exactly while it is evaluated. It is inductive because no
step of the pipeline touches a lock that a submission holds (`PipelineForeign`), and the
reverse. `SubInv` has the futures and verdicts. `VerdictGivenOnce` alone is not
inductive: a verdict may lie in the table under a skill when a script asks, so a verdict
must be in one place only (`ResultsApart`), and none may be there before its evaluation
is over (`ResultsJudged`, `ClientsJudged`); a result that is read leaves the table, which
is what keeps two scripts apart that ask by skill.

Only model-checked: `ScriptsEnd`, which is liveness.

## 5. `AgentSession`

`SkillPipeline` lets a stop, a spawn and a kill happen in one step. They are
coroutines: `stop_agent` awaits an interrupt or a subprocess, `spawn_agent` awaits
the stop of each agent it replaces and a broadcast, `inject_hint` and `kill_agent`
await three times. `AgentSession` takes the agents of one skill on one target and
gives every await a step of its own, beside the tasks of the agents, their clients
and their subprocesses. What a verdict does to the graph is left to `SkillPipeline`:
here an evaluation takes its time and may ask the agent to go on.

| Code | Actions |
|---|---|
| `stop_agent` (AO 3146-3180) | `StopCalled`, `StopReturns` |
| `spawn_agent` (AO 1681-1766) | `SpawnCalled`, `SpawnClears`, `SpawnStopped`, `SpawnInserts`, `SpawnStarts` |
| `inject_hint` (AO 3097-3143) | `HintCalled`, `HintInterrupts`, `HintStarts` |
| `kill_agent` (AO 3183-3230) | `KillCalled`, `KillCancels`, `KillWaited`, `KillSignals`, `KillPops` |
| `confirm_done` | `ConfirmCalled` |
| runner, hint and retry tasks | `TaskBegins`, `Launched`, `LaunchFails`, `Told`, `ResultReceived`, `NoResult`, `SubprocessOver`, `Judged`, `RestEnds` |
| client and subprocess | `WorkEnds`, `ProcExits` |
| four-hour timeout, cancellation | `FourHours`, `Cancelled` |

| Property | Says |
|---|---|
| `OneTurn` | no two agents of the pair develop at once: a new one never works beside the one it replaces, as long as nothing overlapped (below) |
| `StopIsNoAnswer` | an interrupted turn is not taken for a finished one and evaluated |
| `OrphansSignalled` | a subprocess nobody waits for has been signalled, or a kill under way still will; but for one of a hinted agent whose place in the `AgentState` a later turn took |
| `AgentsLeave` | an agent that was taken out of the table leaves no task, client or subprocess behind |

`overlap` is a history variable: two commands met, a command met an agent whose turn
was starting, an interrupt failed, a working agent was hinted or confirmed, an agent was
hinted while a turn of it was evaluated, or the four hours ended while another task of the agent was at
work. `OneTurn` is claimed only as long as none of
these has happened, because then it fails, and nothing in the repository promises it:

- `inject_hint` interrupts without marking the agent paused (AO 3127), as
  `stop_agent` does (3157), so that the interrupted turn may be judged done and
  evaluated beside the hint's turn; two overlapping hints start two subprocesses;
- a hint to an agent whose turn is evaluated (AO 3116-3138) gives it a second task. If
  that one gives up on its query, the agent has status `error`, a spawn does not stop it
  (AO 1704), and its runner, which awaits the evaluation and so does not see its
  `exit_event`, keeps the client open with the query in it beside the new agent. The
  smallest such run has four commands (spawn, a stop during the evaluation, which makes
  the agent hintable, hint, spawn); the attempt to prove `OneTurn` led to it;
- a stop that arrives while the client or subprocess starts is lost, because the
  runner sets `running` unconditionally (AO 2232);
- `client.interrupt()` may raise, and `stop_agent` and `kill_agent` go on (AO 3169, 3195).
  A spawn then takes the agent it meant to stop out of the table (AO 1703-1706), and its
  query, which nobody interrupted, goes on beside the new agent (`InterruptFails`; a hint
  whose interrupt raises ends there). A kill cancels the task all the same: TLC finds
  `OneTurn` also true when the failing interrupt of a kill is not counted;
- a confirmation ends the client under an agent that works, although a comment says
  it is kept for hints (AO 1633);
- a spawn may come while `kill_agent` awaits (AO 3196-3227), and puts a new agent
  beside the one that is being killed.

*A superseded turn is not told of the kill.* Under openclaw a hint to an agent that is
starting gives it a second subprocess, which takes the place of the first in `state.proc`.
`kill_agent` ("Fully terminate a running agent", AO 3184) then cancels and signals what the
`AgentState` knows, and the first subprocess works on with its task. `KillTells` states the
contrary and is violated in the setting of `agent_session`, in 14 steps (spawn, hint and
kill meet). When that task is
gone as well, the subprocess is an orphan: `OrphansSignalled` exempts exactly these, a
subprocess of a hinted agent whose `proc` is another turn's by then.

Also met: a stopped openclaw turn that leaves no envelope turns from paused to error
(OC 535), and a hint's task has no four-hour timeout.

Run `agent_session`: both harnesses, two agents (one replaced), three tasks (a turn,
a hint or retry, the replacement), three commands; 888,502 states.
`SessionTypeOK` gives the types and holds in it. `CHECK_DEADLOCK FALSE` because
commands and agents end. Fairness: the event loop runs every coroutine and task that
can go on; a subprocess exits by itself, by its `--timeout` or by the signal, and an
SDK turn ends at the idle timeout. `AgentsLeave` does not need the four hours.

Left out: which session id is resumed, prompts and replies, parsing of envelopes, and
the evaluator's own subprocess.

### Proofs (`SessionProofs`)

For both harnesses and any number of agents, tasks and commands: `StopIsNoAnswerHolds`,
`OrphansSignalledHolds`, `SessionTypeHolds` and `OneTurnHolds`. The inductive invariant
`SInv` says, mostly of agents that were not hinted (a hint really breaks it, above):

- under openclaw an agent has one task at most (`OneTask`), the `AgentState` knows the
  subprocess that lives (`ProcKnown`), and a subprocess that was interrupted belongs to
  an agent that no longer runs (`ProcInterrupted`);
- under SDK one task of an agent is at work, its client has one query or result at most,
  and finds the agent not running when that one was interrupted (`OneQuery`);
- who cancelled a task before its turn is a kill that waits for that task, and a
  subprocess that lost its task has a kill that owes it the signal, or a later turn of
  its hinted agent in its place (`CancelOwned`, `OrphanOwned`); a spawn that has inserted its agent owns it (`SpawnsOwn`).

`NextTask` and the spawn's next agent are the least of a set (`First`), which exists by
well-founded induction (`FirstIn`).

`OneTurn` needs a second invariant, of all agents, hinted or not, but only as long as
nothing has overlapped (`OInv == ~overlap => Orderly`, on top of `SInv`):

- one command is under way (`Serial`), and at most one agent is in the table; a spawn has
  every listed agent on its list before it inserts its own (`Table`), and an agent that
  was inserted has no task, query or result before its first task (`Fresh`);
- a command meets no task that is about to launch, and from the await on at which it has
  stopped an agent until it lets go of it, the agent does not run and no subprocess of it
  is alive (`Aims`);
- an agent has one runner, and beside a task that owns a client or a subprocess nothing
  of it is at work (`Alone`); a task that will launch has its agent in the table
  (`Begins`);
- SDK: an open client has its runner, at a turn, at an evaluation or at rest; the turn
  has one query or result, which is interrupted unless the agent is listed and running
  (`SdkAgent`). Openclaw: a live subprocess is the one its listed agent knows, and runs,
  unless a kill is about to signal it (`CliAgent`).

So a client with an uninterrupted query, or a live subprocess, belongs to a listed agent,
and there is one (`OneTurnFollows`). Each step is about one agent: `Elsewhere` shows once
that all others keep their part, `TaskStepKeeps`, `TurnKeeps` and `OneAgentStep` reduce a
step to that agent. Only model-checked: `AgentsLeave`, which is liveness.

## 6. `RobotService` and `RobotEpisode`

`RobotService` is the simulator service and the wire to it; `RobotEpisode` extends it
with the benchmark run and the policy's worker, which are its two clients.

| Code | Actions |
|---|---|
| `RobosuiteSimClient._request`, its timeout (`robosuite_sim/client.py`) | `SendAfter`, `Send`, `CallFails` |
| `create_server`, `SimulatorState`, `RobosuiteBackend` | `Serve` with `NextRequest` and `ServeReset`, `ServeStep`, `ServeReference`, `ServeObserve`, `ServeSuccess`, `ServeClose` |
| `run_episode` (`AH/runner.py`) | `RunBegins`, `ResetAnswered`, `ReferenceAnswered`, `NoOpStepAnswered`, `RefreshAnswered`, `VerdictAnswered`, `CloseAnswered` |
| `execute_policy` (`AH/sandbox.py`) | `PolicyOver`, `PolicyTimesOut` |
| the sandbox worker | `WorkerAttaches`, `AttachAnswered`, `PolicyReturns`, `WorkerExits` |
| SDK facade and its trace | `SensorCall`, `MotionCall`, `StepAnswered`, `CallReturns` (with `Emitted`, `Persist`) |

The service is single-threaded: requests are served in order of acceptance, also
those nobody waits for any more. Each library call (`make`, `reset`, `step`,
`render`, `close`) may raise, before or after it took effect; what the handler had
done stays done. An episode is named by the request that began it, a robot step by
the request that made it; `moves` records what the robot really did. Pictures, pixel
geometry and controller numbers are abstracted. `RunBegins` numbers requests anew
when no number is in use (`NamesFree`), which keeps the instance finite and small.

| Property | Says |
|---|---|
| `OneLiveEnvironment` | the service holds one environment at most, owned by its backend, whatever raised |
| `BackendCoherent` | observation, seed and trace the backend remembers are of one episode |
| `StepsAccounted` | each step made in a completed run was asked for by it and is in its trace once and in order, or belongs to a call recorded as failed |
| `VerdictOnFinalState` | the verdict is about the state the final observation was taken in |
| `EventsFollowCalls` | one event per SDK call, without gaps; what was persisted is a prefix |
| `ReportedRunIsOver` | when a result is there, the service holds no environment and no request |
| `RunsEnd` | every run ends, even if the service or the policy hangs |

Run `episode`: two runs, the second in the same or another environment; two policy
steps in one call or two, every fault, a raising sink. Two runs are needed for what
one leaves to the next, two steps for a trace with an order. `EpisodeTypeOK` gives
the types and holds in it. Fairness: only the harness's own steps and its own timeouts;
nothing is assumed of the service or the policy. 284,917 states. `CHECK_DEADLOCK FALSE` because
the plan has an end.

### Proofs (`RobotProofs`)

From the assumptions on the constants, for every plan, set of
configurations, set of faults and all bounds:

- `OneLiveEnvironmentHolds`. Inductive invariant `IInv`: the backend, if there is
  one, has an environment, and it is the only one alive.
- `ReportedRunIsOverHolds`. A report is written when the close was answered, and
  that says nothing about a worker that was killed with a request in the queue
  unless the queue is FIFO. The invariant `RInv` adds to `IInv`: numbers on the wire
  increase (`WireOK`), the worker is at work only while the harness waits for it
  (`PartiesOK`), so the close, once sent, is the last request (`ClosingOK`), and
  when it is answered with success the service is empty (`ReportOK`).
- `EventsFollowCallsHolds`. `EventsInv` adds to the property that the worker numbers
  its events by their count (`WorkerOK`) and that a run which has not attached its
  worker has an empty file (`FileOK`). Three lemmas about prefixes carry the step:
  an event is appended to the worker's list before the sink may refuse it, so the file
  keeps a prefix; a kill leaves the list as it is and loses at most the open call.

- `BackendCoherentHolds` and `VerdictOnFinalStateHolds`, from the invariant `VInv`. A
  library call may raise between the environment and what is remembered of it, so the
  backend may lag behind the robot (`Lag`) or have no observation of its episode
  (`Stale`); and a step may be made after the call that asked for it was given up.
  `SimOK`: what is remembered is of the episode of its seed, lies within the moves made
  there, and an episode is numbered by a request that is served. `QueueOK`: no step
  waits behind the end of its episode, and none for a stale backend. `WaitOK`: the
  request the harness waits for is the last of the queue, so its answer tells where the
  robot is after every earlier one. `PolicyOK`: while a policy runs, the backend lags,
  or a step is on its way, only if the open call or one before it failed, which its
  event will say. `RecordOK` carries this from the worker's file to the result. The
  proof has a lemma per handler of the service (`SimFits`: the simulator stays as
  `SimOK` says; `Truthful`: what the answer says is so) and one per action of the run.

- `StepsAccountedHolds`, from `SInv`, which `VInv` supports. A step is named by its
  request, and requests are served in the order of their numbers (`ServedOK`), so the
  moves of an episode increase. While a policy runs (`PolicySteps`), a step in the
  queue or a step made is in the worker's trace, is of the open call, or is `Lost`: of
  a call that failed, whose event names it or will. A wait that ends moves the open
  step to the lost ones; an answer moves it to the trace, as the last; the event of a
  call that raised keeps it lost. So when the worker exits with code 0, its file says
  all there is, and a step that is served later was lost before (`ResultSteps`). The
  harness's own policies compare their trace with the moves (`HarnessSteps`). That the
  trace is what remains of the moves when others are left out (`Kept`) is stated by the
  places of its steps instead of a filter, which the provers could not reason about;
  the lemma `RecordedAccounted` finds these places from the two orders.

Only model-checked: `RunsEnd`, which is liveness.

## 7. `SkillBundle`

| Code (`tidybot-bundle.py`) | Actions |
|---|---|
| `resolve_dependencies`, breadth-first part | `Collect`, `Collected` |
| its `dfs` | `Sort` (one step per dependency or return), `Sorted` |
| `extract_code` | `Extract` (with `MainStripped`) |
| `deduplicate_bundle` | `Bundled` (with `Deduplicated`) |
| an agent at work in the directories | `Edited` |

The recursion is a stack of frames, so the module holds no recursive operator. A line
of code is its indentation, its kind and its name.

| Property | Says |
|---|---|
| `DependenciesFirst` | dependencies precede dependents, in any graph; only members of a cycle may stand either way |
| `BundleComplete` | one section for each needed skill and no other, the asked one last; only an edit during the run leaves a section without code |
| `CallsDefined` | each function a skill offers is defined once, before the sections that call it; a `__main__` block is the asked skill's |

Run `bundle`: three skills with any dependency lists of at most two, cycles included;
two libraries (a helper that skills copied from each other, or one each); `--call` or
not; one change of a directory at any moment; 2,877,080 states. Three skills are
enough for a dependency reached on two ways and for a cycle without the asked skill;
one edit suffices, because each directory is read twice. Every skill is there at the start:
a skill that was missing all along is one whose directory the edit takes away first. `CHECK_DEADLOCK FALSE` because the program ends.

Met and not a property: deduplication also drops methods and function-local imports
whose name was seen anywhere before, at any indentation (`tidybot-bundle.py:183`);
`CallsDefined` speaks of functions at the left margin. The other way round, a method
that has the name of a function further down removes this function from the script:
with such a library TLC violates `CallsDefined` with one skill and no dependency. The
libraries of the run have no such method, and the theorem below says so (`MethodsApart`).

### Proofs (`BundleProofs`)

For any set of skills, dependency lists, cycles, missing skills and number of edits:
`DependenciesFirstHolds` and `BundleCompleteHolds`. What a skill needs is the least set
that holds it and is closed under dependencies (`Needs`), so no induction over the graph
is needed: `NeedsSelf`, `NeedsStep` and `NeedsLeast` are all that is used. The invariant
follows the stack of `dfs`: the frames lie on a path from the asked skill (`PathOK`),
each visited skill is in the order or on the stack once (`VisitedOK`), and what a skill
in the order depends on stands before it or needs it back (`OrderOK`); then the sections
follow the order one by one (`SectionsOK`).

`CallsDefinedHolds` is about code of any length: under `MethodsApart` (no method or
inner function of a skill has the name of a function that some skill offers, which the
code does not check; the run's libraries satisfy it) the script defines each function once, in
the first section that offers it, and no later than it is called. Extraction and
deduplication are folds over lines. `StripTrace`, `LineTrace` and `ScanTrace` unfold them
into one value per prefix; `StripOK` and `ScanOK` say what such a value holds: lines of the
code only, which functions were kept, and which names were seen. One line's step
preserves this (`StripKeeps`, `ScanKeeps`), `AllAlong` carries it to the last line, and
`DeduplicatedDoes` sums it up for a section. The invariant `CodesOK` adds to the one above
that sections hold their skill's code until they are deduplicated.

## 8. `AttentionRuntime` and `AdvisorTokens`

`AttentionBudget` is the promise: a request takes a credit before anybody answers it,
keeps the first answer, pays for it with that credit, and gives it back only without
an answer. `AttentionRuntime` has one action per transaction; between two of them
another caller may act, and the caller may crash.

| Code (`AH/core`) | Actions |
|---|---|
| `open_request` | `Open`, `Reserve`, `Create`, `Release` |
| `submit_human_response` | `SubmitHuman`, `HumanAnswers`, `Commit` |
| `handle_deadline` | `HandleDeadline`, `FallsBack`, `Ask`, `ProxyAnswers`, `Commit` |
| `resolve_benchmark_proxy` | `ResolveProxy`, `Ask`, `ProxyAnswers`, `Commit` |
| `cancel` | `Cancel`, `Cancels`, `Release` |
| `transition_request`, `settle_assistance`, `reserve_assistance` (`store.py`) | `Transition`, `Settled`, `Fits` |
| time, process death | `Deadline`, `Crash` |
| `AdvisorProxy.answer` | `LookUp`, `AskProvider`, `Keep` in the place of `Ask` |
| `consume_resources` | `Charge` |

`AdvisorTokens` extends the module: `Ask` becomes look-up, provider, keep and charge,
and the answer carries the advice. `Coarse` maps a caller in the middle of them back
to `Ask`. The timeout state of a request is left out, because no call of the runtime
leads there. `Reopens` is FALSE in the run and in the theorems: both callers in the repository
open each request once. With `Reopens = TRUE`, `CreditFollowsRequest` is violated: an
opening that raised released the credit, and the second opening takes the released
reservation as it is.

| Property | Says |
|---|---|
| `CreditFollowsRequest` | a credit is committed for an answer only, returned only without one |
| `ImplementsBudget` | refinement of `AttentionBudget` |
| `CreditSettles` | unless a caller crashes, the credit of a request that is over is settled |
| `TokensWithinLimit` | the tokens charged to a run never exceed its limit |
| `ChargedAsKept` | a request is charged what the kept reply cost, although two callers may have paid for two |
| `SameAdvice` | requests with the same question get the same advice |
| `ImplementsRuntime` | refinement of `AttentionRuntime` |

| Run | Setting | Shows |
|---|---|---|
| `attention` | two requests, one credit, three callers, crashes; 292,564 states | the credits |
| `advisor_tokens` | two requests with one question, two callers, crashes, replies that cost 0, 1 or 2 of 3 tokens; 527,086 states | the tokens |

One credit for two requests makes the limit bind; three callers let human, deadline
and cancellation race for one request. Two callers make the race for one question; two
and two of three tokens exceed the limit. `CHECK_DEADLOCK FALSE` because requests end.
The question of a request is fixed: that a retry may supply another packet of the trace,
and so ask another question, is left out. Fairness, for `CreditSettles`: a call that has begun goes on (SQLite waits for locks,
the advisor's transport has a timeout); nothing makes anybody call.

Met and not a property:

- The reply is kept before it is charged (`advisor.py:121`, then `runtime.py:133`). If
  the charge is refused (`store.py:519`) or the process ends in between, the next
  resolution finds the reply in the cache, for which nothing is charged, and answers:
  `RetryKeepsBudget` states the opposite, after `runtime.py:160-164` ("a safe retry
  without silently increasing the budget"), and is violated with one request, one
  caller, `TokenLimit = 1` and a reply of 2. `advisor_run.py` cancels such a request;
  a caller of the runtime, or a deadline that is handled again, retries it.
- The tokens of a reply that lost the race for the cache are charged to nobody.
- After a crash between answer and commit, a repeated proxy resolution returns early
  (`runtime.py:120`) and does not settle the credit; a repeated human response does.

### Proofs (`AttentionProofs`)

For any finite set of requests, any callers and any limit, when no request is opened
twice: `TypesHold`, `CreditFollowsRequestHolds`, `ImplementsBudgetHolds`, and
`WithinLimitHolds`, which carries the abstract limit over to the store's table. The
invariant `IInv` adds to the types how the state of a request and of its reservation
go together (`RequestsOK`), that an event key tells what became of its request
(`EventsOK`), where each caller stands with its request (`CallsOK`), and that one
caller opens it (`OneOpener`). Without the last two, a release might take back the
credit of a request that another caller had answered.

For any replies and limit: `ImplementsRuntimeHolds`, `ChargedAsKeptHolds`,
`SameAdviceHolds`, `TokensWithinLimitHolds`. The invariant `TokenInv` follows a reply through its caller: what is held
is a reply before it is kept, the kept one when it is charged, and has its text when
it is given (`HeldOK`); charges and advice agree with the cache (`ChargesOK`,
`AdviceOK`), and the cache never changes what it has.

`TokensWithinLimit` is preserved by itself once the sum is understood: `UsageSteps` says that
no step but `Charge` touches the rows and that a charge replaces a 0, `SumOfChanged` that
changing one row changes the sum by the difference, whatever the order in which the fold
takes the rows (`SumAnyOrder`), so what `Affords` admits still fits (`ChargeFits`).

Refinement through `INSTANCE` renames `Cardinality`; `SameCardinality` and
`RuntimeCardinality` say that it is still the same. Only model-checked: `CreditSettles`,
which is liveness.

### Folds (`FoldTheorems`)

`MapThenFoldSet` and `FoldLeft` are defined by a CHOOSE of a function that satisfies a
recursion, and say nothing until one is known to exist. `FoldExists` and `LeftFoldExists`
show it; `SumExists`, `SumAnyOrder`, `SumOfChanged` and `SumOfZeros` follow for sums of natural
numbers. The library's induction theorems cannot be used, because they take an operator
as a parameter; each induction is a least counterexample (`LeastNat`, `LeastSubset`),
which exists because `<` on the naturals is well-founded (`WFMin`).

## 9. Not modelled

- *Memory life cycle* (`AH/core/memory.py`). Each operation is one idempotent
  transaction, so no interleaving is worth a model, and an external service supersedes
  the module. One defect was met by reading: a second `disable` after an `enable`
  repeats the event key `memory-disable:{id}` (`memory.py:56`), so it does nothing
  and the memory stays trusted.
- *Episode persistence* (`episode_trace.py`), *policies*, *projection*, *trace*:
  writes of immutable records by one process, and pure scoring and filtering.
- *PARCC runner*, *safety monitor*: sequential loops without shared state; bounded
  retries and a latch that the repository's unit tests reach.
- *Dashboard and session log*, texts of prompts and feedback: nothing reads them back.
- *Facade and simulator numbers*: coordinates, images, controller gains.
- *Agent server and robot simulators*: git submodules; their answers are choices.
- *Planner benchmarks, set-up scripts*: numerical, no protocol.

What stays with the model checker because the proof system cannot do it: liveness
under fairness and `ENABLED` (`ReadyStarts`, `Settles`, `EvaluationEnds`, `ScriptsEnd`,
`RunsEnd`, `AgentsLeave`, `CreditSettles`). Every safety invariant, action property and
refinement that a passing run checks is stated by a theorem. Where a theorem has a
hypothesis on the setting, its section says which and what happens without it.
