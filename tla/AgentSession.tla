---------------------------- MODULE AgentSession ----------------------------
(***************************************************************************)
(* The agents of one skill on one target, await by await: spawn_agent,     *)
(* stop_agent, inject_hint and kill_agent are coroutines that run beside   *)
(* the runner task of each agent, the tasks of hints and retries, and the  *)
(* Claude client or openclaw subprocess behind them.  What an evaluation   *)
(* does to the skill is the matter of SkillPipeline; here it only takes    *)
(* its time and may ask the agent to go on.                                *)
(***************************************************************************)
EXTENDS Integers, Sequences, FiniteSets

CONSTANTS
  Harnesses,    \* "sdk": ClaudeSDKClient, "openclaw": a subprocess per turn
  MaxAgents,    \* bound: agents ever spawned
  MaxTasks,     \* bound: tasks ever created for them
  MaxCommands   \* bound: coroutines ever started by commands

ASSUME SessionAssumption ==
  /\ Harnesses \subseteq {"sdk", "openclaw"}
  /\ MaxAgents \in Nat /\ MaxTasks \in Nat /\ MaxCommands \in Nat

VARIABLES
  harness,  \* HARNESS
  agent,    \* the AgentState objects, in the order they were made
  task,     \* the tasks of the agents' turns, each with its subprocess
  work,     \* SDK: the queries a client works on, TRUE once interrupted
  results,  \* SDK: the results nobody has received yet, TRUE if interrupted
  command,  \* the coroutines of commands
  done,     \* is the entry done in graph.json
  overlap   \* history: a command met another one or an agent that was starting a turn,
            \* the interrupt of a client failed under one, a working agent was hinted or
            \* confirmed done, an agent was hinted while a turn of it was evaluated, or
            \* the four hours of a runner ended while another task of it was at work

vars == <<harness, agent, task, work, results, command, done, overlap>>

Agents   == 1..MaxAgents
Tasks    == 1..MaxTasks
Commands == 1..MaxCommands

SDK == harness = "sdk"

NoAgent == [status |-> "none", listed |-> FALSE, exit |-> FALSE, task |-> 0, proc |-> 0,
            client |-> "none", hinted |-> FALSE]

NoTask == [of |-> 0, kind |-> "none", pc |-> "none", cancel |-> "no", proc |-> "none",
           interrupted |-> FALSE]

NoCommand == [op |-> "none", pc |-> "over", of |-> 0, todo |-> {}, task |-> 0, proc |-> 0]

Made == {a \in Agents : agent[a].status # "none"}
Listed == {a \in Agents : agent[a].listed}
Alive(t) == task[t].pc \notin {"none", "over"}
TasksOf(a) == {t \in Tasks : task[t].of = a /\ Alive(t)}
Unused == {t \in Tasks : task[t].pc = "none"}
First(S) == CHOOSE x \in S : \A y \in S : x <= y
NextTask == First(Unused)

(* The tasks, with the next one created for agent a in T.                   *)
Created(T, a, kind) == [T EXCEPT ![NextTask] = [NoTask EXCEPT !.of = a, !.kind = kind, !.pc = "new"]]

(* A task that is over is known by its agent and its subprocess.            *)
Over(T, t) == [T EXCEPT ![t] = [NoTask EXCEPT !.of = T[t].of, !.proc = T[t].proc, !.pc = "over"]]

-----------------------------------------------------------------------------
(* Interrupting a turn: client.interrupt() touches the query that is being  *)
(* worked on; SIGINT goes to the subprocess the AgentState knows.           *)
Interrupt(a) ==
  /\ work' = IF SDK /\ agent[a].client = "open" /\ work[a] # <<>>
             THEN [work EXCEPT ![a] = [@ EXCEPT ![1] = TRUE]] ELSE work
  /\ task' = LET p == agent[a].proc IN
             IF p # 0 /\ task[p].proc = "live"
             THEN [task EXCEPT ![p].proc = "signalled", ![p].interrupted = TRUE] ELSE task

(* client.interrupt() may raise; stop_agent and kill_agent catch that and   *)
(* go on, and so does the query of the client.                              *)
InterruptFails(a) ==
  /\ SDK /\ agent[a].client = "open" /\ work[a] # <<>>
  /\ UNCHANGED <<task, work>>

(* A turn of a is about to start: the first task is not created yet, or one *)
(* has not got its client or subprocess yet, or a query is queued.          *)
Starting(a) ==
  \/ agent[a].task = 0 \/ Len(work[a]) > 1
  \/ \E t \in TasksOf(a) : task[t].pc \in {"new", "launch"}
AtWork(a)   == \E t \in TasksOf(a) : task[t].pc \in {"telling", "turn"}
Judging(a)  == \E t \in TasksOf(a) : task[t].pc = "judge"

-----------------------------------------------------------------------------
BuggySignalled(T, t) == T   \* only re-raises

Signalled(T, t) == [T EXCEPT ![t].proc = IF @ = "live" THEN "signalled" ELSE @]

(* The commands.  c is a coroutine, `of` the agent it works on, `proc` the  *)
(* subprocess or task it waits for; `lost` says that its interrupt failed.  *)
Called(com, S, lost) ==
  LET started == {d \in Commands : command[d].op # "none"}
      c       == Cardinality(started) + 1
  IN /\ c \in Commands
     /\ command' = [command EXCEPT ![c] = com]
     /\ overlap' = (overlap \/ lost \/ (\E d \in started : command[d].pc # "over")
                                    \/ (\E a \in S : Starting(a) \/ (com.op = "confirm" /\ AtWork(a))))

At(c, op, pc) == command[c].op = op /\ command[c].pc = pc
Goes(c, pc)   == command' = [command EXCEPT ![c].pc = pc]
Ends(c)       == command' = [command EXCEPT ![c] = [NoCommand EXCEPT !.op = "over"]]

LiveProc(a) == IF agent[a].proc # 0 /\ task[agent[a].proc].proc = "live" THEN agent[a].proc ELSE 0

Waited(c) == command[c].proc # 0 => task[command[c].proc].proc = "dead"

(* stop_agent marks the agent as paused before it interrupts it.            *)
StopCalled ==
  \E a \in Listed, lost \in BOOLEAN :
    /\ Called([NoCommand EXCEPT !.op = "stop", !.pc = "stopping", !.proc = LiveProc(a)], {a}, lost)
    /\ agent' = [agent EXCEPT ![a].status = "paused"]
    /\ IF lost THEN InterruptFails(a) ELSE Interrupt(a)
    /\ UNCHANGED <<harness, results, done>>

StopReturns(c) ==
  /\ At(c, "stop", "stopping") /\ Waited(c)
  /\ Ends(c)
  /\ UNCHANGED <<harness, agent, task, work, results, done, overlap>>

(* spawn_agent takes the agents of the pair that it finds in the table ...  *)
SpawnCalled ==
  /\ Cardinality(Made) < MaxAgents
  /\ Called([NoCommand EXCEPT !.op = "spawn", !.pc = "clearing",
                              !.todo = Listed], Listed, FALSE)
  /\ UNCHANGED <<harness, agent, task, work, results, done>>

BuggyWorking(a) == agent[a].status = "starting"

Working(a) == agent[a].status \in {"starting", "running"}

BuggyPopped(a) == [agent EXCEPT ![a].listed = FALSE]   \* exit_event is not set

Popped(a) == [agent EXCEPT ![a].listed = FALSE, ![a].exit = TRUE]

(* ... stops each one that is at work and takes it out of the table ...     *)
SpawnClears(c) ==
  LET a == First(command[c].todo)
  IN /\ At(c, "spawn", "clearing") /\ command[c].todo # {}
     /\ IF agent[a].listed /\ Working(a)
        THEN /\ command' = [command EXCEPT ![c].pc = "stopping", ![c].proc = LiveProc(a)]
             /\ agent' = [agent EXCEPT ![a].status = "paused"]
             /\ \/ Interrupt(a) /\ UNCHANGED overlap
                \/ InterruptFails(a) /\ overlap' = TRUE
        ELSE /\ command' = [command EXCEPT ![c].todo = @ \ {a}]
             /\ agent' = Popped(a)
             /\ UNCHANGED <<task, work, overlap>>
     /\ UNCHANGED <<harness, results, done>>

SpawnStopped(c) ==
  LET a == First(command[c].todo)
  IN /\ At(c, "spawn", "stopping") /\ Waited(c)
     /\ command' = [command EXCEPT ![c].pc = "clearing", ![c].todo = @ \ {a}, ![c].proc = 0]
     /\ agent' = Popped(a)
     /\ UNCHANGED <<harness, task, work, results, done, overlap>>

(* ... and puts a new agent there ...                                       *)
SpawnInserts(c) ==
  LET a == Cardinality(Made) + 1
  IN /\ At(c, "spawn", "clearing") /\ command[c].todo = {}
     /\ a \in Agents
     /\ agent' = [agent EXCEPT ![a] = [NoAgent EXCEPT !.status = "starting", !.listed = TRUE]]
     /\ command' = [command EXCEPT ![c].pc = "inserted", ![c].of = a]
     /\ UNCHANGED <<harness, task, work, results, done, overlap>>

(* ... whose task it creates after a broadcast.                             *)
SpawnStarts(c) ==
  LET a == command[c].of IN
  /\ At(c, "spawn", "inserted") /\ Unused # {}
  /\ task' = Created(task, a, "runner")
  /\ agent' = [agent EXCEPT ![a].task = NextTask]
  /\ Ends(c)
  /\ UNCHANGED <<harness, work, results, done, overlap>>

(* inject_hint finds the agent, or takes any active one, and says so.       *)
HintCalled ==
  \E a \in Listed :
    /\ Called([NoCommand EXCEPT !.op = "hint", !.pc = "sent", !.of = a], {a}, FALSE)
    /\ UNCHANGED <<harness, agent, task, work, results, done>>

Hintable(a) ==
  IF SDK THEN agent[a].status \in {"running", "paused"} /\ agent[a].client # "none"
         ELSE agent[a].status \in {"running", "paused", "starting"}

(* What is still at work is interrupted first; the status is left as it is. *)
(* An interrupt that raises, as it does without a connection, ends the hint *)
(* there, whether it reached the client or not.                             *)
HintInterrupts(c) ==
  LET a == command[c].of
      interrupts == ~SDK \/ agent[a].status = "running"
  IN
  /\ At(c, "hint", "sent")
  /\ \/ /\ Hintable(a) /\ (SDK /\ interrupts => agent[a].client = "open")
        /\ command' = [command EXCEPT ![c].pc = "hinting", ![c].proc = LiveProc(a)]
        /\ agent' = [agent EXCEPT ![a].hinted = TRUE]
        /\ IF interrupts THEN Interrupt(a) ELSE UNCHANGED <<task, work>>
     \/ /\ Hintable(a) => SDK /\ interrupts
        /\ Ends(c)
        /\ \/ UNCHANGED <<agent, task, work>>
           \/ /\ Hintable(a)
              /\ agent' = [agent EXCEPT ![a].hinted = TRUE]
              /\ Interrupt(a)
  /\ overlap' = (overlap \/ AtWork(a) \/ Judging(a))
  /\ UNCHANGED <<harness, results, done>>

(* Then the agent is running again: a query in the same client, or a new    *)
(* subprocess; a client that is closed raises, and the status stays.        *)
HintStarts(c) ==
  LET a == command[c].of
      asked == ~SDK \/ agent[a].client = "open"
  IN /\ At(c, "hint", "hinting") /\ Waited(c) /\ Unused # {}
     /\ work' = IF SDK /\ asked THEN [work EXCEPT ![a] = Append(@, FALSE)] ELSE work
     /\ task' = IF asked THEN Created(task, a, "hint") ELSE task
     /\ agent' = [agent EXCEPT ![a].status = "running",
                               ![a].task = IF asked THEN NextTask ELSE @]
     /\ Ends(c)
     /\ UNCHANGED <<harness, results, done, overlap>>

(* kill_agent ...                                                           *)
KillCalled ==
  \E a \in Listed, lost \in BOOLEAN :
    /\ Called([NoCommand EXCEPT !.op = "kill", !.pc = "killing", !.of = a], {a}, lost)
    /\ agent' = [agent EXCEPT ![a].status = "stopped", ![a].exit = TRUE]
    /\ IF lost THEN InterruptFails(a)
       ELSE IF SDK THEN Interrupt(a) ELSE UNCHANGED <<task, work>>
    /\ UNCHANGED <<harness, results, done>>

(* ... cancels the task the agent has now, and waits for its end ...        *)
KillCancels(c) ==
  LET t == agent[command[c].of].task IN
  /\ At(c, "kill", "killing")
  /\ IF t # 0 /\ Alive(t)
     THEN /\ command' = [command EXCEPT ![c].pc = "waiting", ![c].task = t]
          /\ task' = [task EXCEPT ![t].cancel = IF task[t].pc = "reaping" THEN "again"
                                                ELSE IF @ = "no" THEN "kill" ELSE @]
     ELSE Goes(c, "cancelled") /\ UNCHANGED task
  /\ UNCHANGED <<harness, agent, work, results, done, overlap>>

KillWaited(c) ==
  /\ At(c, "kill", "waiting") /\ ~Alive(command[c].task)
  /\ Goes(c, "cancelled")
  /\ UNCHANGED <<harness, agent, task, work, results, done, overlap>>

(* ... signals a subprocess that is left ...                                *)
KillSignals(c) ==
  /\ At(c, "kill", "cancelled")
  /\ task' = IF LiveProc(command[c].of) = 0 THEN task ELSE Signalled(task, LiveProc(command[c].of))
  /\ Goes(c, "telling")
  /\ UNCHANGED <<harness, agent, work, results, done, overlap>>

(* ... and takes the agent out of the table after two broadcasts.           *)
KillPops(c) ==
  /\ At(c, "kill", "telling")
  /\ agent' = [agent EXCEPT ![command[c].of].listed = FALSE]
  /\ Ends(c)
  /\ UNCHANGED <<harness, task, work, results, done, overlap>>

(* _confirm_skill_done releases the clients of every agent of the skill.    *)
Released(S) == [a \in Agents |-> IF a \in S THEN [agent[a] EXCEPT !.exit = TRUE] ELSE agent[a]]

(* confirm_done, up to the first await of the task that marks the entry.    *)
ConfirmCalled ==
  \E a \in Listed :
    /\ Called([NoCommand EXCEPT !.op = "confirm"], {a}, FALSE)
    /\ agent' = [Released(Listed) EXCEPT ![a].status = "confirmed_done"]
    /\ done' = TRUE
    /\ UNCHANGED <<harness, task, work, results>>

-----------------------------------------------------------------------------
(* The tasks.                                                               *)
Is(t, pc) == task[t].pc = pc /\ task[t].cancel = "no"
Runner(t) == task[t].kind = "runner"

TaskBegins(t) ==
  LET a == task[t].of IN
  /\ Is(t, "new")
  /\ task' = [task EXCEPT ![t].pc = IF SDK /\ ~Runner(t) THEN "turn" ELSE "launch"]
  /\ agent' = IF SDK /\ Runner(t) THEN [agent EXCEPT ![a].client = "made"] ELSE agent
  /\ UNCHANGED <<harness, work, results, command, done, overlap>>

(* The client is connected, or the subprocess runs: whatever the status     *)
(* was, the agent is running now.                                           *)
Launched(t) ==
  LET a == task[t].of IN
  /\ Is(t, "launch")
  /\ task' = [task EXCEPT ![t].pc = IF SDK THEN "turn" ELSE "telling",
                          ![t].proc = IF SDK THEN "none" ELSE "live"]
  /\ agent' = [agent EXCEPT ![a].status = "running",
                            ![a].client = IF SDK THEN "open" ELSE @,
                            ![a].proc = IF SDK THEN 0 ELSE t]
  /\ work' = IF SDK THEN [work EXCEPT ![a] = Append(@, FALSE)] ELSE work
  /\ UNCHANGED <<harness, results, command, done, overlap>>

LaunchFails(t) ==
  /\ Is(t, "launch")
  /\ task' = Over(task, t)
  /\ agent' = IF SDK THEN [agent EXCEPT ![task[t].of].status = "error",
                                        ![task[t].of].client = "closed"] ELSE agent
  /\ UNCHANGED <<harness, work, results, command, done, overlap>>

(* The broadcast between create_subprocess_exec and the try block.          *)
Told(t) ==
  /\ Is(t, "telling")
  /\ task' = [task EXCEPT ![t].pc = "turn"]
  /\ UNCHANGED <<harness, agent, work, results, command, done, overlap>>

(* Claude finishes a query; the subprocess exits by itself or on SIGINT.    *)
WorkEnds(a) ==
  /\ agent[a].client = "open" /\ work[a] # <<>>
  /\ results' = [results EXCEPT ![a] = Append(@, Head(work[a]))]
  /\ work' = [work EXCEPT ![a] = Tail(@)]
  /\ UNCHANGED <<harness, agent, task, command, done, overlap>>

ProcExits(t) ==
  /\ task[t].proc \in {"live", "signalled"}
  /\ task' = [task EXCEPT ![t].proc = "dead"]
  /\ UNCHANGED <<harness, agent, work, results, command, done, overlap>>

(* Task t leaves in task array T and agents A, with status st for its own:  *)
(* a runner with a client keeps it open for a resting agent, or closes it. *)
Leaves(t, T, A, st) ==
  LET a == task[t].of
      rests == SDK /\ Runner(t) /\ st \in {"paused", "done", "confirmed_done"}
  IN /\ task' = IF rests THEN [T EXCEPT ![t].pc = "rest", ![t].interrupted = FALSE] ELSE Over(T, t)
     /\ agent' = [A EXCEPT ![a].status = st,
                           ![a].client = IF SDK /\ Runner(t) /\ ~rests THEN "closed" ELSE @]

BuggyResolve(t, T, st) ==   \* whatever the status is
  /\ task' = [T EXCEPT ![t].pc = "judge"]
  /\ agent' = [agent EXCEPT ![task[t].of].status = "done"]

(* _resolve_completion, when the status is st.                              *)
Resolve(t, T, st) ==
  IF st # "running" THEN Leaves(t, T, agent, st)
  ELSE IF done THEN Leaves(t, T, agent, "confirmed_done")
  ELSE /\ task' = [T EXCEPT ![t].pc = "judge"]
       /\ agent' = [agent EXCEPT ![task[t].of].status = "done"]

(* _consume_sdk_response receives a result: of an agent that was killed it  *)
(* is thrown away, any other ends the turn, in an error or not.             *)
ResultReceived(t) ==
  LET a == task[t].of
      T == [task EXCEPT ![t].interrupted = Head(results[a])]
  IN /\ SDK /\ Is(t, "turn") /\ results[a] # <<>>
     /\ results' = [results EXCEPT ![a] = Tail(@)]
     /\ IF agent[a].status = "stopped"
        THEN Leaves(t, T, agent, "stopped")
        ELSE Leaves(t, T, agent, "error") \/ Resolve(t, T, agent[a].status)
     /\ UNCHANGED <<harness, work, command, done, overlap>>

(* No message for SDK_IDLE_TIMEOUT_S, or the client was closed under the    *)
(* task, which then ends in an exception or as if the turn was complete.    *)
NoResult(t) ==
  LET a == task[t].of IN
  /\ SDK /\ Is(t, "turn") /\ results[a] = <<>>
  /\ \/ Leaves(t, task, agent, "error")
     \/ agent[a].status = "stopped" /\ Leaves(t, task, agent, "stopped")
     \/ agent[a].client = "closed" /\ (Resolve(t, task, agent[a].status)
                                       \/ Leaves(t, task, agent, agent[a].status))
  /\ UNCHANGED <<harness, work, results, command, done, overlap>>

(* communicate() returns: without an envelope the status is "error",        *)
(* whatever it was.                                                         *)
SubprocessOver(t) ==
  /\ Is(t, "turn") /\ task[t].proc = "dead"
  /\ Leaves(t, task, agent, "error") \/ Resolve(t, task, agent[task[t].of].status)
  /\ UNCHANGED <<harness, work, results, command, done, overlap>>

(* The evaluation is over: the agent rests, paused if no root agent and no  *)
(* autonomous mode goes on, or, with a client, is asked to go on in a task  *)
(* of its own; asking a client that was closed meanwhile raises.            *)
Judged(t) ==
  LET a  == task[t].of
      st == agent[a].status
  IN /\ Is(t, "judge")
     /\ \/ \E rest \in {st} \cup (IF st = "done" THEN {"paused"} ELSE {}) :
             /\ \/ Leaves(t, task, agent, rest) /\ UNCHANGED done
                \/ Leaves(t, task, Released({a}), rest) /\ UNCHANGED done   \* to be tested
                \/ Leaves(t, task, Released(Listed), rest) /\ done' = TRUE  \* promoted
             /\ UNCHANGED work
        \/ /\ SDK /\ st \in {"done", "paused"} /\ agent[a].client = "closed"
           /\ Leaves(t, task, agent, "running")
           /\ UNCHANGED <<work, done>>
        \/ /\ SDK /\ st \in {"done", "paused"} /\ agent[a].client = "open" /\ Unused # {}
           /\ work' = [work EXCEPT ![a] = Append(@, FALSE)]
           /\ task' = Over(Created(task, a, "retry"), t)
           /\ agent' = [agent EXCEPT ![a].status = "running", ![a].task = NextTask,
                                     ![a].client = IF Runner(t) THEN "closed" ELSE @]
           /\ UNCHANGED done
     /\ UNCHANGED <<harness, results, command, overlap>>

(* exit_event is set: the runner leaves, and closes its client.             *)
RestEnds(t) ==
  /\ Is(t, "rest") /\ agent[task[t].of].exit
  /\ task' = Over(task, t)
  /\ agent' = [agent EXCEPT ![task[t].of].client = "closed"]
  /\ UNCHANGED <<harness, work, results, command, done, overlap>>

(* wait_for's DEV_AGENT_TIMEOUT.                                            *)
FourHours(t) ==
  /\ Runner(t) /\ task[t].pc \in {"turn", "judge", "rest"} /\ task[t].cancel = "no"
  /\ task' = [task EXCEPT ![t].cancel = "timeout"]
  /\ UNCHANGED <<harness, agent, work, results, command, done, overlap>>

(* CancelledError reaches the task.  An SDK runner swallows it and closes   *)
(* its client; the turn of a subprocess signals it and waits for its end.   *)
Cancelled(t) ==
  LET a == task[t].of IN
  /\ task[t].cancel # "no" /\ Alive(t)
  /\ IF SDK /\ Runner(t) /\ task[t].pc # "new"
     THEN /\ task' = Over(task, t)
          /\ agent' = [agent EXCEPT ![a].status = "stopped", ![a].client = "closed"]
     ELSE IF ~SDK /\ task[t].pc = "turn"
     THEN /\ task' = [Signalled(task, t) EXCEPT ![t].pc = "reaping"]
          /\ UNCHANGED agent
     ELSE /\ task[t].pc = "reaping" => task[t].proc = "dead" \/ task[t].cancel = "again"
          /\ task' = Over(task, t)
          /\ agent' = IF task[t].cancel = "timeout"
                      THEN [agent EXCEPT ![a].status = "failed"] ELSE agent
  /\ overlap' = (overlap \/ (task[t].cancel = "timeout" /\ TasksOf(a) # {t}))
  /\ UNCHANGED <<harness, work, results, command, done>>

-----------------------------------------------------------------------------
Init ==
  /\ harness \in Harnesses
  /\ agent = [a \in Agents |-> NoAgent]
  /\ task = [t \in Tasks |-> NoTask]
  /\ work = [a \in Agents |-> <<>>]
  /\ results = [a \in Agents |-> <<>>]
  /\ command = [c \in Commands |-> NoCommand]
  /\ done = FALSE
  /\ overlap = FALSE

CommandStep(c) ==
  \/ StopReturns(c)
  \/ SpawnClears(c) \/ SpawnStopped(c) \/ SpawnInserts(c) \/ SpawnStarts(c)
  \/ HintInterrupts(c) \/ HintStarts(c)
  \/ KillCancels(c) \/ KillWaited(c) \/ KillSignals(c) \/ KillPops(c)

TaskStep(t) ==
  \/ TaskBegins(t) \/ Launched(t) \/ LaunchFails(t) \/ Told(t)
  \/ ResultReceived(t) \/ NoResult(t) \/ SubprocessOver(t)
  \/ Judged(t) \/ RestEnds(t) \/ Cancelled(t)

Next ==
  \/ SpawnCalled \/ StopCalled \/ HintCalled \/ KillCalled \/ ConfirmCalled
  \/ \E c \in Commands : CommandStep(c)
  \/ \E t \in Tasks : TaskStep(t) \/ ProcExits(t) \/ FourHours(t)
  \/ \E a \in Agents : WorkEnds(a)

Spec == Init /\ [][Next]_vars

(* The event loop runs every coroutine that can go on; a turn of the SDK    *)
(* ends by the idle timeout, one of openclaw by the --timeout it is started *)
(* with, or by SIGKILL.  The four hours are not needed.                     *)
Fairness ==
  /\ \A c \in Commands : WF_vars(CommandStep(c))
  /\ \A t \in Tasks : WF_vars(TaskStep(t)) /\ WF_vars(ProcExits(t))

FairSpec == Spec /\ Fairness

-----------------------------------------------------------------------------
(* Agents, tasks and clients keep to their types; an unused task is blank,  *)
(* and every other belongs to an agent that was made.                       *)
SessionTypeOK ==
  /\ \A a \in Agents : agent[a].task \in {0} \cup Tasks /\ agent[a].proc \in {0} \cup Tasks
  /\ \A t \in Tasks : IF task[t].pc = "none" THEN task[t] = NoTask ELSE task[t].of \in Made
  /\ \A a \in Agents : work[a] \in Seq(BOOLEAN) /\ results[a] \in Seq(BOOLEAN)

(* A client with a query that nobody interrupted, unless its runner is on   *)
(* its way out.                                                             *)
Querying(a) ==
  /\ agent[a].client = "open"
  /\ \E i \in 1..Len(work[a]) : ~work[a][i]
  /\ \A t \in TasksOf(a) : task[t].pc = "rest" => ~agent[a].exit

(* While commands come one at a time, meet no agent that is starting and    *)
(* every interrupt reaches its client, no two agents develop the skill: a   *)
(* new one never works beside the one it replaces, whatever that one is     *)
(* doing (agent_orchestrator.py:1697).  An interrupt that fails is part of  *)
(* `overlap`: stop_agent swallows it (3169), spawn_agent takes the agent    *)
(* out of the table, and its query goes on beside the new one.              *)
OneTurn ==
  ~overlap =>
    /\ Cardinality({a \in Agents : Querying(a)}) <= 1
    /\ Cardinality({t \in Tasks : task[t].proc = "live"}) <= 1

(* A turn that stop_agent interrupted is never taken for a finished one and *)
(* evaluated, unless a hint set the agent to running again                  *)
(* (agent_orchestrator.py:3157).                                            *)
StopIsNoAnswer ==
  \A t \in Tasks : task[t].pc = "judge" /\ task[t].interrupted => agent[task[t].of].hinted

(* A subprocess that no task waits for any more has been told to end, also  *)
(* when the cancellation came between its start and the try block.  A kill  *)
(* that is not over yet may still owe the signal; and of an agent that was  *)
(* hinted, a subprocess whose place in the AgentState a later turn took.    *)
OrphansSignalled ==
  \A t \in Tasks :
    task[t].proc = "live" /\ ~Alive(t) =>
      \/ \E c \in Commands : command[c].op = "kill" /\ command[c].of = task[t].of
                             /\ command[c].pc # "over"
      \/ agent[task[t].of].hinted /\ agent[task[t].of].proc # t

(* What the code does not keep: kill_agent, which is to fully terminate an  *)
(* agent (agent_orchestrator.py:3184), tells only the task and subprocess   *)
(* the AgentState knows.  A turn that a hint superseded works on, untold.   *)
KillTells ==
  \A c \in Commands : At(c, "kill", "telling") =>
    \A t \in Tasks : task[t].of = command[c].of /\ task[t].proc = "live" => agent[command[c].of].proc = t

(* An agent that was taken out of the table leaves for good, within its     *)
(* idle time: no task, no client and no subprocess of it is left.           *)
AgentsLeave ==
  \A a \in Agents :
    (agent[a].status # "none" /\ ~agent[a].listed)
      ~> (TasksOf(a) = {} /\ agent[a].client \notin {"made", "open"}
          /\ \A t \in Tasks : task[t].of = a => task[t].proc \in {"none", "dead"})

=============================================================================
