------------------------ MODULE SkillPipelineProofs ------------------------
(***************************************************************************)
(* Proofs about SkillPipeline, for every graph, harness, number of targets *)
(* and of agents, retry limit and set of faults and commands: the types,   *)
(* the dependency gate, the review gate, the ownership of _spawn_lock and  *)
(* of the spawns under way, and that the pipeline implements               *)
(* DependencyOrder.                                                        *)
(***************************************************************************)
EXTENDS SkillPipeline, TLAPS

(* Every agent (every test loop) that is not free belongs to a known skill. *)
AgentsFit(ag, known) ==
  /\ ag \in [Agents -> AgentRecord]
  /\ \A a \in Agents : ag[a].pc # "free" => ag[a].skill \in known
LoopsFit(lp, known) ==
  /\ lp \in [Loops -> LoopRecord]
  /\ \A l \in Loops : lp[l].pc # "free" => lp[l].skill \in known

Known == started \cup handled

(* A spawn that a pass or a test loop awaits is of an agent that has no     *)
(* task yet, and one caller awaits it.                                      *)
Awaits(l) == loop[l].pc = "respawned" /\ loop[l].dev # "none"
SpawnsAwaited ==
  /\ spawner.owner # "none" => spawner.dev \in Agents /\ agent[spawner.dev].pc = "spawned"
  /\ \A l \in Loops :
       /\ loop[l].dev = "none" \/ loop[l].pc \in {"respawned", "waiting"}
       /\ Awaits(l) =>
            /\ agent[loop[l].dev].pc = "spawned"
            /\ spawner.owner # "none" => loop[l].dev # spawner.dev
            /\ \A k \in Loops \ {l} : Awaits(k) => loop[k].dev # loop[l].dev

(* The inductive invariant: TypeOK and GateInv, cut by variable, as an      *)
(* action disturbs only some of the parts; and CallersOK, because a spawn   *)
(* that returns gives a task to the agent its caller remembers, and a pass  *)
(* that ends moves its owner on: both must still be there.                  *)
EntriesOK  == entry \in [Skills -> EntryStatus] /\ DoneSkills \subseteq finished
AgentsOK   == AgentsFit(agent, Known)
LoopsOK    == LoopsFit(loop, Known)
PassOK     == spawner \in PassRecord /\ PassIsCovered
CountersOK == /\ testAttempts \in [Skills -> Nat]
              /\ evalAttempts \in [Skills -> Nat]
              /\ inTestLoop \subseteq Skills
              /\ devMode \in BOOLEAN
              /\ zombie \subseteq Skills
              /\ pendingPasses \in Nat
              /\ commands \in 0..MaxCommands
HistoryOK  == /\ started \subseteq Skills
              /\ handled \subseteq Skills
              /\ approved \subseteq Skills
              /\ finished \subseteq Skills
              /\ DependencyGate
              /\ Autonomous \/ finished \subseteq Reused \cup approved
CallersOK  == SpawnsAwaited /\ SpawnLockOwned
IInv == EntriesOK /\ AgentsOK /\ LoopsOK /\ PassOK /\ CountersOK /\ HistoryOK /\ CallersOK

(* The eval locks play no part in it, which lets it hold beside another     *)
(* holder of theirs; that agents hold them is an invariant on top of it.    *)
LocksOK == evalLock \in [Skills -> Agents \cup {"none"}]

(* The parts add up to what the runs check, plus the callers' memory.       *)
LEMMA IInvIsEnough == IInv /\ LocksOK <=> TypeOK /\ GateInv /\ CallersOK
BY DEF IInv, LocksOK, EntriesOK, AgentsOK, LoopsOK, PassOK, CountersOK, HistoryOK, AgentsFit,
       LoopsFit, Known, TypeOK, GateInv, AgentsKnown, LoopsKnown

-----------------------------------------------------------------------------
(* Lemmas about the records of agents and loops.                            *)

(* A slot is freed or keeps its skill.                                      *)
LEMMA SettledOK ==
  ASSUME NEW r \in AgentRecord
  PROVE  /\ Settled(r) \in AgentRecord
         /\ Settled(r) = NoAgent \/ Settled(r).skill = r.skill
BY ConfigAssumption DEF Settled, NoAgent, AgentRecord, TaskPc, AgentStatus, Untargeted

(* The record of a free slot.                                               *)
LEMMA NoAgentOK == NoAgent \in AgentRecord /\ NoAgent.pc = "free"
BY ConfigAssumption DEF NoAgent, AgentRecord, TaskPc, AgentStatus, Untargeted

(* The record of a loop slot nobody uses.                                   *)
LEMMA NoLoopOK == NoLoop \in LoopRecord /\ NoLoop.pc = "free"
BY ConfigAssumption DEF NoLoop, LoopRecord, LoopPc

(* The record of _spawn_lock when it is free.                               *)
LEMMA NoPassOK == NoPass \in PassRecord /\ NoPass.owner = "none"
BY ConfigAssumption DEF NoPass, PassRecord, Skills, Targets

(* The test loop's next attempt is of the same skill, or there is none.     *)
LEMMA NextAttemptOK ==
  ASSUME NEW s \in Skills, NEW n \in Nat
  PROVE  /\ NextAttempt(s, n) \in LoopRecord
         /\ NextAttempt(s, n) # NoLoop => NextAttempt(s, n).skill = s
BY NoLoopOK, ConfigAssumption DEF NextAttempt, LoopRecord, LoopPc, Skills

(* One agent may change into any record of a known skill.                   *)
LEMMA AgentReplaced ==
  ASSUME NEW ag, NEW known, AgentsFit(ag, known), NEW a \in Agents,
         NEW r \in AgentRecord, r = NoAgent \/ r.skill \in known
  PROVE  AgentsFit([ag EXCEPT ![a] = r], known)
BY NoAgentOK DEF AgentsFit

(* An agent that keeps its skill, or frees its slot, still fits.            *)
LEMMA SameSkill ==
  ASSUME NEW ag, NEW known, AgentsFit(ag, known), NEW a \in Agents, ag[a].pc # "free",
         NEW r \in AgentRecord, r = NoAgent \/ r.skill = ag[a].skill
  PROVE  AgentsFit([ag EXCEPT ![a] = r], known)
BY AgentReplaced DEF AgentsFit

(* Closing a client yields a client state.                                  *)
LEMMA ClosedOK ==
  ASSUME NEW r \in AgentRecord
  PROVE  Closed(r.client) \in {"none", "open", "closed"}
BY DEF Closed, AgentRecord

(* One loop may change into any record of a known skill.                    *)
LEMMA LoopReplaced ==
  ASSUME NEW lp, NEW known, LoopsFit(lp, known), NEW l \in Loops,
         NEW r \in LoopRecord, r = NoLoop \/ r.skill \in known
  PROVE  LoopsFit([lp EXCEPT ![l] = r], known)
BY NoLoopOK DEF LoopsFit

(* More known skills do no harm to the agents.                              *)
LEMMA FitGrows ==
  ASSUME NEW ag, NEW known, NEW more, known \subseteq more, AgentsFit(ag, known)
  PROVE  AgentsFit(ag, more)
BY DEF AgentsFit

(* More known skills do no harm to the loops.                               *)
LEMMA LoopFitGrows ==
  ASSUME NEW lp, NEW known, NEW more, known \subseteq more, LoopsFit(lp, known)
  PROVE  LoopsFit(lp, more)
BY DEF LoopsFit

(* A spawn keeps the agents fitting once its skill is known.                *)
LEMMA WithSpawnFits ==
  ASSUME NEW ag, NEW known, AgentsFit(ag, known), NEW a \in Agents,
         NEW s \in known \cap Skills, NEW t \in 0..NumTargets
  PROVE  AgentsFit(WithSpawn(ag, a, s, t), known)
<1> DEFINE fresh == [NoAgent EXCEPT !.skill = s, !.target = t, !.status = "starting",
                                  !.pc = "spawned", !.listed = TRUE]
           former(b) == [ag[b] EXCEPT !.status = IF @ \in ActiveStatus THEN "paused" ELSE @,
                                   !.exit = TRUE, !.listed = FALSE]
<1>1. fresh \in AgentRecord /\ fresh.skill = s
  <2>1. s \in 0..NumSkills
    BY ConfigAssumption DEF Skills
  <2> QED
    BY <2>1, NoAgentOK DEF AgentRecord, TaskPc, AgentStatus
<1>2. ASSUME NEW b \in Agents
      PROVE  former(b) \in AgentRecord /\ former(b).skill = ag[b].skill /\ former(b).pc = ag[b].pc
  <2> DEFINE st == IF ag[b].status \in ActiveStatus THEN "paused" ELSE ag[b].status
  <2>1. ag[b] \in AgentRecord
    BY DEF AgentsFit
  <2>2. st \in AgentStatus
    BY <2>1 DEF AgentRecord, AgentStatus
  <2>3. former(b) = [ag[b] EXCEPT !.status = st, !.exit = TRUE, !.listed = FALSE]
    OBVIOUS
  <2> HIDE DEF st, former
  <2> QED
    BY <2>1, <2>2, <2>3 DEF AgentRecord
<1>3. ASSUME NEW b \in Agents
      PROVE  /\ Settled(former(b)) \in AgentRecord
             /\ Settled(former(b)) = NoAgent \/ Settled(former(b)).skill = ag[b].skill
             /\ Settled(former(b)).pc # "free" => ag[b].pc # "free"
  BY <1>2, SettledOK, NoAgentOK DEF Settled
<1> HIDE DEF fresh, former
<1>4. WithSpawn(ag, a, s, t) =
        [b \in Agents |->
           IF b = a THEN fresh
           ELSE IF ag[b].listed /\ ag[b].skill = s /\ ag[b].target = t
                THEN Settled(former(b)) ELSE ag[b]]
  BY DEF WithSpawn, fresh, former
<1> QED
  BY <1>1, <1>3, <1>4, NoAgentOK DEF AgentsFit

(* The slot that is chosen is one of the free ones.                         *)
LEMMA SlotOK == ASSUME NEW s, NEW t, Slots(s, t) # {} PROVE Slot(s, t) \in Slots(s, t)
BY DEF Slot

(* A spawn takes its slot and leaves the tasks of all other agents alone.   *)
LEMMA WithSpawnKeeps ==
  ASSUME NEW ag, NEW known, AgentsFit(ag, known), NEW x \in Agents, NEW s, NEW t
  PROVE  LET new == WithSpawn(ag, x, s, t) IN
         /\ new[x].pc = "spawned"
         /\ \A b \in Agents \ {x} :
              ag[b].pc \in {"spawned", "confirming"} => new[b].pc = ag[b].pc
BY NoAgentOK DEF WithSpawn, Settled, NoAgent, AgentsFit, AgentRecord

(* Setting exit events keeps the agents fitting.                            *)
LEMMA ReleasedFits ==
  ASSUME NEW ag, NEW known, AgentsFit(ag, known), NEW s
  PROVE  AgentsFit(Released(ag, s), known)
BY DEF AgentsFit, Released, AgentRecord

(* Creating the task of a spawned agent keeps the agents fitting.           *)
LEMMA WithTaskFits ==
  ASSUME NEW ag, NEW known, AgentsFit(ag, known), NEW a \in Agents, ag[a].pc # "free"
  PROVE  AgentsFit(WithTask(ag, a), known)
BY DEF AgentsFit, WithTask, AgentRecord, TaskPc

-----------------------------------------------------------------------------
(* Init and the actions.                                                    *)

(* The program starts in the invariant.                                     *)
LEMMA InitOK == Init => IInv
<1> SUFFICES ASSUME Init PROVE IInv
  OBVIOUS
<1>1. EntriesOK
  BY ConfigAssumption DEF Init, EntriesOK, EntryStatus, DoneSkills
<1>2. AgentsOK /\ LoopsOK
  BY NoAgentOK, NoLoopOK DEF Init, AgentsOK, LoopsOK, AgentsFit, LoopsFit
<1>3. PassOK
  BY NoPassOK DEF Init, PassOK, PassIsCovered
<1>4. CountersOK
  BY ConfigAssumption DEF Init, CountersOK
<1>5. HistoryOK
  BY ConfigAssumption DEF Init, HistoryOK, DependencyGate
<1>6. CallersOK
  BY DEF Init, CallersOK, SpawnsAwaited, SpawnLockOwned, Awaits, NoPass, NoLoop
<1> QED
  BY <1>1, <1>2, <1>3, <1>4, <1>5, <1>6 DEF IInv

(* What a step leaves alone keeps its part of the invariant.                *)
LEMMA EntriesKeep == EntriesOK /\ entry' = entry /\ finished \subseteq finished' => EntriesOK'
BY DEF EntriesOK, DoneSkills

(* An entry may take any status, done only once it was finished.            *)
LEMMA EntrySet ==
  ASSUME EntriesOK, NEW s \in Skills, NEW status \in EntryStatus,
         entry' = [entry EXCEPT ![s] = status], finished \subseteq finished',
         status = "done" => s \in finished'
  PROVE  EntriesOK'
BY DEF EntriesOK, DoneSkills

(* What a step leaves alone, for the agents.                                *)
LEMMA AgentsKeep == AgentsOK /\ agent' = agent /\ Known \subseteq Known' => AgentsOK'
BY DEF AgentsOK, AgentsFit

(* What a step leaves alone, for the loops.                                 *)
LEMMA LoopsKeep == LoopsOK /\ loop' = loop /\ Known \subseteq Known' => LoopsOK'
BY DEF LoopsOK, LoopsFit

(* A pass keeps its snapshot while finished skills only grow.               *)
LEMMA PassKeep == PassOK /\ spawner' = spawner /\ finished \subseteq finished' => PassOK'
BY DEF PassOK, PassIsCovered

(* A step without a start or an approval keeps the history.                 *)
LEMMA HistoryKeep ==
  HistoryOK /\ UNCHANGED history => HistoryOK' /\ Known' = Known /\ finished' = finished
BY DEF HistoryOK, history, Known, DependencyGate

(* Autonomous mode finishes a skill.                                        *)
LEMMA HistoryPromotes ==
  ASSUME HistoryOK, UNCHANGED <<started, handled, approved>>, NEW s \in Skills,
         Autonomous, finished' = finished \cup {s}
  PROVE  HistoryOK' /\ Known' = Known /\ finished \subseteq finished' /\ s \in finished'
BY DEF HistoryOK, Known, DependencyGate

(* A human finishes a skill.                                                *)
LEMMA HistoryApproves ==
  ASSUME HistoryOK, started' = started, NEW s \in Skills, handled' = handled \cup {s},
         approved' = approved \cup {s}, finished' = finished \cup {s}
  PROVE  /\ HistoryOK' /\ Known \subseteq Known' /\ finished \subseteq finished'
         /\ s \in finished'
BY DEF HistoryOK, Known, DependencyGate

(* A step that leaves the awaited agents and the owner of a pass where they *)
(* are, and the test loops that await a spawn or a pass as well.            *)
AgentsStay == \A x \in Agents : agent[x].pc \in {"spawned", "confirming"} => agent'[x].pc = agent[x].pc
LoopsStay  == \A k \in Loops :
                loop'[k] = loop[k] \/ (loop'[k].dev = "none" /\ loop[k].pc # "promoting")

(* What no step touched stays for the callers.                              *)
LEMMA Unmoved == (agent' = agent => AgentsStay) /\ (loop' = loop => LoopsStay)
BY DEF AgentsStay, LoopsStay

(* Callers keep what they await when spawned agents and owners stay.        *)
LEMMA CallersKeep ==
  ASSUME IInv, spawner' \in {spawner, NoPass},
         LoopsStay, AgentsStay
  PROVE  CallersOK'
<1>1. SpawnsAwaited'
  BY NoPassOK DEF IInv, CallersOK, SpawnsAwaited, Awaits, LoopsOK, LoopsFit, LoopRecord, AgentsStay, LoopsStay
<1>2. SpawnLockOwned'
  BY NoPassOK DEF IInv, CallersOK, SpawnLockOwned, SpawnsAwaited, AgentsStay, LoopsStay
<1> QED
  BY <1>1, <1>2 DEF CallersOK

(* The skill of an agent, or of a test loop, that is not free.              *)
LEMMA AgentSkill ==
  ASSUME IInv, NEW a \in Agents, agent[a].pc # "free"
  PROVE  agent[a] \in AgentRecord /\ agent[a].skill \in Known /\ agent[a].skill \in Skills
BY DEF IInv, AgentsOK, AgentsFit, Known, HistoryOK

(* The skill of a test loop that runs is known.                             *)
LEMMA LoopSkill ==
  ASSUME IInv, NEW l \in Loops, loop[l].pc # "free"
  PROVE  loop[l] \in LoopRecord /\ loop[l].skill \in Known /\ loop[l].skill \in Skills
BY DEF IInv, LoopsOK, LoopsFit, Known, HistoryOK

(* A step that changes nothing but the agents.                              *)
LEMMA AgentStepOK ==
  ASSUME IInv, AgentsFit(agent', Known), CallersOK',
         UNCHANGED <<entry, testAttempts, evalAttempts, inTestLoop, devMode, commands,
                     evalLock, zombie, spawner, pendingPasses, loop, history>>
  PROVE  IInv'
<1>1. HistoryOK' /\ Known' = Known /\ finished' = finished
  BY HistoryKeep DEF IInv
<1>2. EntriesOK' /\ LoopsOK' /\ PassOK'
  BY <1>1, EntriesKeep, LoopsKeep, PassKeep DEF IInv
<1>3. AgentsOK' /\ CountersOK'
  BY <1>1 DEF IInv, AgentsOK, CountersOK
<1> QED
  BY <1>1, <1>2, <1>3 DEF IInv

(* An agent that is neither spawned nor confirming may move freely.         *)
LEMMA SpawnedKeep ==
  ASSUME IInv, NEW a \in Agents, agent[a].pc \notin {"spawned", "confirming"}, NEW r,
         agent' = [agent EXCEPT ![a] = r]
  PROVE  AgentsStay
BY DEF AgentsStay, IInv, AgentsOK, AgentsFit

(* Preservation: a task is created.                                         *)
LEMMA TaskCreatedOK == ASSUME IInv, NEW a \in Agents, TaskCreated(a) PROVE IInv'
<1>1. agent[a].pc # "free" /\ agent' = WithTask(agent, a)
  BY DEF TaskCreated
<1>2. AgentsFit(agent', Known)
  BY <1>1, WithTaskFits DEF IInv, AgentsOK
<1>3. \A x \in Agents : x # a => agent'[x] = agent[x]
  BY <1>1 DEF WithTask, IInv, AgentsOK, AgentsFit
<1>4. CallersOK'
  BY <1>3 DEF TaskCreated, IInv, CallersOK, SpawnsAwaited, SpawnLockOwned, Awaits, LoopsOK,
              LoopsFit, LoopRecord
<1> QED
  BY <1>2, <1>4, AgentStepOK DEF TaskCreated, history

(* Preservation: a runner starts.                                           *)
LEMMA RunnerStartsOK == ASSUME IInv, NEW a \in Agents, RunnerStarts(a) PROVE IInv'
<1> DEFINE r == [agent[a] EXCEPT !.pc = "working", !.status = "running",
                                 !.client = IF Harness = "sdk" THEN "open" ELSE "none"]
<1>1. agent[a] \in AgentRecord /\ agent[a].pc = "starting"
  BY DEF RunnerStarts, IInv, AgentsOK, AgentsFit
<1>2. r \in AgentRecord /\ r.skill = agent[a].skill
  BY <1>1 DEF AgentRecord, TaskPc, AgentStatus
<1>3. agent' = [agent EXCEPT ![a] = r]
  BY DEF RunnerStarts
<1> HIDE DEF r
<1>4. AgentsFit(agent', Known)
  BY <1>1, <1>2, <1>3, AgentReplaced DEF IInv, AgentsOK, AgentsFit
<1>5. CallersOK'
  BY <1>3, SpawnedKeep, CallersKeep, Unmoved DEF RunnerStarts
<1> QED
  BY <1>4, <1>5, AgentStepOK DEF RunnerStarts, history

(* Preservation: a runner fails.                                            *)
LEMMA RunnerFailsOK == ASSUME IInv, NEW a \in Agents, RunnerFails(a) PROVE IInv'
<1>1. agent[a] \in AgentRecord /\ agent[a].pc # "free"
  BY DEF RunnerFails, IInv, AgentsOK, AgentsFit
<1>2. PICK status \in {"error"} \cup (IF agent[a].client = "closed" THEN {agent[a].status} ELSE {}) :
        agent' = [agent EXCEPT ![a] = Settled([agent[a] EXCEPT !.status = status, !.pc = "gone",
                                                   !.client = Closed(agent[a].client)])]
  BY DEF RunnerFails
<1> DEFINE q == [agent[a] EXCEPT !.status = status, !.pc = "gone",
                                 !.client = Closed(agent[a].client)]
<1>3. status \in AgentStatus
  BY <1>1, <1>2 DEF AgentRecord, AgentStatus
<1>4. q \in AgentRecord /\ q.skill = agent[a].skill
  BY <1>1, <1>3, ClosedOK DEF AgentRecord, TaskPc
<1>5. agent' = [agent EXCEPT ![a] = Settled(q)]
  BY <1>2
<1> HIDE DEF q
<1>6. AgentsFit(agent', Known)
  BY <1>1, <1>4, <1>5, SettledOK, SameSkill DEF IInv, AgentsOK
<1>7. CallersOK'
  BY <1>5, SpawnedKeep, CallersKeep, Unmoved DEF RunnerFails
<1> QED
  BY <1>6, <1>7, AgentStepOK DEF RunnerFails, history

(* Preservation: the work ends.                                             *)
LEMMA WorkEndsOK == ASSUME IInv, NEW a \in Agents, WorkEnds(a) PROVE IInv'
<1> DEFINE r == agent[a]
           over(status) == [r EXCEPT !.status = status, !.pc = AfterWork(r)]
           next == [r EXCEPT !.status = "done", !.pc = "finishing"]
<1>1. r \in AgentRecord /\ r.pc # "free"
  BY DEF WorkEnds, IInv, AgentsOK, AgentsFit
<1>2. ASSUME NEW status \in AgentStatus
      PROVE  over(status) \in AgentRecord /\ over(status).skill = r.skill
  BY <1>1 DEF AfterWork, TaskPc, AgentRecord
<1>3. next \in AgentRecord /\ next.skill = r.skill
  BY <1>1 DEF TaskPc, AgentRecord, AgentStatus
<1>4. r.status \in AgentStatus /\ "confirmed_done" \in AgentStatus
      /\ RestStatus(r.skill) \in AgentStatus
  BY <1>1 DEF AgentRecord, AgentStatus, RestStatus
<1>5. PICK q : /\ agent' = [agent EXCEPT ![a] = q]
               /\ q = next \/ \E status \in AgentStatus : q = Settled(over(status))
  BY <1>4 DEF WorkEnds
<1> HIDE DEF r, over, next
<1>6. q \in AgentRecord /\ (q = NoAgent \/ q.skill = r.skill)
  BY <1>2, <1>3, <1>5, SettledOK
<1>7. AgentsFit(agent', Known)
  BY <1>1, <1>5, <1>6, SameSkill DEF IInv, AgentsOK, r
<1>8. CallersOK'
  BY <1>5, SpawnedKeep, CallersKeep, Unmoved DEF WorkEnds
<1> QED
  BY <1>7, <1>8, AgentStepOK DEF WorkEnds, history

(* Preservation: a client is left.                                          *)
LEMMA RunnerLeavesOK == ASSUME IInv, NEW a \in Agents, RunnerLeaves(a) PROVE IInv'
<1> DEFINE q == [agent[a] EXCEPT !.pc = "gone", !.client = Closed(agent[a].client)]
<1>1. agent[a] \in AgentRecord /\ agent[a].pc # "free"
  BY DEF RunnerLeaves, IInv, AgentsOK, AgentsFit
<1>2. q \in AgentRecord /\ q.skill = agent[a].skill
  BY <1>1, ClosedOK DEF AgentRecord, TaskPc
<1>3. agent' = [agent EXCEPT ![a] = Settled(q)]
  BY DEF RunnerLeaves
<1> HIDE DEF q
<1>4. AgentsFit(agent', Known)
  BY <1>1, <1>2, <1>3, SettledOK, SameSkill DEF IInv, AgentsOK
<1>5. CallersOK'
  BY <1>3, SpawnedKeep, CallersKeep, Unmoved DEF RunnerLeaves
<1> QED
  BY <1>4, <1>5, AgentStepOK DEF RunnerLeaves, history

(* Preservation: an agent is stopped.                                       *)
LEMMA StopAgentOK == ASSUME IInv, NEW a \in Agents, StopAgent(a) PROVE IInv'
<1>1. agent' = [agent EXCEPT ![a].status = "paused"]
  BY DEF StopAgent
<1>2. AgentsFit(agent', Known)
  BY <1>1 DEF IInv, AgentsOK, AgentsFit, AgentRecord, AgentStatus
<1>3. commands' \in 0..MaxCommands
  BY ConfigAssumption DEF StopAgent, Given, IInv, CountersOK
<1>4. HistoryOK' /\ Known' = Known /\ finished' = finished
  BY HistoryKeep DEF StopAgent, IInv
<1>5. EntriesOK' /\ LoopsOK' /\ PassOK'
  BY <1>4, EntriesKeep, LoopsKeep, PassKeep DEF StopAgent, IInv
<1>6. AgentsOK' /\ CountersOK'
  BY <1>2, <1>3, <1>4 DEF StopAgent, IInv, AgentsOK, CountersOK
<1>7. AgentsStay
  BY <1>1 DEF AgentsStay, IInv, AgentsOK, AgentsFit
<1>8. CallersOK'
  BY <1>7, CallersKeep, Unmoved DEF StopAgent
<1> QED
  BY <1>4, <1>5, <1>6, <1>8 DEF IInv

(* Preservation: an evaluation is queued.                                   *)
LEMMA EvaluationQueuedOK == ASSUME IInv, NEW a \in Agents, EvaluationQueued(a) PROVE IInv'
<1>1. agent[a].pc # "free" /\ agent' = [agent EXCEPT ![a].pc = "queued"]
  BY DEF EvaluationQueued
<1>2. HistoryOK' /\ Known' = Known /\ finished' = finished
  BY HistoryKeep DEF EvaluationQueued, IInv
<1>3. AgentsOK'
  BY <1>1, <1>2 DEF IInv, AgentsOK, AgentsFit, AgentRecord, TaskPc
<1>4. EntriesOK'
  BY <1>1, <1>2, EntrySet, AgentSkill DEF EvaluationQueued, IInv, EntryStatus
<1>5. LoopsOK' /\ PassOK' /\ CountersOK'
  BY <1>2, LoopsKeep, PassKeep DEF EvaluationQueued, IInv, CountersOK
<1>6. AgentsStay
  BY <1>1 DEF AgentsStay, EvaluationQueued, IInv, AgentsOK, AgentsFit
<1>7. CallersOK'
  BY <1>6, CallersKeep, Unmoved DEF EvaluationQueued
<1> QED
  BY <1>2, <1>3, <1>4, <1>5, <1>7 DEF IInv

(* Preservation: an evaluator starts.                                       *)
LEMMA EvaluatorStartsOK == ASSUME IInv, NEW a \in Agents, EvaluatorStarts(a) PROVE IInv'
<1>1. agent[a].pc # "free" /\ agent' = [agent EXCEPT ![a].pc = "evaluating"]
  BY DEF EvaluatorStarts
<1>2. HistoryOK' /\ Known' = Known /\ finished' = finished
  BY HistoryKeep DEF EvaluatorStarts, IInv
<1>3. AgentsOK'
  BY <1>1, <1>2 DEF IInv, AgentsOK, AgentsFit, AgentRecord, TaskPc
<1>4. CountersOK'
  BY <1>1, AgentSkill DEF EvaluatorStarts, IInv, CountersOK
<1>5. EntriesOK' /\ LoopsOK' /\ PassOK'
  BY <1>2, EntriesKeep, LoopsKeep, PassKeep DEF EvaluatorStarts, IInv
<1>6. AgentsStay
  BY <1>1 DEF AgentsStay, EvaluatorStarts, IInv, AgentsOK, AgentsFit
<1>7. CallersOK'
  BY <1>6, CallersKeep, Unmoved DEF EvaluatorStarts
<1> QED
  BY <1>2, <1>3, <1>4, <1>5, <1>7 DEF IInv

(* Preservation: an evaluator returns.                                      *)
LEMMA EvaluatorReturnsOK ==
  ASSUME IInv, NEW a \in Agents, NEW verdict \in {"passed", "rejected"},
         EvaluatorReturns(a, verdict)
  PROVE  IInv'
<1>1. agent[a].pc # "free" /\ agent' = [agent EXCEPT ![a].pc = verdict]
  BY DEF EvaluatorReturns
<1>2. HistoryOK' /\ Known' = Known /\ finished' = finished
  BY HistoryKeep DEF EvaluatorReturns, IInv
<1>3. AgentsOK'
  BY <1>1, <1>2 DEF IInv, AgentsOK, AgentsFit, AgentRecord, TaskPc
<1>4. CountersOK'
  BY <1>1, AgentSkill DEF EvaluatorReturns, IInv, CountersOK
<1>5. EntriesOK' /\ LoopsOK' /\ PassOK'
  BY <1>2, EntriesKeep, LoopsKeep, PassKeep DEF EvaluatorReturns, IInv
<1>6. AgentsStay
  BY <1>1 DEF AgentsStay, EvaluatorReturns, IInv, AgentsOK, AgentsFit
<1>7. CallersOK'
  BY <1>6, CallersKeep, Unmoved DEF EvaluatorReturns
<1> QED
  BY <1>2, <1>3, <1>4, <1>5, <1>7 DEF IInv

(* The end of _handle_agent_done keeps the agent's skill.                   *)
LEMMA FinishedOK ==
  ASSUME NEW r \in AgentRecord
  PROVE  /\ Finished(r) \in AgentRecord
         /\ Finished(r) = NoAgent \/ Finished(r).skill = r.skill
<1> DEFINE q == [r EXCEPT !.status = IF r.status = "done" THEN RestStatus(r.skill) ELSE r.status,
                          !.pc = AfterWork(r)]
<1>1. AfterWork(r) \in TaskPc /\ RestStatus(r.skill) \in AgentStatus
  BY DEF AfterWork, RestStatus, TaskPc, AgentStatus
<1>2. q \in AgentRecord /\ q.skill = r.skill
  BY <1>1 DEF AgentRecord
<1>3. Finished(r) = Settled(q)
  BY DEF Finished
<1> HIDE DEF q
<1> QED
  BY <1>2, <1>3, SettledOK

(* A retry in session keeps the agent's skill.                              *)
LEMMA RetriedInSessionOK ==
  ASSUME NEW r \in AgentRecord
  PROVE  /\ RetriedInSession(r) \in AgentRecord
         /\ RetriedInSession(r) = NoAgent \/ RetriedInSession(r).skill = r.skill
<1> DEFINE q == [r EXCEPT !.status = "running", !.pc = "gone"]
           p == [r EXCEPT !.status = "running", !.pc = "working", !.client = "closed"]
<1>1. q \in AgentRecord /\ q.skill = r.skill
  BY DEF AgentRecord, TaskPc, AgentStatus
<1>2. p \in AgentRecord /\ p.skill = r.skill
  BY DEF AgentRecord, TaskPc, AgentStatus
<1>3. RetriedInSession(r) = p \/ RetriedInSession(r) = Settled(q)
  BY DEF RetriedInSession
<1> HIDE DEF p, q
<1> QED
  BY <1>1, <1>2, <1>3, SettledOK

(* Preservation: a rejection is handled.                                    *)
LEMMA RejectionHandledOK == ASSUME IInv, NEW a \in Agents, RejectionHandled(a) PROVE IInv'
<1> DEFINE r == agent[a]
           s == agent[a].skill
<1>1. r \in AgentRecord /\ s \in Skills /\ r.pc # "free"
  BY AgentSkill DEF RejectionHandled
<1>2. HistoryOK' /\ Known' = Known /\ finished' = finished
  BY HistoryKeep DEF RejectionHandled, IInv
<1>3. PICK q \in {Finished(r), RetriedInSession(r)} : agent' = [agent EXCEPT ![a] = q]
  BY DEF RejectionHandled, SentToReview
<1>4. PICK status \in {"writing", "failed", "review"} : entry' = [entry EXCEPT ![s] = status]
  BY DEF RejectionHandled, SentToReview
<1>5. AgentsFit(agent', Known)
  BY <1>1, <1>3, FinishedOK, RetriedInSessionOK, SameSkill DEF IInv, AgentsOK
<1>6. EntriesOK'
  BY <1>1, <1>2, <1>4, EntrySet DEF IInv, EntryStatus
<1>7. \E n \in {0, evalAttempts[s] + 1} : evalAttempts' = [evalAttempts EXCEPT ![s] = n]
  BY DEF RejectionHandled, SentToReview, IInv, CountersOK
<1>8. pendingPasses' \in Nat
  BY DEF RejectionHandled, SentToReview, IInv, CountersOK
<1>9. CountersOK'
  BY <1>1, <1>7, <1>8 DEF RejectionHandled, IInv, CountersOK
<1>10. LoopsOK' /\ PassOK' /\ AgentsOK'
  BY <1>2, <1>5, LoopsKeep, PassKeep DEF RejectionHandled, IInv, AgentsOK
<1>11. CallersOK'
  BY <1>3, SpawnedKeep, CallersKeep, Unmoved DEF RejectionHandled
<1> QED
  BY <1>2, <1>6, <1>9, <1>10, <1>11 DEF IInv

(* The three outcomes of a pass verdict.                                    *)
LEMMA PassHandledOK == ASSUME IInv, NEW a \in Agents, PassHandled(a) PROVE IInv'
<1> DEFINE r == agent[a]
           s == agent[a].skill
           n == NextAttempt(s, testAttempts[s])
<1>1. r \in AgentRecord /\ s \in Skills /\ s \in Known /\ r.pc # "free"
  BY AgentSkill DEF PassHandled
<1>2. /\ n \in LoopRecord /\ n.attempt \in Nat /\ (n # NoLoop => n.skill = s)
  BY <1>1, NextAttemptOK DEF IInv, CountersOK, LoopRecord
<1>3. [r EXCEPT !.exit = TRUE] \in AgentRecord /\ [r EXCEPT !.exit = TRUE].skill = s
  BY <1>1 DEF AgentRecord
<1>4. n.dev = "none" /\ r.pc \notin {"spawned", "confirming"}
  BY DEF NextAttempt, NoLoop, PassHandled
<1>5. CASE IsTaskRoot(s)
  <2>1. /\ agent' = [agent EXCEPT ![a] = Finished([r EXCEPT !.exit = TRUE])]
        /\ \E l \in FreeLoops : loop' = [loop EXCEPT ![l] = n]
        /\ \E status \in {"review", "testing"} : entry' = [entry EXCEPT ![s] = status]
        /\ inTestLoop' \in {inTestLoop \ {s}, inTestLoop \cup {s}}
        /\ \E k \in {testAttempts[s], n.attempt} : testAttempts' = [testAttempts EXCEPT ![s] = k]
        /\ UNCHANGED history
    BY <1>5 DEF PassHandled, history
  <2>2. HistoryOK' /\ Known' = Known /\ finished' = finished
    BY <2>1, HistoryKeep DEF IInv
  <2>3. AgentsFit(agent', Known)
    BY <1>1, <1>3, <2>1, FinishedOK, SameSkill DEF IInv, AgentsOK
  <2>4. PICK l \in FreeLoops : loop' = [loop EXCEPT ![l] = n]
    BY <2>1
  <2>5. LoopsFit(loop', Known)
    BY <1>1, <1>2, <2>4, LoopReplaced DEF FreeLoops, IInv, LoopsOK
  <2>6. EntriesOK'
    BY <1>1, <2>1, <2>2, EntrySet DEF IInv, EntryStatus
  <2>7. CountersOK'
    BY <1>1, <1>2, <2>1 DEF PassHandled, IInv, CountersOK
  <2>8. PassOK'
    BY <2>2, PassKeep DEF PassHandled, IInv
  <2>9. CallersOK'
    <3>1. AgentsStay
      BY <1>4, <2>1, SpawnedKeep
    <3>2. LoopsStay
      BY <1>4, <2>4 DEF LoopsStay, FreeLoops, NoLoop, IInv, LoopsOK, LoopsFit
    <3> QED
      BY <3>1, <3>2, CallersKeep, Unmoved DEF PassHandled
  <2> QED
    BY <2>2, <2>3, <2>5, <2>6, <2>7, <2>8, <2>9 DEF IInv, AgentsOK, LoopsOK
<1>6. CASE ~IsTaskRoot(s) /\ Autonomous
  <2>1. /\ finished' = finished \cup {s}
        /\ UNCHANGED <<started, handled, approved, loop, spawner, inTestLoop, testAttempts>>
        /\ entry' = [entry EXCEPT ![s] = "done"]
        /\ agent' = Released([agent EXCEPT ![a].pc = "confirming"], s)
    BY <1>6 DEF PassHandled
  <2>2. HistoryOK' /\ Known' = Known /\ finished \subseteq finished' /\ s \in finished'
    BY <1>1, <1>6, <2>1, HistoryPromotes DEF IInv
  <2>3. AgentsFit([agent EXCEPT ![a].pc = "confirming"], Known)
    BY <1>1 DEF IInv, AgentsOK, AgentsFit, AgentRecord, TaskPc
  <2>4. AgentsFit(agent', Known)
    BY <2>1, <2>3, ReleasedFits
  <2>5. EntriesOK'
    BY <1>1, <2>1, <2>2, EntrySet DEF IInv, EntryStatus
  <2>6. CountersOK'
    BY <1>1, <2>1 DEF PassHandled, IInv, CountersOK
  <2>7. LoopsOK' /\ PassOK'
    BY <2>1, <2>2, LoopsKeep, PassKeep DEF IInv
  <2>8. AgentsStay
    BY <1>4, <2>1 DEF AgentsStay, Released, IInv, AgentsOK, AgentsFit
  <2>9. CallersOK'
    BY <2>1, <2>8, CallersKeep, Unmoved
  <2> QED
    BY <2>2, <2>4, <2>5, <2>6, <2>7, <2>9 DEF IInv, AgentsOK
<1>7. CASE ~IsTaskRoot(s) /\ ~Autonomous
  <2>1. /\ UNCHANGED <<loop, spawner, inTestLoop, testAttempts, history>>
        /\ entry' = [entry EXCEPT ![s] = "review"]
        /\ agent' = [agent EXCEPT ![a] = Finished(r)]
    BY <1>7 DEF PassHandled, history
  <2>2. HistoryOK' /\ Known' = Known /\ finished' = finished
    BY <2>1, HistoryKeep DEF IInv
  <2>3. AgentsFit(agent', Known)
    BY <1>1, <2>1, FinishedOK, SameSkill DEF IInv, AgentsOK
  <2>4. EntriesOK'
    BY <1>1, <2>1, <2>2, EntrySet DEF IInv, EntryStatus
  <2>5. CountersOK'
    BY <1>1, <2>1 DEF PassHandled, IInv, CountersOK
  <2>6. LoopsOK' /\ PassOK'
    BY <2>1, <2>2, LoopsKeep, PassKeep DEF IInv
  <2>7. CallersOK'
    BY <1>4, <2>1, SpawnedKeep, CallersKeep, Unmoved
  <2> QED
    BY <2>2, <2>3, <2>4, <2>5, <2>6, <2>7 DEF IInv, AgentsOK
<1> QED
  BY <1>5, <1>6, <1>7

-----------------------------------------------------------------------------
(* The ground-truth test.                                                   *)

(* The loop's next attempt, or its end, preserves the invariant.            *)
LEMMA LoopGoesOnOK ==
  ASSUME IInv, UNCHANGED history, NEW l \in Loops, loop[l].pc # "free",
         NEW n \in LoopRecord, n # NoLoop => n.skill = loop[l].skill, n.dev = "none",
         loop[l].pc # "promoting", LoopGoesOn(l, n)
  PROVE  /\ LoopsOK' /\ EntriesOK'
         /\ testAttempts' \in [Skills -> Nat] /\ inTestLoop' \subseteq Skills
         /\ LoopsStay
<1>1. loop[l].skill \in Known /\ loop[l].skill \in Skills
  BY LoopSkill
<1>2. HistoryOK' /\ Known' = Known /\ finished' = finished
  BY HistoryKeep DEF IInv
<1>3. LoopsFit(loop', Known)
  BY <1>1, LoopReplaced DEF LoopGoesOn, IInv, LoopsOK
<1>4. PICK status \in {"review", "testing"} : entry' = [entry EXCEPT ![loop[l].skill] = status]
  BY DEF LoopGoesOn
<1>5. EntriesOK'
  BY <1>1, <1>2, <1>4, EntrySet DEF IInv, EntryStatus
<1>6. n.attempt \in Nat
  BY DEF LoopRecord
<1>7. testAttempts' \in [Skills -> Nat] /\ inTestLoop' \subseteq Skills
  BY <1>1, <1>6 DEF LoopGoesOn, IInv, CountersOK
<1>8. LoopsStay
  BY DEF LoopsStay, LoopGoesOn, IInv, LoopsOK, LoopsFit
<1> QED
  BY <1>2, <1>3, <1>5, <1>7, <1>8 DEF LoopsOK

(* Preservation: a test returns.                                            *)
LEMMA TestReturnsOK ==
  ASSUME IInv, NEW l \in Loops, NEW passed \in BOOLEAN, TestReturns(l, passed) PROVE IInv'
<1> DEFINE s == loop[l].skill
<1>1. s \in Known /\ s \in Skills /\ loop[l].pc # "free"
  BY LoopSkill DEF TestReturns
<1>2. HistoryOK' /\ Known' = Known /\ finished \subseteq finished'
      /\ (passed /\ Autonomous => s \in finished')
  BY <1>1, HistoryPromotes, HistoryKeep DEF TestReturns, IInv, history
<1>3. EntriesOK'
  BY <1>1, <1>2, EntrySet DEF TestReturns, IInv, EntryStatus
<1>4. PICK pc \in {"failing", "promoting", "validating"} : loop' = [loop EXCEPT ![l].pc = pc]
  BY DEF TestReturns
<1>5. LoopsFit(loop', Known)
  BY <1>1, <1>4 DEF IInv, LoopsOK, LoopsFit, LoopRecord, LoopPc
<1>6. AgentsOK' /\ PassOK' /\ CountersOK'
  BY <1>2, AgentsKeep, PassKeep DEF TestReturns, IInv, CountersOK
<1>7. LoopsStay
  BY <1>4 DEF LoopsStay, TestReturns, IInv, CallersOK, SpawnsAwaited, LoopsOK, LoopsFit
<1>8. CallersOK'
  BY <1>7, CallersKeep, Unmoved DEF TestReturns
<1> QED
  BY <1>2, <1>3, <1>5, <1>6, <1>8 DEF IInv, LoopsOK

(* Preservation: the other targets are validated.                           *)
LEMMA LoopValidatesOK ==
  ASSUME IInv, NEW l \in Loops, NEW passed \in BOOLEAN, LoopValidates(l, passed) PROVE IInv'
<1>1. loop[l].pc # "free" /\ UNCHANGED history
  BY DEF LoopValidates
<1>2. HistoryOK' /\ Known' = Known /\ finished' = finished
  BY <1>1, HistoryKeep DEF IInv
<1>3. /\ LoopsOK' /\ EntriesOK'
      /\ testAttempts' \in [Skills -> Nat] /\ inTestLoop' \subseteq Skills
      /\ LoopsStay
  <2>1. CASE passed
    BY <1>1, <2>1, LoopGoesOnOK, NoLoopOK DEF LoopValidates, NoLoop
  <2>2. CASE ~passed
    <3>1. /\ loop' = [loop EXCEPT ![l].pc = "failing"]
          /\ UNCHANGED <<entry, testAttempts, inTestLoop>>
      BY <2>2 DEF LoopValidates
    <3>2. LoopsOK'
      BY <1>1, <1>2, <3>1 DEF IInv, LoopsOK, LoopsFit, LoopRecord, LoopPc
    <3>3. LoopsStay
      BY <3>1 DEF LoopsStay, LoopValidates, IInv, CallersOK, SpawnsAwaited, LoopsOK, LoopsFit
    <3> QED
      BY <1>2, <3>1, <3>2, <3>3, EntriesKeep DEF IInv, CountersOK
  <2> QED
    BY <2>1, <2>2
<1>4. AgentsOK' /\ PassOK' /\ CountersOK'
  BY <1>2, <1>3, AgentsKeep, PassKeep DEF LoopValidates, IInv, CountersOK
<1>5. CallersOK'
  BY <1>3, CallersKeep, Unmoved DEF LoopValidates
<1> QED
  BY <1>2, <1>3, <1>4, <1>5 DEF IInv

(* Preservation: a test loop resumes.                                       *)
LEMMA LoopResumesOK == ASSUME IInv, NEW l \in Loops, LoopResumes(l) PROVE IInv'
<1> DEFINE n == NextAttempt(loop[l].skill, loop[l].attempt)
<1>1. loop[l].pc = "waiting" /\ UNCHANGED history /\ LoopGoesOn(l, n)
  BY DEF LoopResumes
<1>2. HistoryOK' /\ Known' = Known /\ finished' = finished
  BY <1>1, HistoryKeep DEF IInv
<1>3. loop[l].skill \in Skills /\ loop[l].attempt \in Nat
  BY <1>1, LoopSkill DEF LoopRecord
<1>4. n \in LoopRecord /\ (n # NoLoop => n.skill = loop[l].skill) /\ n.dev = "none"
  BY <1>3, NextAttemptOK DEF NextAttempt, NoLoop
<1> HIDE DEF n
<1>5. /\ LoopsOK' /\ EntriesOK' /\ LoopsStay
      /\ testAttempts' \in [Skills -> Nat] /\ inTestLoop' \subseteq Skills
  BY <1>1, <1>4, LoopGoesOnOK
<1>6. AgentsOK' /\ PassOK' /\ CountersOK'
  BY <1>2, <1>5, AgentsKeep, PassKeep DEF LoopResumes, IInv, CountersOK
<1>7. CallersOK'
  BY <1>5, CallersKeep, Unmoved DEF LoopResumes
<1> QED
  BY <1>2, <1>5, <1>6, <1>7 DEF IInv

(* Between its spawn and the task of its dev agent the loop is the only     *)
(* caller that awaits that agent.                                           *)
LEMMA LoopRetriesOK == ASSUME IInv, NEW l \in Loops, LoopRetries(l) PROVE IInv'
<1> DEFINE s == loop[l].skill
           x == Slot(s, Untargeted)
<1>1. loop[l].pc = "failing" /\ UNCHANGED history
  BY DEF LoopRetries
<1>2. HistoryOK' /\ Known' = Known /\ finished' = finished
  BY <1>1, HistoryKeep DEF IInv
<1>3. s \in Known /\ s \in Skills /\ loop[l] \in LoopRecord /\ loop[l].dev = "none"
  BY <1>1, LoopSkill DEF IInv, CallersOK, SpawnsAwaited
<1>4. CASE LoopGoesOn(l, NoLoop) /\ agent' = agent
  <2>1. /\ LoopsOK' /\ EntriesOK' /\ LoopsStay
        /\ testAttempts' \in [Skills -> Nat] /\ inTestLoop' \subseteq Skills
    BY <1>1, <1>4, LoopGoesOnOK, NoLoopOK DEF NoLoop
  <2>2. AgentsOK' /\ PassOK' /\ CountersOK'
    BY <1>2, <1>4, <2>1, AgentsKeep, PassKeep DEF LoopRetries, IInv, CountersOK
  <2>3. CallersOK'
    BY <1>4, <2>1, CallersKeep, Unmoved DEF LoopRetries
  <2> QED
    BY <1>2, <2>1, <2>2, <2>3 DEF IInv
<1>5. CASE /\ Slots(s, Untargeted) # {}
           /\ agent' = WithSpawn(agent, x, s, Untargeted)
           /\ loop' = [loop EXCEPT ![l].pc = "respawned", ![l].dev = x]
           /\ UNCHANGED <<entry, testAttempts, inTestLoop>>
  <2>1. x \in Slots(s, Untargeted) /\ x \in Agents
    BY <1>5, SlotOK DEF Slots
  <2>2. AgentsFit(agent', Known)
    BY <1>3, <1>5, <2>1, WithSpawnFits, ConfigAssumption DEF IInv, AgentsOK, Untargeted
  <2>3. LoopsFit(loop', Known)
    BY <1>1, <1>5, <2>1 DEF IInv, LoopsOK, LoopsFit, LoopRecord, LoopPc
  <2>4. EntriesOK' /\ PassOK' /\ CountersOK'
    BY <1>2, <1>5, EntriesKeep, PassKeep DEF LoopRetries, IInv, CountersOK
  <2>5. /\ agent'[x].pc = "spawned"
        /\ \A b \in Agents \ {x} :
             agent[b].pc \in {"spawned", "confirming"} => agent'[b].pc = agent[b].pc
    BY <1>5, <2>1, WithSpawnKeeps DEF IInv, AgentsOK
  <2>6. /\ loop'[l].pc = "respawned" /\ loop'[l].dev = x
        /\ \A k \in Loops \ {l} : loop'[k] = loop[k]
    BY <1>5 DEF IInv, LoopsOK, LoopsFit, LoopRecord
  <2>7. /\ spawner' = spawner /\ spawner.dev # x /\ agent[x].pc # "confirming"
        /\ \A k \in Loops : loop[k].dev # x
    BY <2>1 DEF LoopRetries, Slots
  <2>8. SpawnsAwaited'
    BY <2>5, <2>6, <2>7 DEF IInv, CallersOK, SpawnsAwaited, Awaits, LoopsOK, LoopsFit, LoopRecord
  <2>9. SpawnLockOwned'
    BY <1>1, <2>5, <2>6, <2>7 DEF IInv, CallersOK, SpawnLockOwned
  <2> QED
    BY <1>2, <2>2, <2>3, <2>4, <2>8, <2>9 DEF IInv, AgentsOK, LoopsOK, CallersOK
<1>6. CASE /\ loop' = [loop EXCEPT ![l].pc = "respawned"]
           /\ UNCHANGED <<agent, entry, testAttempts, inTestLoop>>
  <2>1. LoopsFit(loop', Known)
    BY <1>1, <1>6 DEF IInv, LoopsOK, LoopsFit, LoopRecord, LoopPc
  <2>2. EntriesOK' /\ AgentsOK' /\ PassOK' /\ CountersOK'
    BY <1>2, <1>6, EntriesKeep, AgentsKeep, PassKeep DEF LoopRetries, IInv, CountersOK
  <2>3. LoopsStay
    BY <1>1, <1>3, <1>6 DEF LoopsStay, IInv, LoopsOK, LoopsFit, LoopRecord
  <2>4. CallersOK'
    BY <1>6, <2>3, CallersKeep, Unmoved DEF LoopRetries
  <2> QED
    BY <1>2, <2>1, <2>2, <2>4 DEF IInv, LoopsOK
<1> QED
  BY <1>4, <1>5, <1>6 DEF LoopRetries

(* Once the spawn has returned, whoever the loop then awaits has a task.    *)
LEMMA LoopPicksDevOK == ASSUME IInv, NEW l \in Loops, LoopPicksDev(l) PROVE IInv'
<1> DEFINE n  == NextAttempt(loop[l].skill, loop[l].attempt)
           d  == loop[l].dev
           ag == IF d \in Agents THEN WithTask(agent, d) ELSE agent
<1>1. loop[l].pc = "respawned" /\ UNCHANGED history /\ agent' = ag
  BY DEF LoopPicksDev, WithTask
<1>2. HistoryOK' /\ Known' = Known /\ finished' = finished
  BY <1>1, HistoryKeep DEF IInv
<1>3. loop[l].skill \in Skills /\ loop[l].attempt \in Nat
  BY <1>1, LoopSkill DEF LoopRecord
<1>4. n \in LoopRecord /\ (n # NoLoop => n.skill = loop[l].skill) /\ n.dev = "none"
      /\ n.pc # "respawned"
  BY <1>3, NextAttemptOK DEF NextAttempt, NoLoop
<1>5. /\ d \in Agents => agent[d].pc = "spawned"
      /\ \A k \in Loops \ {l} : Awaits(k) => loop[k].dev # d \/ d = "none"
      /\ spawner.owner # "none" => spawner.dev # d
  BY <1>1, ConfigAssumption DEF IInv, CallersOK, SpawnsAwaited, Awaits
<1>6. AgentsFit(agent', Known)
  BY <1>1, <1>5, WithTaskFits DEF IInv, AgentsOK
<1>7. \A b \in Agents : b # d => agent'[b] = agent[b]
  BY <1>1 DEF WithTask, IInv, AgentsOK, AgentsFit
<1> HIDE DEF n
<1>8. /\ LoopsOK' /\ EntriesOK'
      /\ testAttempts' \in [Skills -> Nat] /\ inTestLoop' \subseteq Skills
      /\ loop'[l].pc = "waiting" \/ loop'[l].dev = "none"
      /\ \A k \in Loops \ {l} : loop'[k] = loop[k]
  <2>1. CASE LoopGoesOn(l, n)
    <3>1. loop'[l].dev = "none" /\ \A k \in Loops \ {l} : loop'[k] = loop[k]
      BY <1>4, <2>1 DEF LoopGoesOn, IInv, LoopsOK, LoopsFit
    <3> QED
      BY <1>1, <1>4, <2>1, <3>1, LoopGoesOnOK
  <2>2. CASE \E a \in Agents : /\ loop' = [loop EXCEPT ![l].pc = "waiting", ![l].dev = a]
                              /\ UNCHANGED <<entry, testAttempts, inTestLoop>>
    <3>1. PICK a \in Agents : loop' = [loop EXCEPT ![l].pc = "waiting", ![l].dev = a]
      BY <2>2
    <3>2. LoopsFit(loop', Known)
      BY <1>1, <3>1 DEF IInv, LoopsOK, LoopsFit, LoopRecord, LoopPc
    <3>3. loop'[l].pc = "waiting" /\ \A k \in Loops \ {l} : loop'[k] = loop[k]
      BY <3>1 DEF IInv, LoopsOK, LoopsFit, LoopRecord
    <3> QED
      BY <1>2, <2>2, <3>2, <3>3, EntriesKeep DEF IInv, LoopsOK, CountersOK
  <2> QED
    BY <2>1, <2>2 DEF LoopPicksDev, n
<1>9. PassOK' /\ CountersOK'
  BY <1>2, <1>8, PassKeep DEF LoopPicksDev, IInv, CountersOK
<1>10. spawner' = spawner
  BY DEF LoopPicksDev
<1> HIDE DEF d, ag
<1>11. SpawnsAwaited'
  <2>1. spawner'.owner # "none" => spawner'.dev \in Agents /\ agent'[spawner'.dev].pc = "spawned"
    BY <1>5, <1>7, <1>10 DEF IInv, CallersOK, SpawnsAwaited
  <2>2. ASSUME NEW k \in Loops
        PROVE  /\ loop'[k].dev = "none" \/ loop'[k].pc \in {"respawned", "waiting"}
               /\ Awaits(k)' => k # l /\ Awaits(k)
    BY <1>8 DEF Awaits, IInv, CallersOK, SpawnsAwaited
  <2>3. ASSUME NEW k \in Loops, Awaits(k)'
        PROVE  agent'[loop'[k].dev].pc = "spawned" /\ loop'[k].dev = loop[k].dev
    BY <1>5, <1>7, <1>8, <2>2, <2>3
    DEF Awaits, IInv, CallersOK, SpawnsAwaited, LoopsOK, LoopsFit, LoopRecord
  <2> QED
    BY <1>10, <2>1, <2>2, <2>3 DEF IInv, CallersOK, SpawnsAwaited
<1>12. SpawnLockOwned'
  BY <1>1, <1>5, <1>7, <1>8, <1>10, ConfigAssumption DEF IInv, CallersOK, SpawnLockOwned
<1> QED
  BY <1>2, <1>6, <1>8, <1>9, <1>11, <1>12 DEF IInv, AgentsOK, CallersOK

-----------------------------------------------------------------------------
(* The auto-spawn pass.                                                     *)

(* What a pass may assume of the agents ag it goes on with: whoever else    *)
(* waits for a pass, or for a spawn, still does; o is the owner.            *)
Undisturbed(ag, o) ==
  /\ AgentsFit(ag, Known)
  /\ \A b \in Agents : agent[b].pc = "confirming" => ag[b].pc = "confirming"
  /\ \A l \in Loops : Awaits(l) => ag[loop[l].dev].pc = "spawned"
  /\ o \in Agents => agent[o].pc = "confirming"
  /\ o \in Loops  => loop[o].pc = "promoting"

(* The dependency gate when a pass spawns: Deps[s] was part of its snapshot *)
(* and a finished skill stays finished.                                     *)
LEMMA PassSpawnsOK ==
  ASSUME IInv, NEW o \in Callers, NEW done \in SUBSET Skills, done \subseteq finished,
         NEW active \in SUBSET ((0..NumSkills) \X (0..NumTargets)),
         NEW s \in Skills, Deps[s] \subseteq done,
         NEW left \in SUBSET Targets, NEW ag, Undisturbed(ag, o),
         PassSpawns(o, done, active, s, left, ag),
         UNCHANGED <<loop, handled, approved, finished>>
  PROVE  AgentsOK' /\ LoopsOK' /\ PassOK' /\ HistoryOK' /\ CallersOK'
<1>1. PICK t \in left :
        /\ Slots(s, t) # {}
        /\ agent' = WithSpawn(ag, Slot(s, t), s, t)
        /\ spawner' = [owner |-> o, done |-> done, active |-> active, skill |-> s,
                       left |-> left \ {t}, dev |-> Slot(s, t)]
        /\ started' = started \cup {s}
  BY DEF PassSpawns
<1> DEFINE x == Slot(s, t)
<1>2. x \in Slots(s, t) /\ x \in Agents
  BY <1>1, SlotOK DEF Slots
<1>3. /\ agent[x].pc # "confirming" /\ \A k \in Loops : loop[k].dev # x
  BY <1>2 DEF Slots
<1>4. /\ Known' = Known \cup {s} /\ HistoryOK'
  BY <1>1 DEF IInv, HistoryOK, Known, DependencyGate
<1>5. t \in 0..NumTargets
  BY ConfigAssumption DEF Targets
<1>6. AgentsFit(ag, Known')
  BY <1>4, FitGrows DEF Undisturbed
<1> HIDE DEF x
<1>7. AgentsFit(agent', Known')
  BY <1>1, <1>2, <1>4, <1>5, <1>6, WithSpawnFits DEF x
<1>8. LoopsOK'
  BY <1>4, LoopsKeep DEF IInv
<1>9. PassOK'
  <2>1. spawner' \in PassRecord
    BY <1>1, <1>2, ConfigAssumption DEF PassRecord, Skills, x
  <2>2. PassIsCovered'
    BY <1>1 DEF PassIsCovered
  <2> QED
    BY <2>1, <2>2 DEF PassOK
<1>10. /\ agent'[x].pc = "spawned"
       /\ \A b \in Agents \ {x} :
            ag[b].pc \in {"spawned", "confirming"} => agent'[b].pc = ag[b].pc
  BY <1>1, <1>2, <1>6, WithSpawnKeeps DEF x
<1>11. spawner'.dev = x /\ spawner'.owner = o
  BY <1>1 DEF x
<1>12. SpawnsAwaited'
  BY <1>2, <1>3, <1>10, <1>11
  DEF Undisturbed, IInv, CallersOK, SpawnsAwaited, Awaits, LoopsOK, LoopsFit, LoopRecord
<1>13. SpawnLockOwned'
  BY <1>3, <1>10, <1>11 DEF Undisturbed, SpawnLockOwned, Callers
<1> QED
  BY <1>4, <1>7, <1>8, <1>9, <1>12, <1>13 DEF AgentsOK, CallersOK

(* The owner of a pass moves on within its type.                            *)
LEMMA AgentsAfterPassFit ==
  ASSUME NEW ag, NEW known, AgentsFit(ag, known), NEW o, o \in Agents => ag[o].pc = "confirming"
  PROVE  /\ AgentsFit(AgentsAfterPass(ag, o), known)
         /\ \A b \in Agents : b # o => AgentsAfterPass(ag, o)[b] = ag[b]
<1>1. ASSUME o \in Agents
      PROVE  LET q == [ag[o] EXCEPT !.pc = AfterWork(ag[o])]
             IN  q \in AgentRecord /\ q.skill = ag[o].skill
  BY <1>1 DEF AgentsFit, AgentRecord, AfterWork, TaskPc
<1>2. ASSUME o \in Agents
      PROVE  LET q == Settled([ag[o] EXCEPT !.pc = AfterWork(ag[o])])
             IN  q \in AgentRecord /\ (q = NoAgent \/ q.skill = ag[o].skill)
  BY <1>1, <1>2, SettledOK
<1> QED
  BY <1>2, NoAgentOK DEF AgentsAfterPass, AgentsFit

(* A test loop that owned a pass moves on within its type.                  *)
LEMMA LoopsAfterPassFit ==
  ASSUME IInv, NEW o, o \in Loops => loop[o].pc = "promoting"
  PROVE  /\ LoopsFit(LoopsAfterPass(o), Known)
         /\ \A k \in Loops : \/ LoopsAfterPass(o)[k] = loop[k]
                            \/ /\ LoopsAfterPass(o)[k].dev = "none"
                               /\ LoopsAfterPass(o)[k].pc = "validating"
BY DEF LoopsAfterPass, IInv, LoopsOK, LoopsFit, LoopRecord, LoopPc, CallersOK, SpawnsAwaited

(* The end of a pass.                                                       *)
LEMMA PassEndsOK ==
  ASSUME IInv, NEW o \in Callers, NEW ag, Undisturbed(ag, o),
         agent' = AgentsAfterPass(ag, o), loop' = LoopsAfterPass(o), spawner' = NoPass,
         UNCHANGED history
  PROVE  AgentsOK' /\ LoopsOK' /\ PassOK' /\ HistoryOK' /\ CallersOK'
<1>1. HistoryOK' /\ Known' = Known /\ finished' = finished
  BY HistoryKeep DEF IInv
<1>2. /\ AgentsFit(agent', Known) /\ \A b \in Agents : b # o => agent'[b] = ag[b]
  BY AgentsAfterPassFit DEF Undisturbed
<1>3. /\ LoopsFit(loop', Known)
      /\ \A k \in Loops : loop'[k] = loop[k] \/ (loop'[k].dev = "none" /\ loop'[k].pc = "validating")
  BY LoopsAfterPassFit DEF Undisturbed
<1>4. PassOK' /\ SpawnLockOwned' /\ spawner'.owner = "none"
  BY NoPassOK DEF PassOK, PassIsCovered, SpawnLockOwned
<1>5. ASSUME NEW k \in Loops, Awaits(k)'
      PROVE  Awaits(k) /\ loop'[k] = loop[k] /\ loop[k].dev \in Agents
  BY <1>3, <1>5 DEF Awaits, IInv, LoopsOK, LoopsFit, LoopRecord
<1>6. ASSUME NEW k \in Loops, Awaits(k)'
      PROVE  agent'[loop'[k].dev].pc = "spawned"
  BY <1>2, <1>5, <1>6 DEF Undisturbed, IInv, CallersOK, SpawnsAwaited
<1>7. SpawnsAwaited'
  BY <1>3, <1>4, <1>5, <1>6 DEF SpawnsAwaited, IInv, CallersOK
<1> QED
  BY <1>1, <1>2, <1>3, <1>4, <1>7 DEF AgentsOK, LoopsOK, CallersOK

(* The loop over the entries preserves the parts it may disturb.            *)
LEMMA PassFromOK ==
  ASSUME IInv, NEW o \in Callers, NEW done \in SUBSET Skills, done \subseteq finished,
         NEW active \in SUBSET ((0..NumSkills) \X (0..NumTargets)), NEW from, NEW ent,
         NEW ag, Undisturbed(ag, o), PassFrom(o, done, active, from, ent, ag),
         UNCHANGED <<handled, approved, finished>>
  PROVE  AgentsOK' /\ LoopsOK' /\ PassOK' /\ HistoryOK' /\ CallersOK' /\ entry' = ent
<1>1. entry' = ent
  BY DEF PassFrom
<1>2. CASE \E s \in Skills : /\ Deps[s] \subseteq done
                            /\ PassSpawns(o, done, active, s, Unserved(s, active), ag)
                            /\ UNCHANGED loop
  <2>1. PICK s \in Skills : /\ Deps[s] \subseteq done
                           /\ PassSpawns(o, done, active, s, Unserved(s, active), ag)
                           /\ UNCHANGED loop
    BY <1>2
  <2>2. Unserved(s, active) \in SUBSET Targets
    BY DEF Unserved
  <2> QED
    BY <1>1, <2>1, <2>2, PassSpawnsOK
<1>3. CASE /\ agent' = AgentsAfterPass(ag, o) /\ loop' = LoopsAfterPass(o)
           /\ spawner' = NoPass /\ UNCHANGED started
  BY <1>1, <1>3, PassEndsOK DEF history
<1> QED
  BY <1>2, <1>3 DEF PassFrom, Ready

(* Preservation: a pass begins.                                             *)
LEMMA PassBeginsOK == ASSUME IInv, NEW o \in Callers, PassBegins(o) PROVE IInv'
<1>1. /\ DoneSkills \in SUBSET Skills /\ DoneSkills \subseteq finished
      /\ ActivePairs \in SUBSET ((0..NumSkills) \X (0..NumTargets))
  BY DEF DoneSkills, ActivePairs, IInv, EntriesOK, AgentsOK, AgentsFit, AgentRecord
<1>2. Undisturbed(agent, o)
  BY ConfigAssumption DEF PassBegins, Waiting, Undisturbed, IInv, AgentsOK, CallersOK, SpawnsAwaited
<1>3. /\ UNCHANGED <<handled, approved, finished>>
      /\ UNCHANGED <<testAttempts, evalAttempts, inTestLoop, devMode, commands, evalLock, zombie>>
      /\ pendingPasses' \in Nat
  BY ConfigAssumption DEF PassBegins, Waiting, IInv, CountersOK, Callers
<1>4. CountersOK'
  BY <1>3 DEF IInv, CountersOK
<1>5. CASE devMode
  <2>1. AgentsOK' /\ LoopsOK' /\ PassOK' /\ HistoryOK' /\ CallersOK' /\ entry' = entry
    BY <1>1, <1>2, <1>3, <1>5, PassFromOK DEF PassBegins
  <2>2. EntriesOK'
    BY <1>3, <2>1, EntriesKeep DEF IInv
  <2> QED
    BY <1>4, <2>1, <2>2 DEF IInv
<1>6. CASE ~devMode
  <2>1. PassRefused(o, DoneSkills, ActivePairs) /\ spawner' = spawner /\ started' = started
    BY <1>6 DEF PassBegins, PassRefused
  <2>2. spawner.owner = "none" /\ UNCHANGED history
    BY <1>3, <2>1 DEF PassBegins, history
  <2>3. HistoryOK' /\ Known' = Known /\ finished' = finished
    BY <2>2, HistoryKeep DEF IInv
  <2>4. /\ AgentsFit(agent', Known) /\ \A b \in Agents : b # o => agent'[b] = agent[b]
    BY <1>2, <2>1, AgentsAfterPassFit DEF Undisturbed, PassRefused
  <2>5. /\ LoopsFit(loop', Known)
        /\ \A k \in Loops : loop'[k] = loop[k] \/ (loop'[k].dev = "none" /\ loop'[k].pc = "validating")
    BY <1>2, <2>1, LoopsAfterPassFit DEF Undisturbed, PassRefused
  <2>6. EntriesOK'
    BY <2>1, <2>3 DEF PassRefused, IInv, EntriesOK, DoneSkills, EntryStatus
  <2>7. PassOK'
    BY <2>1, <2>3, PassKeep DEF IInv
  <2>8. ASSUME NEW k \in Loops, Awaits(k)'
        PROVE  Awaits(k) /\ loop'[k] = loop[k] /\ loop[k].dev \in Agents
    BY <2>5, <2>8 DEF Awaits, IInv, LoopsOK, LoopsFit, LoopRecord
  <2>9. ASSUME NEW k \in Loops, Awaits(k)'
        PROVE  agent'[loop'[k].dev].pc = "spawned"
    BY <1>2, <2>4, <2>8, <2>9 DEF Undisturbed, IInv, CallersOK, SpawnsAwaited
  <2>10. SpawnsAwaited' /\ SpawnLockOwned'
    BY <2>1, <2>2, <2>5, <2>8, <2>9 DEF SpawnsAwaited, SpawnLockOwned, IInv, CallersOK
  <2> QED
    BY <1>4, <2>3, <2>4, <2>5, <2>6, <2>7, <2>10 DEF IInv, AgentsOK, LoopsOK, CallersOK
<1> QED
  BY <1>5, <1>6

(* Preservation: a pass continues.                                          *)
LEMMA PassContinuesOK == ASSUME IInv, PassContinues PROVE IInv'
<1> DEFINE p  == spawner
           ag == WithTask(agent, p.dev)
           ent == [entry EXCEPT ![p.skill] = "writing"]
<1>1. /\ p.owner # "none" /\ p \in PassRecord /\ p.owner \in Callers /\ p.skill \in Skills
      /\ Deps[p.skill] \subseteq p.done /\ p.done \in SUBSET Skills /\ p.done \subseteq finished
      /\ p.left \in SUBSET Targets
      /\ p.active \in SUBSET ((0..NumSkills) \X (0..NumTargets))
  BY DEF PassContinues, IInv, PassOK, PassIsCovered, PassRecord
<1>2. p.dev \in Agents /\ agent[p.dev].pc = "spawned"
  BY <1>1 DEF IInv, CallersOK, SpawnsAwaited
<1>3. AgentsFit(ag, Known) /\ \A b \in Agents : b # p.dev => ag[b] = agent[b]
  BY <1>2, WithTaskFits DEF WithTask, IInv, AgentsOK, AgentsFit
<1>4. \A l \in Loops : Awaits(l) => loop[l].dev # p.dev /\ loop[l].dev \in Agents
                                   /\ agent[loop[l].dev].pc = "spawned"
  BY <1>1 DEF IInv, CallersOK, SpawnsAwaited, Awaits, LoopsOK, LoopsFit, LoopRecord
<1>5. /\ p.owner \in Agents => agent[p.owner].pc = "confirming"
      /\ p.owner \in Loops  => loop[p.owner].pc = "promoting"
  BY <1>1, ConfigAssumption DEF IInv, CallersOK, SpawnLockOwned
<1>6. Undisturbed(ag, p.owner)
  BY <1>2, <1>3, <1>4, <1>5 DEF Undisturbed
<1>7. /\ UNCHANGED <<handled, approved, finished>>
      /\ UNCHANGED <<testAttempts, evalAttempts, inTestLoop, devMode, commands, evalLock, zombie,
                     pendingPasses>>
  BY DEF PassContinues
<1>8. CountersOK'
  BY <1>7 DEF IInv, CountersOK
<1>9. CASE p.left # {}
  <2>1. /\ PassSpawns(p.owner, p.done, p.active, p.skill, p.left, ag)
        /\ UNCHANGED <<entry, loop>>
    BY <1>9 DEF PassContinues
  <2>2. AgentsOK' /\ LoopsOK' /\ PassOK' /\ HistoryOK' /\ CallersOK'
    BY <1>1, <1>6, <1>7, <2>1, PassSpawnsOK
  <2>3. EntriesOK'
    BY <1>7, <2>1, EntriesKeep DEF IInv
  <2> QED
    BY <1>8, <2>2, <2>3 DEF IInv
<1>10. CASE p.left = {}
  <2>1. PassFrom(p.owner, p.done, p.active, p.skill + 1, ent, ag)
    BY <1>10 DEF PassContinues
  <2> HIDE DEF ag, ent
  <2>2. AgentsOK' /\ LoopsOK' /\ PassOK' /\ HistoryOK' /\ CallersOK' /\ entry' = ent
    BY <1>1, <1>6, <1>7, <2>1, PassFromOK
  <2>3. EntriesOK'
    BY <1>1, <1>7, <2>2, EntrySet DEF ent, EntryStatus, IInv
  <2> QED
    BY <1>8, <2>2, <2>3 DEF IInv
<1> QED
  BY <1>9, <1>10

-----------------------------------------------------------------------------
(* Dashboard commands and faults.                                           *)

(* Commands stay within their bound.                                        *)
LEMMA GivenOK == ASSUME IInv, NEW c, Given(c) PROVE commands' \in 0..MaxCommands
BY ConfigAssumption DEF Given, IInv, CountersOK

(* Preservation: /xbot-start.                                               *)
LEMMA XbotStartOK == ASSUME IInv, XbotStart PROVE IInv'
<1>1. HistoryOK' /\ Known' = Known /\ finished' = finished
  BY HistoryKeep DEF XbotStart, IInv
<1>2. CountersOK'
  BY GivenOK DEF XbotStart, IInv, CountersOK
<1>3. EntriesOK' /\ AgentsOK' /\ LoopsOK' /\ PassOK' /\ CallersOK'
  BY <1>1, EntriesKeep, AgentsKeep, LoopsKeep, PassKeep, CallersKeep, Unmoved DEF XbotStart, IInv
<1> QED
  BY <1>1, <1>2, <1>3 DEF IInv

(* Preservation: a human confirms.                                          *)
LEMMA ConfirmOK == ASSUME IInv, NEW s \in Skills, Confirm(s) PROVE IInv'
<1>1. /\ HistoryOK' /\ Known \subseteq Known' /\ finished \subseteq finished'
      /\ s \in finished'
  BY HistoryApproves DEF Confirm, IInv
<1>2. EntriesOK'
  BY <1>1, EntrySet DEF Confirm, IInv, EntryStatus
<1>3. PICK named : agent' = Released([a \in Agents |->
                     IF a = named THEN [agent[a] EXCEPT !.status = "confirmed_done"]
                                  ELSE agent[a]], s)
  BY DEF Confirm
<1> DEFINE ag == [a \in Agents |-> IF a = named THEN [agent[a] EXCEPT !.status = "confirmed_done"]
                                               ELSE agent[a]]
<1>4. AgentsFit(ag, Known) /\ \A a \in Agents : ag[a].pc = agent[a].pc
  BY DEF IInv, AgentsOK, AgentsFit, AgentRecord, AgentStatus
<1>5. agent' = Released(ag, s)
  BY <1>3
<1> HIDE DEF ag
<1>6. AgentsFit(agent', Known')
  BY <1>1, <1>4, <1>5, ReleasedFits, FitGrows
<1>7. AgentsStay
  BY <1>4, <1>5 DEF AgentsStay, Released, AgentsFit, AgentRecord
<1>8. CountersOK'
  BY GivenOK DEF Confirm, IInv, CountersOK
<1>9. LoopsOK' /\ PassOK' /\ CallersOK'
  BY <1>1, <1>7, LoopsKeep, PassKeep, CallersKeep, Unmoved DEF Confirm, IInv
<1> QED
  BY <1>1, <1>2, <1>6, <1>8, <1>9 DEF IInv, AgentsOK

(* Preservation: an entry is patched.                                       *)
LEMMA PatchDoneOK == ASSUME IInv, NEW s \in Skills, PatchDone(s) PROVE IInv'
<1>1. /\ HistoryOK' /\ Known \subseteq Known' /\ finished \subseteq finished'
      /\ s \in finished'
  BY HistoryApproves DEF PatchDone, IInv
<1>2. EntriesOK'
  BY <1>1, EntrySet DEF PatchDone, IInv, EntryStatus
<1>3. CountersOK'
  BY GivenOK DEF PatchDone, IInv, CountersOK
<1>4. AgentsOK' /\ LoopsOK' /\ PassOK' /\ CallersOK'
  BY <1>1, AgentsKeep, LoopsKeep, PassKeep, CallersKeep, Unmoved DEF PatchDone, IInv
<1> QED
  BY <1>1, <1>2, <1>3, <1>4 DEF IInv

(* Preservation: an agent without a target is spawned for a skill that is   *)
(* known, or becomes so.                                                    *)
LEMMA UntargetedSpawnOK ==
  ASSUME IInv, NEW s \in Skills, Slots(s, Untargeted) # {},
         agent' = WithSpawn(agent, Slot(s, Untargeted), s, Untargeted),
         s \in Known', handled' = handled \/ handled' = handled \cup {s},
         commands' \in 0..MaxCommands,
         UNCHANGED <<entry, testAttempts, evalAttempts, inTestLoop, devMode, zombie, spawner,
                     pendingPasses, loop, started, approved, finished>>
  PROVE  IInv'
<1> DEFINE x == Slot(s, Untargeted)
<1>1. x \in Slots(s, Untargeted) /\ x \in Agents
  BY SlotOK DEF Slots
<1>2. /\ agent[x].pc \notin {"spawned", "confirming"} /\ agent' = WithSpawn(agent, x, s, Untargeted)
  BY <1>1 DEF Slots
<1>3. HistoryOK' /\ Known' = Known \cup {s} /\ finished' = finished
  BY DEF IInv, HistoryOK, Known, DependencyGate
<1> HIDE DEF x
<1>4. AgentsFit(agent, Known')
  BY <1>3, FitGrows DEF IInv, AgentsOK
<1>5. AgentsFit(agent', Known')
  BY <1>1, <1>2, <1>3, <1>4, WithSpawnFits, ConfigAssumption DEF Untargeted
<1>6. AgentsStay
  BY <1>1, <1>2, <1>4, WithSpawnKeeps DEF AgentsStay
<1>7. CountersOK'
  BY DEF IInv, CountersOK
<1>8. EntriesOK' /\ LoopsOK' /\ PassOK' /\ CallersOK'
  BY <1>3, <1>6, EntriesKeep, LoopsKeep, PassKeep, CallersKeep, Unmoved DEF IInv
<1> QED
  BY <1>3, <1>5, <1>7, <1>8 DEF IInv, AgentsOK

(* Preservation: a human retries.                                           *)
LEMMA RetryOK == ASSUME IInv, NEW s \in Skills, Retry(s) PROVE IInv'
<1>1. s \in Known'
  BY DEF Retry, Known
<1> QED
  BY <1>1, UntargetedSpawnOK, GivenOK DEF Retry

(* The cancellation of a's task, which may own a pass that awaits a spawn.  *)
LEMMA CancelOK ==
  ASSUME IInv, NEW a \in Agents, NEW q \in AgentRecord, q.skill = agent[a].skill,
         q.pc # "free" => agent[a].pc # "free", agent[a].pc = "spawned" => q.pc = "spawned",
         agent' = AgentsAfterCancel(a, q), TaskCancelled(a),
         \A k \in Loops : loop'[k] = loop[k] \/ (loop'[k] = NoLoop /\ loop[k].pc # "promoting")
  PROVE  /\ AgentsFit(agent', Known) /\ CallersOK'
         /\ zombie' \subseteq Skills
<1>1. spawner' = IF spawner.owner = a THEN NoPass ELSE spawner
  BY DEF TaskCancelled
<1>2. /\ Settled(q) \in AgentRecord
      /\ Settled(q).pc # "free" => agent[a].pc # "free" /\ Settled(q).skill = agent[a].skill
      /\ agent[a].pc = "spawned" => Settled(q).pc = "spawned"
  BY SettledOK, NoAgentOK DEF Settled
<1>3. ASSUME NEW b \in Agents
      PROVE  LET t == Settled([agent[b] EXCEPT !.pc = "taskless"])
             IN  t \in AgentRecord /\ (t = NoAgent \/ t.skill = agent[b].skill)
  <2>1. LET t == [agent[b] EXCEPT !.pc = "taskless"]
        IN  t \in AgentRecord /\ t.skill = agent[b].skill
    BY DEF IInv, AgentsOK, AgentsFit, AgentRecord, TaskPc
  <2> QED
    BY <2>1, SettledOK
<1>4. ASSUME NEW b \in Agents
      PROVE  agent'[b] = IF b = a THEN Settled(q)
                         ELSE IF spawner.owner = a /\ b = spawner.dev
                              THEN Settled([agent[b] EXCEPT !.pc = "taskless"])
                              ELSE agent[b]
  BY DEF AgentsAfterCancel
<1>5. spawner.owner = a => agent[spawner.dev].pc = "spawned"
  BY ConfigAssumption DEF IInv, CallersOK, SpawnsAwaited
<1>6. AgentsFit(agent', Known)
  <2>1. agent' \in [Agents -> AgentRecord]
    BY <1>2, <1>3 DEF AgentsAfterCancel, IInv, AgentsOK, AgentsFit
  <2>2. ASSUME NEW b \in Agents, agent'[b].pc # "free"
        PROVE  agent'[b].skill \in Known
    BY <1>2, <1>3, <1>4, <1>5, <2>2, NoAgentOK DEF IInv, AgentsOK, AgentsFit
  <2> QED
    BY <2>1, <2>2 DEF AgentsFit
<1>7. SpawnsAwaited'
  <2>1. ASSUME NEW k \in Loops, Awaits(k)'
        PROVE  Awaits(k) /\ loop'[k] = loop[k] /\ loop[k].dev \in Agents
    BY <2>1 DEF Awaits, NoLoop, IInv, LoopsOK, LoopsFit, LoopRecord
  <2>2. ASSUME NEW b \in Agents, agent[b].pc = "spawned", spawner.owner = a => b # spawner.dev
        PROVE  agent'[b].pc = "spawned"
    BY <1>2, <1>4, <2>2
  <2>3. ASSUME NEW k \in Loops, Awaits(k)'
        PROVE  agent'[loop'[k].dev].pc = "spawned"
    BY <2>1, <2>2, <2>3, ConfigAssumption DEF IInv, CallersOK, SpawnsAwaited
  <2>4. spawner'.owner # "none" => spawner'.dev \in Agents /\ agent'[spawner'.dev].pc = "spawned"
    BY <1>1, <2>2, NoPassOK DEF IInv, CallersOK, SpawnsAwaited
  <2>5. \A k \in Loops : loop'[k].dev = "none" \/ loop'[k].pc \in {"respawned", "waiting"}
    BY DEF NoLoop, IInv, CallersOK, SpawnsAwaited
  <2> QED
    BY <1>1, <2>1, <2>3, <2>4, <2>5, NoPassOK DEF IInv, CallersOK, SpawnsAwaited
<1>8. SpawnLockOwned'
  <2>1. CASE spawner.owner = a
    BY <1>1, <2>1, NoPassOK DEF SpawnLockOwned
  <2>2. CASE spawner.owner # a
    BY <1>1, <1>4, <2>2 DEF SpawnLockOwned, IInv, CallersOK
  <2> QED
    BY <2>1, <2>2
<1>9. zombie' \subseteq Skills
  BY AgentSkill DEF TaskCancelled, IInv, CountersOK
<1> QED
  BY <1>6, <1>7, <1>8, <1>9 DEF CallersOK

(* Preservation: an agent is killed.                                        *)
LEMMA KilledOK ==
  ASSUME IInv, NEW a \in Agents, Killed(a), commands' \in 0..MaxCommands
  PROVE  IInv'
<1> DEFINE r == agent[a]
           s == agent[a].skill
           q == [r EXCEPT !.status = "stopped", !.exit = TRUE, !.listed = FALSE,
                          !.client = Closed(r.client),
                          !.pc = IF HasTask(r) THEN "gone" ELSE r.pc]
<1>1. r \in AgentRecord
  BY DEF IInv, AgentsOK, AgentsFit
<1>2. /\ q \in AgentRecord /\ q.skill = s
      /\ q.pc # "free" => r.pc # "free"
      /\ r.pc = "spawned" => q.pc = "spawned"
  BY <1>1, ClosedOK DEF HasTask, AgentRecord, AgentStatus, TaskPc
<1>3. agent' = AgentsAfterCancel(a, q) /\ TaskCancelled(a)
  BY DEF Killed
<1>4. \A k \in Loops : loop'[k] = loop[k] \/ (loop'[k] = NoLoop /\ loop[k].pc # "promoting")
  BY DEF Killed
<1> HIDE DEF q
<1>5. /\ AgentsFit(agent', Known) /\ CallersOK'
      /\ zombie' \subseteq Skills
  BY <1>2, <1>3, <1>4, CancelOK
<1>6. HistoryOK' /\ Known' = Known /\ finished' = finished
  BY HistoryKeep DEF Killed, IInv
<1>7. LoopsFit(loop', Known)
  BY NoLoopOK DEF Killed, IInv, LoopsOK, LoopsFit
<1>8. EntriesOK'
  BY <1>6 DEF Killed, StatusAfterKill, IInv, EntriesOK, DoneSkills, EntryStatus
<1>9. CountersOK'
  BY <1>5 DEF Killed, IInv, CountersOK
<1>10. PassOK'
  BY <1>3, <1>6, NoPassOK DEF TaskCancelled, IInv, PassOK, PassIsCovered
<1> QED
  BY <1>5, <1>6, <1>7, <1>8, <1>9, <1>10 DEF IInv, AgentsOK, LoopsOK

(* Preservation: the dashboard kills an agent.                              *)
LEMMA KillAgentOK == ASSUME IInv, NEW a \in Agents, KillAgent(a) PROVE IInv'
BY KilledOK, GivenOK DEF KillAgent

(* Preservation: an agent times out.                                        *)
LEMMA AgentTimesOutOK == ASSUME IInv, NEW a \in Agents, AgentTimesOut(a) PROVE IInv'
<1> DEFINE r == agent[a]
           s == agent[a].skill
           q == [r EXCEPT !.pc = "gone", !.client = Closed(r.client),
                          !.status = IF Harness = "openclaw" THEN "failed" ELSE "stopped"]
<1>1. r \in AgentRecord /\ s \in Skills /\ r.pc # "free" /\ r.pc # "spawned"
  BY AgentSkill DEF AgentTimesOut, HasTask
<1>2. q \in AgentRecord /\ q.skill = s
  BY <1>1, ClosedOK DEF AgentRecord, AgentStatus, TaskPc
<1>3. agent' = AgentsAfterCancel(a, q) /\ TaskCancelled(a) /\ loop' = loop
  BY DEF AgentTimesOut
<1> HIDE DEF q
<1>4. /\ AgentsFit(agent', Known) /\ CallersOK'
      /\ zombie' \subseteq Skills
  BY <1>1, <1>2, <1>3, CancelOK
<1>5. HistoryOK' /\ Known' = Known /\ finished' = finished
  BY HistoryKeep DEF AgentTimesOut, IInv
<1>6. EntriesOK'
  BY <1>1, <1>5, EntriesKeep, EntrySet DEF AgentTimesOut, IInv, EntryStatus
<1>7. CountersOK'
  BY <1>4 DEF AgentTimesOut, IInv, CountersOK
<1>8. PassOK' /\ LoopsOK'
  BY <1>3, <1>5, NoPassOK, LoopsKeep DEF TaskCancelled, IInv, PassOK, PassIsCovered
<1> QED
  BY <1>4, <1>5, <1>6, <1>7, <1>8 DEF IInv, AgentsOK

(* Preservation: an orphaned evaluator ends.                                *)
LEMMA ZombieEndsOK == ASSUME IInv, NEW s \in Skills, ZombieEnds(s) PROVE IInv'
<1>1. HistoryOK' /\ Known' = Known /\ finished' = finished
  BY HistoryKeep DEF ZombieEnds, IInv
<1>2. CountersOK'
  BY DEF ZombieEnds, IInv, CountersOK
<1>3. EntriesOK' /\ AgentsOK' /\ LoopsOK' /\ PassOK' /\ CallersOK'
  BY <1>1, EntriesKeep, AgentsKeep, LoopsKeep, PassKeep, CallersKeep, Unmoved DEF ZombieEnds, IInv
<1> QED
  BY <1>1, <1>2, <1>3 DEF IInv

(* A restart forgets every agent, pass and loop; a skill stays done.        *)
LEMMA RestartOK == ASSUME IInv, Restart PROVE IInv'
<1>1. HistoryOK' /\ Known' = Known /\ finished' = finished
  BY HistoryKeep DEF Restart, IInv
<1>2. CountersOK'
  BY ConfigAssumption DEF Restart, IInv, CountersOK
<1>3. EntriesOK'
  BY <1>1 DEF Restart, StatusAfterRestart, IInv, EntriesOK, DoneSkills, EntryStatus
<1>4. AgentsOK' /\ LoopsOK'
  BY NoAgentOK, NoLoopOK DEF Restart, AgentsOK, AgentsFit, LoopsOK, LoopsFit
<1>5. PassOK'
  BY NoPassOK DEF Restart, PassOK, PassIsCovered
<1>6. CallersOK'
  BY NoPassOK DEF Restart, CallersOK, SpawnsAwaited, SpawnLockOwned, Awaits, NoLoop
<1> QED
  BY <1>1, <1>2, <1>3, <1>4, <1>5, <1>6 DEF IInv

-----------------------------------------------------------------------------
(* The invariant.                                                           *)

(* A step that changes nothing preserves the invariant.                     *)
LEMMA StutterOK == IInv /\ UNCHANGED vars => IInv'
<1> SUFFICES ASSUME IInv, UNCHANGED vars PROVE IInv'
  OBVIOUS
<1>1. HistoryOK' /\ Known' = Known /\ finished' = finished
  BY HistoryKeep DEF vars, IInv
<1>2. EntriesOK' /\ AgentsOK' /\ LoopsOK' /\ PassOK' /\ CountersOK' /\ CallersOK'
  BY <1>1, EntriesKeep, AgentsKeep, LoopsKeep, PassKeep, CallersKeep, Unmoved
  DEF vars, IInv, CountersOK
<1> QED
  BY <1>1, <1>2 DEF IInv

(* Every action preserves the invariant.                                    *)
LEMMA NextOK == IInv /\ Next => IInv'
<1> SUFFICES ASSUME IInv, Next PROVE IInv'
  OBVIOUS
<1>1. CASE \E a \in Agents : RunnerStep(a)
  <2>1. PICK a \in Agents : RunnerStep(a)
    BY <1>1
  <2>2. CASE TaskCreated(a) \/ RunnerStarts(a) \/ WorkEnds(a) \/ RunnerLeaves(a)
    BY <2>2, TaskCreatedOK, RunnerStartsOK, WorkEndsOK, RunnerLeavesOK
  <2>3. CASE EvaluationQueued(a) \/ EvaluatorStarts(a)
             \/ \E verdict \in {"passed", "rejected"} : EvaluatorReturns(a, verdict)
    BY <2>3, EvaluationQueuedOK, EvaluatorStartsOK, EvaluatorReturnsOK
  <2>4. CASE RejectionHandled(a) \/ PassHandled(a)
    BY <2>4, RejectionHandledOK, PassHandledOK
  <2> QED
    BY <2>1, <2>2, <2>3, <2>4 DEF RunnerStep
<1>2. CASE (\E o \in Callers : PassBegins(o)) \/ PassContinues
  BY <1>2, PassBeginsOK, PassContinuesOK
<1>3. CASE \E l \in Loops : LoopStep(l)
  BY <1>3, TestReturnsOK, LoopValidatesOK, LoopRetriesOK, LoopPicksDevOK, LoopResumesOK
  DEF LoopStep
<1>4. CASE \E s \in Skills : ZombieEnds(s)
  BY <1>4, ZombieEndsOK
<1>5. CASE Command
  BY <1>5, XbotStartOK, ConfirmOK, PatchDoneOK, RetryOK, StopAgentOK, KillAgentOK DEF Command
<1>6. CASE Fault
  BY <1>6, RunnerFailsOK, AgentTimesOutOK, RestartOK DEF Fault
<1> QED
  BY <1>1, <1>2, <1>3, <1>4, <1>5, <1>6 DEF Next

(* The invariant is inductive, hence holds in every reachable state.        *)
THEOREM IInvHolds == Spec => []IInv
<1>1. IInv /\ [Next]_vars => IInv'
  BY NextOK, StutterOK
<1> QED
  BY <1>1, InitOK, PTL DEF Spec

(* The eval locks are held by agents.                                       *)
LEMMA LocksStep == IInv /\ LocksOK /\ [Next]_vars => LocksOK'
<1> SUFFICES ASSUME IInv, LocksOK, [Next]_vars PROVE LocksOK'
  OBVIOUS
<1>1. CASE evalLock' = evalLock
  BY <1>1 DEF LocksOK
<1>2. CASE \E a \in Agents : RunnerStep(a)
  BY <1>1, <1>2
  DEF RunnerStep, TaskCreated, RunnerStarts, WorkEnds, EvaluationQueued, EvaluatorStarts,
      EvaluatorReturns, RejectionHandled, PassHandled, RunnerLeaves, LocksOK
<1>3. CASE (\E o \in Callers : PassBegins(o)) \/ PassContinues
  BY <1>1, <1>3 DEF PassBegins, PassContinues
<1>4. CASE \E l \in Loops : LoopStep(l)
  BY <1>1, <1>4
  DEF LoopStep, TestReturns, LoopValidates, LoopRetries, LoopPicksDev, LoopResumes
<1>5. CASE Command
  BY <1>1, <1>5
  DEF Command, XbotStart, Confirm, PatchDone, Retry, StopAgent, KillAgent, Killed,
      TaskCancelled, LocksOK
<1>6. CASE Fault
  BY <1>1, <1>6 DEF Fault, RunnerFails, AgentTimesOut, TaskCancelled, Restart, LocksOK
<1>7. CASE (\E s \in Skills : ZombieEnds(s)) \/ UNCHANGED vars
  BY <1>1, <1>7 DEF ZombieEnds, vars
<1> QED
  BY <1>2, <1>3, <1>4, <1>5, <1>6, <1>7 DEF Next

(* So they are always.                                                      *)
LEMMA LocksHold == Spec => []LocksOK
<1>1. Init => LocksOK
  BY DEF Init, LocksOK
<1> QED
  BY <1>1, LocksStep, IInvHolds, PTL DEF Spec

(* Every variable keeps to the values the code stores in it.                *)
THEOREM TypeCorrect == Spec => []TypeOK
<1>1. IInv /\ LocksOK => TypeOK
  BY IInvIsEnough
<1> QED
  BY <1>1, IInvHolds, LocksHold, PTL

(* The dependency gate of _auto_spawn_ready_skills: the orchestrator never  *)
(* starts a skill before all its dependencies were finished.                *)
THEOREM DependencyGateHolds == Spec => []DependencyGate
<1>1. IInv => DependencyGate
  BY DEF IInv, HistoryOK
<1> QED
  BY <1>1, IInvHolds, PTL

(* Why both gates hold, as the runs check it: what is done was finished,    *)
(* and the snapshot of a pass under way covers the skill it spawns.         *)
THEOREM GatesHold == Spec => []GateInv
<1>1. IInv => GateInv
  BY DEF IInv, EntriesOK, AgentsOK, LoopsOK, PassOK, HistoryOK, AgentsFit, LoopsFit, Known,
         GateInv, AgentsKnown, LoopsKnown
<1> QED
  BY <1>1, IInvHolds, PTL

(* The review gate: without --autonomous only a human makes a skill done.   *)
THEOREM ReviewGateHolds == Spec => []ReviewGate
<1>1. IInv => ReviewGate
  BY DEF IInv, HistoryOK, EntriesOK, DoneSkills, ReviewGate
<1> QED
  BY <1>1, IInvHolds, PTL

(* A kill, a timeout or a restart never leaves _spawn_lock behind.          *)
THEOREM SpawnLockHolds == Spec => []SpawnLockOwned
<1>1. IInv => SpawnLockOwned
  BY DEF IInv, CallersOK
<1> QED
  BY <1>1, IInvHolds, PTL

-----------------------------------------------------------------------------
(* The pipeline implements DependencyOrder.                                 *)

(* A pass only starts skills that its snapshot, all finished, covers.       *)
LEMMA PassStarts ==
  ASSUME IInv, NEW o \in Callers, PassBegins(o) \/ PassContinues
  PROVE  \/ UNCHANGED history
         \/ \E s \in Skills : Order!Start(s)
<1>1. UNCHANGED <<handled, approved, finished>>
  BY DEF PassBegins, PassContinues
<1>2. ASSUME started' # started
      PROVE  \E s \in Skills : /\ started' = started \cup {s}
                              /\ Deps[s] \subseteq finished
  <2>1. CASE PassBegins(o)
    BY <1>2, <2>1
    DEF PassBegins, PassFrom, PassRefused, PassSpawns, Ready, IInv, EntriesOK
  <2>2. CASE PassContinues
    BY <1>2, <2>2
    DEF PassContinues, PassFrom, PassSpawns, Ready, IInv, PassOK, PassIsCovered
  <2> QED
    BY <2>1, <2>2
<1> QED
  BY <1>1, <1>2 DEF history, Order!Start

(* Every step is a step of DependencyOrder or leaves the history alone.     *)
LEMMA StepRefines == IInv /\ [Next]_vars => [Order!Next]_(Order!orderVars)
<1> SUFFICES ASSUME IInv, [Next]_vars
             PROVE  UNCHANGED history \/ \E s \in Skills :
                      Order!Start(s) \/ Order!TakeOver(s) \/ Order!Approve(s) \/ Order!Promote(s)
  BY DEF history, Order!Next, Order!orderVars
<1>1. CASE \E a \in Agents : RunnerStep(a)
  <2>1. PICK a \in Agents : RunnerStep(a)
    BY <1>1
  <2>2. CASE PassHandled(a)
    <3>1. agent[a].skill \in Skills /\ agent[a].skill \in Known
      BY <2>2, AgentSkill DEF PassHandled
    <3> QED
      BY <2>2, <3>1 DEF PassHandled, history, Known, Order!Promote
  <2>3. CASE ~PassHandled(a)
    BY <2>1, <2>3
    DEF RunnerStep, TaskCreated, RunnerStarts, WorkEnds, EvaluationQueued, EvaluatorStarts,
        EvaluatorReturns, RejectionHandled, RunnerLeaves
  <2> QED
    BY <2>2, <2>3
<1>2. CASE (\E o \in Callers : PassBegins(o)) \/ PassContinues
  BY <1>2, PassStarts DEF Callers
<1>3. CASE \E l \in Loops : LoopStep(l)
  <2>1. PICK l \in Loops : LoopStep(l)
    BY <1>3
  <2>2. CASE \E passed \in BOOLEAN : TestReturns(l, passed)
    <3>1. loop[l].skill \in Skills /\ loop[l].skill \in Known
      BY <2>2, LoopSkill DEF TestReturns
    <3> QED
      BY <2>2, <3>1 DEF TestReturns, history, Known, Order!Promote
  <2>3. CASE ~\E passed \in BOOLEAN : TestReturns(l, passed)
    BY <2>1, <2>3 DEF LoopStep, LoopValidates, LoopRetries, LoopPicksDev, LoopResumes
  <2> QED
    BY <2>2, <2>3
<1>4. CASE (\E s \in Skills : ZombieEnds(s)) \/ Fault
  BY <1>4 DEF ZombieEnds, Fault, RunnerFails, AgentTimesOut, Restart
<1>5. CASE Command
  <2>1. CASE \E s \in Skills : Confirm(s) \/ PatchDone(s)
    BY <2>1 DEF Confirm, PatchDone, Order!Approve
  <2>2. CASE \E s \in Skills : Retry(s)
    BY <2>2 DEF Retry, Order!TakeOver
  <2>3. CASE XbotStart \/ \E a \in Agents : StopAgent(a) \/ KillAgent(a)
    BY <2>3 DEF XbotStart, StopAgent, KillAgent, Killed
  <2> QED
    BY <1>5, <2>1, <2>2, <2>3 DEF Command
<1>6. CASE UNCHANGED vars
  BY <1>6 DEF vars
<1> QED
  BY <1>1, <1>2, <1>3, <1>4, <1>5, <1>6 DEF Next

(* The pipeline starts and finishes skills only as DependencyOrder allows.  *)
THEOREM Implements == Spec => ImplementsOrder
<1>1. Init => Order!Init
  BY DEF Init, Order!Init
<1>2. IInv /\ [Next]_vars => [Order!Next]_(Order!orderVars)
  BY StepRefines
<1> QED
  BY <1>1, <1>2, IInvHolds, PTL DEF ImplementsOrder, Spec, Order!Spec

=============================================================================
