-------------------------- MODULE SkillWorkProofs --------------------------
(***************************************************************************)
(* More proofs about SkillPipeline, on top of its invariant IInv: who      *)
(* holds the eval lock, that a pass never puts a second developer on a     *)
(* target, that work under way is served, that a skill that is done is     *)
(* left alone, and that no mark of the test loop is left behind.           *)
(***************************************************************************)
EXTENDS SkillPipelineProofs

-----------------------------------------------------------------------------
(* What the operations do to each agent.                                    *)

(* The agents form a function into their records.                           *)
LEMMA AgentType == IInv => agent \in [Agents -> AgentRecord]
BY DEF IInv, AgentsOK, AgentsFit

(* Freeing a slot changes nothing else.                                     *)
LEMMA SettledIs ==
  ASSUME NEW r \in AgentRecord
  PROVE  \/ Settled(r) = r
         \/ r.pc \in {"gone", "taskless"} /\ ~r.listed /\ Settled(r) = NoAgent
BY DEF Settled

(* An agent that is replaced keeps its task: it is only dropped from the    *)
(* list and, if it was active, paused.                                      *)
Replaced(r, q) ==
  \/ r.pc \in {"gone", "taskless"} /\ q = NoAgent
  \/ /\ q.pc = r.pc /\ q.skill = r.skill /\ q.target = r.target /\ q.client = r.client
     /\ ~q.listed
     /\ q.status = IF r.status \in ActiveStatus THEN "paused" ELSE r.status

(* A spawn takes its slot, replaces the agents of its skill and target and  *)
(* leaves the others alone.                                                 *)
LEMMA SpawnEffect ==
  ASSUME NEW ag \in [Agents -> AgentRecord], NEW x \in Agents, NEW s, NEW t
  PROVE  LET new == WithSpawn(ag, x, s, t) IN
         /\ new[x].pc = "spawned" /\ new[x].skill = s /\ new[x].target = t
         /\ new[x].status = "starting" /\ new[x].listed /\ new[x].client = "none"
         /\ \A b \in Agents \ {x} :
              \/ new[b] = ag[b] /\ ~(ag[b].listed /\ ag[b].skill = s /\ ag[b].target = t)
              \/ /\ ag[b].listed /\ ag[b].skill = s /\ ag[b].target = t
                 /\ Replaced(ag[b], new[b])
<1> DEFINE new == WithSpawn(ag, x, s, t)
           st(b) == IF ag[b].status \in ActiveStatus THEN "paused" ELSE ag[b].status
           former(b) == [ag[b] EXCEPT !.status = st(b), !.exit = TRUE, !.listed = FALSE]
<1>1. /\ new[x].pc = "spawned" /\ new[x].skill = s /\ new[x].target = t
      /\ new[x].status = "starting" /\ new[x].listed /\ new[x].client = "none"
  BY DEF WithSpawn, NoAgent
<1>2. ASSUME NEW b \in Agents \ {x}
      PROVE  new[b] = IF ag[b].listed /\ ag[b].skill = s /\ ag[b].target = t
                      THEN Settled(former(b)) ELSE ag[b]
  BY DEF WithSpawn
<1>3. ASSUME NEW b \in Agents
      PROVE  /\ former(b).pc = ag[b].pc /\ former(b).skill = ag[b].skill
             /\ former(b).target = ag[b].target /\ former(b).client = ag[b].client
             /\ ~former(b).listed /\ former(b).status = st(b)
  BY DEF AgentRecord
<1> HIDE DEF new, former
<1>4. ASSUME NEW b \in Agents
      PROVE  Replaced(ag[b], Settled(former(b)))
  BY <1>3 DEF Settled, Replaced
<1>5. QED
  BY <1>1, <1>2, <1>4 DEF new

(* What a pass does to the agents: the spawn it awaited gets its task, and  *)
(* it spawns another agent or its owner goes on.                            *)
PassBase(ag) ==
  \/ spawner.owner = "none" /\ ag = agent
  \/ /\ spawner.owner # "none" /\ spawner.dev \in Agents
     /\ agent[spawner.dev].pc = "spawned"
     /\ ag = WithTask(agent, spawner.dev)
PassLeaves(ag) ==
  \/ \E p : (p \in Agents => agent[p].pc = "confirming") /\ agent' = AgentsAfterPass(ag, p)
  \/ \E s \in Skills, t \in Targets :
       Slots(s, t) # {} /\ agent' = WithSpawn(ag, Slot(s, t), s, t)

(* A pass step is one of these.                                             *)
LEMMA PassEffect ==
  ASSUME IInv, (\E o \in Callers : PassBegins(o)) \/ PassContinues
  PROVE  \E ag \in [Agents -> AgentRecord] : PassBase(ag) /\ PassLeaves(ag)
<1>1. ASSUME NEW ag, NEW p, NEW done, NEW active, NEW from, NEW ent,
             p \in Agents => agent[p].pc = "confirming",
             PassFrom(p, done, active, from, ent, ag)
      PROVE  PassLeaves(ag)
  BY <1>1 DEF PassFrom, PassSpawns, Unserved, PassLeaves
<1>2. CASE \E o \in Callers : PassBegins(o)
  <2>1. PICK o \in Callers : PassBegins(o)
    BY <1>2
  <2>2. o \in Agents => agent[o].pc = "confirming"
    BY <2>1, ConfigAssumption DEF PassBegins, Waiting
  <2>3. PassLeaves(agent)
    BY <1>1, <2>1, <2>2 DEF PassBegins, PassRefused, PassLeaves
  <2>4. PassBase(agent)
    BY <2>1 DEF PassBegins, PassBase
  <2> QED
    BY <2>3, <2>4, AgentType
<1>3. CASE PassContinues
  <2> DEFINE ag == WithTask(agent, spawner.dev)
             o == spawner.owner
  <2>1. /\ spawner.owner # "none" /\ spawner.dev \in Agents
        /\ agent[spawner.dev].pc = "spawned" /\ spawner \in PassRecord
    BY <1>3 DEF PassContinues, IInv, CallersOK, SpawnsAwaited, PassOK
  <2>2. o \in Agents => agent[o].pc = "confirming"
    BY <2>1, ConfigAssumption DEF IInv, CallersOK, SpawnLockOwned
  <2>3. ag \in [Agents -> AgentRecord]
    BY <2>1, AgentType DEF WithTask, AgentRecord, TaskPc
  <2>4. PassLeaves(ag)
    <3>1. CASE spawner.left # {}
      <4>1. PassSpawns(o, spawner.done, spawner.active, spawner.skill, spawner.left, ag)
        BY <1>3, <3>1 DEF PassContinues
      <4>2. spawner.skill \in Skills /\ spawner.left \subseteq Targets
        BY <2>1 DEF IInv, PassOK, PassIsCovered, PassRecord
      <4> QED
        BY <4>1, <4>2 DEF PassSpawns, PassLeaves
    <3>2. CASE spawner.left = {}
      <4>1. PassFrom(o, spawner.done, spawner.active, spawner.skill + 1,
                     [entry EXCEPT ![spawner.skill] = "writing"], ag)
        BY <1>3, <3>2 DEF PassContinues
      <4> HIDE DEF ag, o
      <4> QED
        BY <1>1, <2>2, <4>1
    <3> QED
      BY <3>1, <3>2
  <2>5. PassBase(ag)
    BY <2>1 DEF PassBase
  <2> QED
    BY <2>3, <2>4, <2>5
<1> QED
  BY <1>2, <1>3

-----------------------------------------------------------------------------
(* The eval lock.                                                           *)

(* A step that neither takes nor releases an eval lock starts and ends no   *)
(* evaluation.                                                              *)
EvalsStay ==
  /\ evalLock' = evalLock
  /\ \A x \in Agents : /\ agent'[x].pc = "evaluating" <=> agent[x].pc = "evaluating"
                       /\ agent[x].pc = "evaluating" => agent'[x].skill = agent[x].skill

(* Such a step keeps the locks owned.                                       *)
LEMMA EvalsStayOK == EvalLockOwned /\ EvalsStay => EvalLockOwned'
BY DEF EvalLockOwned, EvalsStay

(* One agent changes and was not, and is not, evaluating.                   *)
LEMMA EvalsStayOne ==
  ASSUME IInv, NEW a \in Agents, NEW r, agent' = [agent EXCEPT ![a] = r],
         agent[a].pc # "evaluating", r.pc # "evaluating", evalLock' = evalLock
  PROVE  EvalsStay
BY AgentType DEF EvalsStay

(* Freeing a slot ends no evaluation.                                       *)
LEMMA SettledNotEval == ASSUME NEW r PROVE Settled(r).pc = "evaluating" <=> r.pc = "evaluating"
BY DEF Settled, NoAgent

(* A spawn ends no evaluation: whoever is replaced keeps its task.          *)
LEMMA SpawnNotEval ==
  ASSUME NEW ag \in [Agents -> AgentRecord], NEW x \in Agents, NEW s, NEW t,
         ag[x].pc # "evaluating"
  PROVE  LET new == WithSpawn(ag, x, s, t) IN
         \A b \in Agents : /\ new[b].pc = "evaluating" <=> ag[b].pc = "evaluating"
                           /\ ag[b].pc = "evaluating" => new[b].skill = ag[b].skill
<1> DEFINE new == WithSpawn(ag, x, s, t)
<1>1. /\ new[x].pc = "spawned"
      /\ \A b \in Agents \ {x} : new[b] = ag[b] \/ Replaced(ag[b], new[b])
  BY SpawnEffect
<1> HIDE DEF new
<1>2. QED
  BY <1>1 DEF Replaced, NoAgent, new

(* The runner's steps before and after the evaluation.                      *)
LEMMA RunnerNotEval ==
  ASSUME IInv, NEW a \in Agents,
         TaskCreated(a) \/ RunnerStarts(a) \/ RunnerFails(a) \/ WorkEnds(a)
           \/ EvaluationQueued(a) \/ RunnerLeaves(a)
  PROVE  EvalsStay
<1>1. agent[a] \in AgentRecord
  BY AgentType
<1>2. CASE TaskCreated(a) \/ RunnerStarts(a) \/ EvaluationQueued(a)
  BY <1>1, <1>2, EvalsStayOne, AgentType
  DEF TaskCreated, RunnerStarts, EvaluationQueued, WithTask, AgentRecord
<1>3. CASE RunnerFails(a)
  <2>1. PICK status : agent' = [agent EXCEPT ![a] =
                        Settled([agent[a] EXCEPT !.status = status, !.pc = "gone",
                                                 !.client = Closed(agent[a].client)])]
    BY <1>3 DEF RunnerFails
  <2> DEFINE q == [agent[a] EXCEPT !.status = status, !.pc = "gone",
                                   !.client = Closed(agent[a].client)]
  <2>2. q.pc = "gone" /\ agent[a].pc # "evaluating" /\ evalLock' = evalLock
    BY <1>1, <1>3 DEF RunnerFails, AgentRecord
  <2>3. agent' = [agent EXCEPT ![a] = Settled(q)]
    BY <2>1
  <2> HIDE DEF q
  <2> QED
    BY <2>2, <2>3, SettledNotEval, EvalsStayOne
<1>4. CASE WorkEnds(a)
  <2> DEFINE r == agent[a]
             over(status) == [r EXCEPT !.status = status, !.pc = AfterWork(r)]
             next == [r EXCEPT !.status = "done", !.pc = "finishing"]
  <2>1. PICK q : /\ agent' = [agent EXCEPT ![a] = q]
                 /\ q = next \/ \E status : q = Settled(over(status))
    BY <1>4 DEF WorkEnds
  <2>2. \A status : over(status).pc # "evaluating"
    BY <1>1 DEF AfterWork, AgentRecord
  <2>3. next.pc # "evaluating" /\ r.pc # "evaluating" /\ evalLock' = evalLock
    BY <1>1, <1>4 DEF WorkEnds, AgentRecord
  <2> HIDE DEF over, next
  <2> QED
    BY <2>1, <2>2, <2>3, SettledNotEval, EvalsStayOne
<1>5. CASE RunnerLeaves(a)
  <2> DEFINE q == [agent[a] EXCEPT !.pc = "gone", !.client = Closed(agent[a].client)]
  <2>1. agent' = [agent EXCEPT ![a] = Settled(q)]
    BY <1>5 DEF RunnerLeaves
  <2>2. q.pc = "gone" /\ agent[a].pc # "evaluating" /\ evalLock' = evalLock
    BY <1>1, <1>5 DEF RunnerLeaves, AgentRecord
  <2> HIDE DEF q
  <2> QED
    BY <2>1, <2>2, SettledNotEval, EvalsStayOne
<1> QED
  BY <1>2, <1>3, <1>4, <1>5

(* The verdict is applied after the lock was released.                      *)
LEMMA VerdictNotEval ==
  ASSUME IInv, NEW a \in Agents, RejectionHandled(a) \/ PassHandled(a)
  PROVE  EvalsStay
<1>1. agent[a] \in AgentRecord
  BY AgentType
<1>2. ASSUME NEW r \in AgentRecord
      PROVE  Finished(r).pc # "evaluating" /\ RetriedInSession(r).pc # "evaluating"
  <2> DEFINE q == [r EXCEPT !.status = IF r.status = "done" THEN RestStatus(r.skill) ELSE r.status,
                            !.pc = AfterWork(r)]
             p == [r EXCEPT !.status = "running", !.pc = "gone"]
  <2>1. q.pc # "evaluating" /\ Finished(r) = Settled(q)
    BY DEF Finished, AfterWork, AgentRecord
  <2>2. p.pc = "gone"
    BY DEF AgentRecord
  <2>3. r.client # "open" => RetriedInSession(r) = Settled(p)
    BY DEF RetriedInSession
  <2>4. r.client = "open" => RetriedInSession(r).pc = "working"
    BY DEF RetriedInSession, AgentRecord
  <2> HIDE DEF q, p
  <2> QED
    BY <2>1, <2>2, <2>3, <2>4, SettledNotEval
<1>3. CASE RejectionHandled(a)
  <2>1. PICK q \in {Finished(agent[a]), RetriedInSession(agent[a])} : agent' = [agent EXCEPT ![a] = q]
    BY <1>3 DEF RejectionHandled, SentToReview
  <2>2. agent[a].pc # "evaluating" /\ evalLock' = evalLock
    BY <1>3 DEF RejectionHandled
  <2>3. q.pc # "evaluating"
    BY <1>1, <1>2, <2>1
  <2> QED
    BY <2>1, <2>2, <2>3, EvalsStayOne
<1>4. CASE PassHandled(a)
  <2> DEFINE r == agent[a]
             e == [r EXCEPT !.exit = TRUE]
  <2>1. r.pc # "evaluating" /\ evalLock' = evalLock
    BY <1>4 DEF PassHandled
  <2>2. CASE agent' = Released([agent EXCEPT ![a].pc = "confirming"], agent[a].skill)
    BY <1>1, <2>1, <2>2, AgentType DEF Released, EvalsStay, AgentRecord
  <2>3. CASE \E q \in {Finished(r), Finished(e)} : agent' = [agent EXCEPT ![a] = q]
    <3>1. e \in AgentRecord
      BY <1>1 DEF AgentRecord
    <3> HIDE DEF e
    <3>2. PICK q \in {Finished(r), Finished(e)} : agent' = [agent EXCEPT ![a] = q]
      BY <2>3
    <3>3. q.pc # "evaluating"
      BY <1>1, <1>2, <3>1, <3>2
    <3> HIDE DEF r
    <3> QED
      BY <2>1, <3>2, <3>3, EvalsStayOne DEF r
  <2> QED
    BY <1>4, <2>2, <2>3 DEF PassHandled
<1> QED
  BY <1>3, <1>4

(* A pass and the spawns of a loop or a command start no evaluation.        *)
LEMMA SpawnsNotEval ==
  ASSUME IInv, \/ (\E o \in Callers : PassBegins(o)) \/ PassContinues
               \/ \E l \in Loops : LoopRetries(l) \/ LoopPicksDev(l)
               \/ \E s \in Skills : Retry(s)
  PROVE  EvalsStay
<1>1. CASE (\E o \in Callers : PassBegins(o)) \/ PassContinues
  <2>1. PICK ag \in [Agents -> AgentRecord] : PassBase(ag) /\ PassLeaves(ag)
    BY <1>1, PassEffect
  <2>2. \A b \in Agents : /\ ag[b].pc = "evaluating" <=> agent[b].pc = "evaluating"
                          /\ ag[b].skill = agent[b].skill
                          /\ agent[b].pc # "spawned" => ag[b].pc = agent[b].pc
    BY <2>1, AgentType DEF PassBase, WithTask, AgentRecord
  <2>3. evalLock' = evalLock
    BY <1>1 DEF PassBegins, PassContinues
  <2>4. CASE \E p : (p \in Agents => agent[p].pc = "confirming") /\ agent' = AgentsAfterPass(ag, p)
    <3>1. PICK p : (p \in Agents => agent[p].pc = "confirming") /\ agent' = AgentsAfterPass(ag, p)
      BY <2>4
    <3> DEFINE q == [ag[p] EXCEPT !.pc = AfterWork(ag[p])]
    <3>2. p \in Agents => q.pc # "evaluating" /\ agent'[p] = Settled(q)
      BY <3>1 DEF AgentsAfterPass, AfterWork, AgentRecord
    <3>3. \A b \in Agents : b # p => agent'[b] = ag[b]
      BY <3>1 DEF AgentsAfterPass
    <3> HIDE DEF q
    <3> QED
      BY <2>2, <2>3, <3>1, <3>2, <3>3, SettledNotEval DEF EvalsStay
  <2>5. CASE \E s \in Skills, t \in Targets :
               Slots(s, t) # {} /\ agent' = WithSpawn(ag, Slot(s, t), s, t)
    <3>1. PICK s \in Skills, t \in Targets :
                 Slots(s, t) # {} /\ agent' = WithSpawn(ag, Slot(s, t), s, t)
      BY <2>5
    <3>2. Slot(s, t) \in Agents /\ agent[Slot(s, t)].pc # "evaluating"
      BY <3>1, SlotOK DEF Slots
    <3> QED
      BY <2>2, <2>3, <3>1, <3>2, SpawnNotEval DEF EvalsStay
  <2> QED
    BY <2>1, <2>4, <2>5 DEF PassLeaves
<1>2. CASE \E s \in Skills : Slots(s, Untargeted) # {} /\ evalLock' = evalLock
                             /\ agent' = WithSpawn(agent, Slot(s, Untargeted), s, Untargeted)
  <2>1. PICK s \in Skills : Slots(s, Untargeted) # {} /\ evalLock' = evalLock
                            /\ agent' = WithSpawn(agent, Slot(s, Untargeted), s, Untargeted)
    BY <1>2
  <2>2. Slot(s, Untargeted) \in Agents /\ agent[Slot(s, Untargeted)].pc # "evaluating"
    BY <2>1, SlotOK DEF Slots
  <2> QED
    BY <2>1, <2>2, SpawnNotEval, AgentType DEF EvalsStay
<1>3. CASE \E l \in Loops : LoopRetries(l)
  <2>1. PICK l \in Loops : LoopRetries(l)
    BY <1>3
  <2>2. loop[l].skill \in Skills /\ evalLock' = evalLock
    BY <2>1, LoopSkill DEF LoopRetries
  <2>3. CASE agent' = agent
    BY <2>2, <2>3 DEF EvalsStay
  <2> QED
    BY <1>2, <2>1, <2>2, <2>3 DEF LoopRetries
<1>4. CASE \E l \in Loops : LoopPicksDev(l)
  <2>1. PICK l \in Loops : LoopPicksDev(l)
    BY <1>4
  <2>2. evalLock' = evalLock /\ (agent' = agent \/ agent' = WithTask(agent, loop[l].dev))
    BY <2>1 DEF LoopPicksDev
  <2>3. loop[l].dev \in Agents => agent[loop[l].dev].pc = "spawned"
    BY <2>1, ConfigAssumption DEF LoopPicksDev, IInv, CallersOK, SpawnsAwaited, Awaits
  <2> QED
    BY <2>2, <2>3, AgentType DEF EvalsStay, WithTask, AgentRecord
<1>5. CASE \E s \in Skills : Retry(s)
  BY <1>2, <1>5 DEF Retry
<1> QED
  BY <1>1, <1>3, <1>4, <1>5

(* Stops and confirmations change what an agent is told, not what it does.  *)
LEMMA CommandsNotEval ==
  ASSUME IInv, (\E a \in Agents : StopAgent(a)) \/ \E s \in Skills : Confirm(s)
  PROVE  EvalsStay
<1>1. CASE \E a \in Agents : StopAgent(a)
  BY <1>1, AgentType DEF StopAgent, EvalsStay, AgentRecord
<1>2. CASE \E s \in Skills : Confirm(s)
  <2>1. PICK s \in Skills : Confirm(s)
    BY <1>2
  <2>2. PICK named \in {"none"} \cup {a \in Agents : agent[a].listed /\ agent[a].skill = s} :
          agent' = Released([a \in Agents |->
                     IF a = named THEN [agent[a] EXCEPT !.status = "confirmed_done"]
                                  ELSE agent[a]], s)
    BY <2>1 DEF Confirm
  <2>3. evalLock' = evalLock
    BY <2>1 DEF Confirm
  <2> QED
    BY <2>2, <2>3, AgentType DEF Released, EvalsStay, AgentRecord
<1> QED
  BY <1>1, <1>2

(* A cancelled task leaves no eval lock behind and takes nobody else's.     *)
LEMMA CancelKeepsLocks ==
  ASSUME IInv, NEW Holders, evalLock \in [Skills -> Holders], EvalLockOwned,
         NEW a \in Agents, NEW q, TaskCancelled(a),
         agent' = AgentsAfterCancel(a, q), q.pc # "evaluating"
  PROVE  EvalLockOwned'
<1>1. Settled(q).pc # "evaluating"
  BY SettledNotEval
<1>2. ASSUME NEW b \in Agents, b # a
      PROVE  /\ agent'[b].pc = "evaluating" <=> agent[b].pc = "evaluating"
             /\ agent[b].pc = "evaluating" => agent'[b].skill = agent[b].skill
  <2>1. CASE spawner.owner = a /\ b = spawner.dev
    <3> DEFINE p == [agent[b] EXCEPT !.pc = "taskless"]
    <3>1. p.pc = "taskless" /\ agent[b].pc = "spawned"
      BY <2>1, ConfigAssumption, AgentType DEF IInv, CallersOK, SpawnsAwaited, AgentRecord
    <3>2. agent'[b] = Settled(p)
      BY <1>2, <2>1 DEF AgentsAfterCancel
    <3> HIDE DEF p
    <3> QED
      BY <3>1, <3>2, SettledNotEval
  <2>2. CASE ~(spawner.owner = a /\ b = spawner.dev)
    BY <1>2, <2>2 DEF AgentsAfterCancel
  <2> QED
    BY <2>1, <2>2
<1>3. agent'[a] = Settled(q)
  BY DEF AgentsAfterCancel
<1>4. evalLock' = [evalLock EXCEPT ![agent[a].skill] =
                      IF evalLock[agent[a].skill] = a THEN "none" ELSE evalLock[agent[a].skill]]
  BY DEF TaskCancelled
<1>5. ASSUME NEW s \in Skills, NEW b \in Agents
      PROVE  evalLock'[s] = b <=> agent'[b].pc = "evaluating" /\ agent'[b].skill = s
  BY <1>1, <1>2, <1>3, <1>4, ConfigAssumption DEF EvalLockOwned
<1> QED
  BY <1>5 DEF EvalLockOwned

(* A kill keeps the eval locks owned.                                       *)
LEMMA KilledKeepsLocks ==
  ASSUME IInv, NEW Holders, evalLock \in [Skills -> Holders], EvalLockOwned,
         NEW a \in Agents, Killed(a)
  PROVE  EvalLockOwned'
<1> DEFINE q == [agent[a] EXCEPT !.status = "stopped", !.exit = TRUE, !.listed = FALSE,
                                 !.client = Closed(agent[a].client),
                                 !.pc = IF HasTask(agent[a]) THEN "gone" ELSE agent[a].pc]
<1>1. q.pc # "evaluating"
  BY AgentType DEF HasTask, AgentRecord
<1>2. TaskCancelled(a) /\ agent' = AgentsAfterCancel(a, q)
  BY DEF Killed
<1> HIDE DEF q
<1> QED
  BY <1>1, <1>2, CancelKeepsLocks

(* Every step keeps the eval locks owned, whoever else may hold one.        *)
LEMMA EvalLockStep ==
  ASSUME NEW Holders
  PROVE  IInv /\ evalLock \in [Skills -> Holders] /\ EvalLockOwned /\ [Next]_vars => EvalLockOwned'
<1> SUFFICES ASSUME IInv, evalLock \in [Skills -> Holders], EvalLockOwned, [Next]_vars
             PROVE  EvalLockOwned'
  OBVIOUS
<1>1. CASE \E a \in Agents : EvaluatorStarts(a)
  <2>1. PICK a \in Agents : EvaluatorStarts(a)
    BY <1>1
  <2>2. agent[a].skill \in Skills
    BY <2>1, AgentSkill DEF EvaluatorStarts
  <2> QED
    BY <2>1, <2>2, AgentType, ConfigAssumption
    DEF EvaluatorStarts, EvalLockFree, EvalLockOwned, AgentRecord
<1>2. CASE \E a \in Agents, verdict \in {"passed", "rejected"} : EvaluatorReturns(a, verdict)
  <2>1. PICK a \in Agents, verdict \in {"passed", "rejected"} : EvaluatorReturns(a, verdict)
    BY <1>2
  <2>2. agent[a].skill \in Skills
    BY <2>1, AgentSkill DEF EvaluatorReturns
  <2> QED
    BY <2>1, <2>2, AgentType, ConfigAssumption
    DEF EvaluatorReturns, EvalLockOwned, AgentRecord
<1>3. CASE \E a \in Agents : KillAgent(a)
  BY <1>3, KilledKeepsLocks DEF KillAgent
<1>4. CASE \E a \in Agents : AgentTimesOut(a)
  <2>1. PICK a \in Agents : AgentTimesOut(a)
    BY <1>4
  <2> DEFINE q == [agent[a] EXCEPT !.pc = "gone", !.client = Closed(agent[a].client),
                       !.status = IF Harness = "openclaw" THEN "failed" ELSE "stopped"]
  <2>2. q.pc # "evaluating"
    BY AgentType DEF AgentRecord
  <2>3. TaskCancelled(a) /\ agent' = AgentsAfterCancel(a, q)
    BY <2>1 DEF AgentTimesOut
  <2> HIDE DEF q
  <2> QED
    BY <2>2, <2>3, CancelKeepsLocks
<1>5. CASE Restart
  BY <1>5, ConfigAssumption DEF Restart, EvalLockOwned, NoAgent
<1>6. CASE EvalsStay
  BY <1>6, EvalsStayOK
<1>7. CASE agent' = agent /\ evalLock' = evalLock
  BY <1>6, <1>7 DEF EvalsStay
<1>8. CASE \E a \in Agents : RunnerStep(a)
  BY <1>1, <1>2, <1>6, <1>8, RunnerNotEval, VerdictNotEval DEF RunnerStep
<1>9. CASE \E l \in Loops : LoopStep(l)
  BY <1>6, <1>7, <1>9, SpawnsNotEval
  DEF LoopStep, TestReturns, LoopValidates, LoopResumes
<1>10. CASE Command
  BY <1>3, <1>6, <1>7, <1>10, SpawnsNotEval, CommandsNotEval DEF Command, XbotStart, PatchDone
<1>11. CASE Fault
  BY <1>4, <1>5, <1>6, <1>11, RunnerNotEval DEF Fault
<1>12. CASE \E s \in Skills : ZombieEnds(s)
  BY <1>7, <1>12 DEF ZombieEnds
<1>13. CASE UNCHANGED vars
  BY <1>7, <1>13 DEF vars
<1> QED
  BY <1>6, <1>8, <1>9, <1>10, <1>11, <1>12, <1>13, SpawnsNotEval DEF Next

(* The eval lock of a skill is held by the agent whose evaluator runs and   *)
(* by nobody else, whatever is killed, replaced or times out meanwhile.     *)
THEOREM EvalLockHolds == Spec => []EvalLockOwned
<1>1. Init => EvalLockOwned
  BY ConfigAssumption DEF Init, EvalLockOwned, NoAgent
<1>2. IInv /\ LocksOK /\ EvalLockOwned /\ [Next]_vars => EvalLockOwned'
  BY EvalLockStep DEF LocksOK
<1> QED
  BY <1>1, <1>2, LocksHold, IInvHolds, PTL DEF Spec

-----------------------------------------------------------------------------
(* One developer per target, for subprocess agents that nobody stops, kills *)
(* or confirms by name: such a command takes a running agent out of the     *)
(* active pairs a pass looks at.                                            *)

Uninterrupted == Harness = "openclaw" /\ Env \cap {"stop", "kill", "confirm"} = {}

(* An agent that a pass spawned and that has not ended its work.            *)
Young(r) == r.pc \in {"spawned", "starting", "working"} /\ r.target # Untargeted

(* The passes see every young agent, and no two are of a skill and target.  *)
(* A pass that is under way will only spawn where no agent is young: its    *)
(* snapshot holds the young agents that were there when it began, and those *)
(* it spawned itself are of skills and targets it has dealt with.           *)
YoungListed == \A a \in Agents : Young(agent[a]) => Active(a)
NoneOpen    == \A a \in Agents : agent[a].client = "none"
YoungApart  ==
  \A a, b \in Agents : a # b /\ Young(agent[a]) /\ Young(agent[b]) =>
    ~(agent[a].skill = agent[b].skill /\ agent[a].target = agent[b].target)
DealtWith(r) ==
  \/ <<r.skill, r.target>> \in spawner.active
  \/ r.skill < spawner.skill
  \/ r.skill = spawner.skill /\ r.target \notin spawner.left
PassAhead ==
  spawner.owner # "none" =>
    /\ \A a \in Agents : Young(agent[a]) => DealtWith(agent[a])
    /\ \A t \in spawner.left : <<spawner.skill, t>> \notin spawner.active
    /\ Young(agent[spawner.dev]) /\ agent[spawner.dev].skill = spawner.skill
DevsInv == YoungListed /\ NoneOpen /\ YoungApart /\ PassAhead

(* What the theorem is about follows.                                       *)
LEMMA DevsEnough == DevsInv => OneDevPerTarget
BY DEF DevsInv, YoungApart, OneDevPerTarget, Develops, Young

(* An agent that moves on without becoming young.                           *)
Calm(r, q) ==
  /\ q.client = "none"
  /\ Young(q) => /\ Young(r) /\ q.listed /\ q.status \in ActiveStatus
                 /\ q.skill = r.skill /\ q.target = r.target

(* Steps that spawn nobody keep the invariant.                              *)
LEMMA CalmKeeps ==
  ASSUME IInv, DevsInv, \A x \in Agents : Calm(agent[x], agent'[x]),
         \/ spawner'.owner = "none"
         \/ spawner' = spawner /\ (agent[spawner.dev].pc = "spawned" =>
                                     /\ Young(agent'[spawner.dev]) <=> Young(agent[spawner.dev])
                                     /\ agent'[spawner.dev].skill = agent[spawner.dev].skill)
  PROVE  DevsInv'
<1>1. YoungListed' /\ NoneOpen' /\ YoungApart'
  BY DEF DevsInv, Calm, YoungListed, NoneOpen, YoungApart, Active
<1>2. CASE spawner'.owner = "none"
  BY <1>1, <1>2 DEF DevsInv, PassAhead
<1>3. CASE spawner' = spawner /\ (agent[spawner.dev].pc = "spawned" =>
                                     /\ Young(agent'[spawner.dev]) <=> Young(agent[spawner.dev])
                                     /\ agent'[spawner.dev].skill = agent[spawner.dev].skill)
  <2>1. ASSUME spawner.owner # "none"
        PROVE  agent[spawner.dev].pc = "spawned"
    BY <2>1 DEF IInv, CallersOK, SpawnsAwaited
  <2>2. PassAhead'
    BY <1>3, <2>1 DEF DevsInv, PassAhead, Calm, DealtWith
  <2> QED
    BY <1>1, <2>2 DEF DevsInv
<1> QED
  BY <1>2, <1>3

(* One agent moves on calmly.                                               *)
LEMMA OneCalm ==
  ASSUME IInv, DevsInv, NEW a \in Agents, NEW q, agent' = [agent EXCEPT ![a] = q],
         Calm(agent[a], q), spawner' = spawner,
         agent[a].pc = "spawned" => spawner.owner = "none" \/ spawner.dev # a
  PROVE  DevsInv'
<1>1. \A x \in Agents : x # a => agent'[x] = agent[x]
  BY AgentType
<1>2. agent'[a] = q
  BY AgentType
<1>3. \A x \in Agents : Calm(agent[x], agent[x])
  BY DEF DevsInv, Calm, YoungListed, NoneOpen, Active
<1>4. \A x \in Agents : Calm(agent[x], agent'[x])
  BY <1>1, <1>2, <1>3
<1>5. spawner.owner # "none" => spawner.dev \in Agents
  BY DEF IInv, CallersOK, SpawnsAwaited
<1> QED
  BY <1>1, <1>4, <1>5, CalmKeeps

(* Freeing a slot is calm.                                                  *)
LEMMA SettledCalm == ASSUME NEW r, NEW q, Calm(r, q) PROVE Calm(r, Settled(q))
BY DEF Calm, Settled, NoAgent, Young

(* Every step of a runner that is neither a spawn nor the end of a pass.    *)
LEMMA RunnerCalm ==
  ASSUME Uninterrupted, IInv, DevsInv, NEW a \in Agents,
         RunnerStep(a) \/ RunnerFails(a)
  PROVE  DevsInv'
<1> DEFINE r == agent[a]
<1>1. r \in AgentRecord /\ r.client = "none" /\ spawner' = spawner
      /\ (Young(r) => r.listed /\ r.status \in ActiveStatus)
  BY AgentType
  DEF DevsInv, NoneOpen, YoungListed, Active, RunnerStep, TaskCreated, RunnerStarts, WorkEnds,
      EvaluationQueued, EvaluatorStarts, EvaluatorReturns, RejectionHandled, PassHandled,
      RunnerLeaves, RunnerFails
<1>2. CASE TaskCreated(a) \/ RunnerStarts(a) \/ EvaluationQueued(a) \/ EvaluatorStarts(a)
           \/ \E verdict \in {"passed", "rejected"} : EvaluatorReturns(a, verdict)
  <2>1. PICK q : agent' = [agent EXCEPT ![a] = q] /\ Calm(r, q)
                 /\ (r.pc = "spawned" => spawner.dev # a)
    <3>1. CASE TaskCreated(a)
      <4> DEFINE q == [r EXCEPT !.pc = "starting"]
      <4>1. agent' = [agent EXCEPT ![a] = q] /\ r.pc = "spawned" /\ spawner.dev # a
        BY <3>1 DEF TaskCreated, WithTask
      <4>2. Calm(r, q)
        BY <1>1, <4>1 DEF Calm, Young, AgentRecord
      <4> QED
        BY <4>1, <4>2
    <3>2. CASE RunnerStarts(a)
      <4> DEFINE q == [r EXCEPT !.pc = "working", !.status = "running",
                                !.client = IF Harness = "sdk" THEN "open" ELSE "none"]
      <4>1. agent' = [agent EXCEPT ![a] = q] /\ r.pc = "starting"
        BY <3>2 DEF RunnerStarts
      <4>2. Calm(r, q)
        BY <1>1, <4>1 DEF Calm, Young, AgentRecord, Uninterrupted, ActiveStatus
      <4> QED
        BY <4>1, <4>2
    <3>3. CASE EvaluationQueued(a)
      <4> DEFINE q == [r EXCEPT !.pc = "queued"]
      <4>1. agent' = [agent EXCEPT ![a] = q] /\ r.pc = "finishing"
        BY <3>3 DEF EvaluationQueued
      <4>2. Calm(r, q)
        BY <1>1 DEF Calm, Young, AgentRecord
      <4> QED
        BY <4>1, <4>2
    <3>4. CASE EvaluatorStarts(a)
      <4> DEFINE q == [r EXCEPT !.pc = "evaluating"]
      <4>1. agent' = [agent EXCEPT ![a] = q] /\ r.pc = "queued"
        BY <3>4 DEF EvaluatorStarts
      <4>2. Calm(r, q)
        BY <1>1 DEF Calm, Young, AgentRecord
      <4> QED
        BY <4>1, <4>2
    <3>5. CASE \E verdict \in {"passed", "rejected"} : EvaluatorReturns(a, verdict)
      <4>1. PICK verdict \in {"passed", "rejected"} : EvaluatorReturns(a, verdict)
        BY <3>5
      <4> DEFINE q == [r EXCEPT !.pc = verdict]
      <4>2. agent' = [agent EXCEPT ![a] = q] /\ r.pc = "evaluating"
        BY <4>1 DEF EvaluatorReturns
      <4>3. Calm(r, q)
        BY <1>1 DEF Calm, Young, AgentRecord
      <4> QED
        BY <4>2, <4>3
    <3> QED
      BY <1>2, <3>1, <3>2, <3>3, <3>4, <3>5
  <2> QED
    BY <1>1, <2>1, OneCalm
<1>3. ASSUME NEW q, agent' = [agent EXCEPT ![a] = Settled(q)],
             q.client = "none", q.pc \in {"gone", "resting"}, r.pc # "spawned"
      PROVE  DevsInv'
  <2>1. Calm(r, q)
    BY <1>3 DEF Calm, Young
  <2> QED
    BY <1>1, <1>3, <2>1, SettledCalm, OneCalm
<1>4. CASE RunnerFails(a) \/ RunnerLeaves(a)
  <2>1. PICK status : agent' = [agent EXCEPT ![a] =
                        Settled([r EXCEPT !.status = status, !.pc = "gone",
                                          !.client = Closed(r.client)])]
                   \/ agent' = [agent EXCEPT ![a] =
                        Settled([r EXCEPT !.pc = "gone", !.client = Closed(r.client)])]
    BY <1>4 DEF RunnerFails, RunnerLeaves
  <2> DEFINE q == [r EXCEPT !.status = status, !.pc = "gone", !.client = Closed(r.client)]
             p == [r EXCEPT !.pc = "gone", !.client = Closed(r.client)]
  <2>2. /\ q.client = "none" /\ q.pc = "gone" /\ p.client = "none" /\ p.pc = "gone"
        /\ r.pc # "spawned"
    BY <1>1, <1>4 DEF Closed, AgentRecord, RunnerFails, RunnerLeaves
  <2>3. agent' = [agent EXCEPT ![a] = Settled(q)] \/ agent' = [agent EXCEPT ![a] = Settled(p)]
    BY <2>1
  <2> HIDE DEF q, p
  <2> QED
    BY <1>3, <2>2, <2>3
<1>5. CASE WorkEnds(a)
  <2> DEFINE over(status) == [r EXCEPT !.status = status, !.pc = AfterWork(r)]
             next == [r EXCEPT !.status = "done", !.pc = "finishing"]
  <2>1. PICK q : /\ agent' = [agent EXCEPT ![a] = q]
                 /\ q = next \/ \E status : q = Settled(over(status))
    BY <1>5 DEF WorkEnds
  <2>2. \A status : over(status).client = "none" /\ over(status).pc = "gone"
    BY <1>1 DEF AfterWork, AgentRecord
  <2>3. Calm(r, next) /\ r.pc = "working"
    BY <1>1, <1>5 DEF Calm, Young, AgentRecord, WorkEnds
  <2> HIDE DEF over, next
  <2>4. CASE q = next
    BY <1>1, <2>1, <2>3, <2>4, OneCalm
  <2>5. CASE \E status : q = Settled(over(status))
    BY <1>3, <2>1, <2>2, <2>3, <2>5
  <2> QED
    BY <2>1, <2>4, <2>5
<1>6. CASE RejectionHandled(a)
  <2>1. ~CanRetryInSession(r) /\ r.pc = "rejected"
    BY <1>1, <1>6 DEF CanRetryInSession, RejectionHandled
  <2>2. agent' = [agent EXCEPT ![a] = Finished(r)]
    BY <1>6, <2>1 DEF RejectionHandled, SentToReview
  <2> DEFINE q == [r EXCEPT !.status = IF r.status = "done" THEN RestStatus(r.skill) ELSE r.status,
                            !.pc = AfterWork(r)]
  <2>3. q.client = "none" /\ q.pc = "gone" /\ agent' = [agent EXCEPT ![a] = Settled(q)]
    BY <1>1, <2>2 DEF Finished, AfterWork, AgentRecord
  <2> HIDE DEF q
  <2> QED
    BY <1>3, <2>1, <2>3
<1>7. CASE PassHandled(a)
  <2>1. r.pc = "passed"
    BY <1>7 DEF PassHandled
  <2>2. ASSUME NEW e \in {r, [r EXCEPT !.exit = TRUE]}, agent' = [agent EXCEPT ![a] = Finished(e)]
        PROVE  DevsInv'
    <3> DEFINE q == [e EXCEPT !.status = IF e.status = "done" THEN RestStatus(e.skill) ELSE e.status,
                              !.pc = AfterWork(e)]
    <3>1. e \in AgentRecord /\ e.client = "none"
      BY <1>1, <2>2 DEF AgentRecord
    <3>2. q.client = "none" /\ q.pc = "gone" /\ agent' = [agent EXCEPT ![a] = Settled(q)]
      BY <2>2, <3>1 DEF Finished, AfterWork, AgentRecord
    <3> HIDE DEF q
    <3> QED
      BY <1>3, <2>1, <3>2
  <2>3. CASE agent' = Released([agent EXCEPT ![a].pc = "confirming"], r.skill)
    <3>1. ASSUME NEW x \in Agents
          PROVE  /\ agent'[x].client = agent[x].client /\ agent'[x].skill = agent[x].skill
                 /\ agent'[x].target = agent[x].target /\ agent'[x].status = agent[x].status
                 /\ agent'[x].listed = agent[x].listed
                 /\ agent'[x].pc = IF x = a THEN "confirming" ELSE agent[x].pc
      BY <2>3, AgentType DEF Released, AgentRecord
    <3>2. ASSUME NEW x \in Agents
          PROVE  /\ Calm(agent[x], agent'[x])
                 /\ agent[x].pc = "spawned" => (Young(agent'[x]) <=> Young(agent[x]))
      BY <2>1, <3>1 DEF Calm, Young, DevsInv, NoneOpen, YoungListed, Active
    <3>3. spawner.owner # "none" => spawner.dev \in Agents
      BY DEF IInv, CallersOK, SpawnsAwaited
    <3>4. CASE spawner.owner = "none"
      BY <1>1, <3>2, <3>4, CalmKeeps
    <3>5. CASE spawner.owner # "none"
      BY <1>1, <3>1, <3>2, <3>3, <3>5, CalmKeeps
    <3> QED
      BY <3>4, <3>5
  <2> QED
    BY <1>7, <2>2, <2>3 DEF PassHandled
<1> QED
  BY <1>2, <1>4, <1>5, <1>6, <1>7 DEF RunnerStep

(* A spawn for a skill and target nobody young works on.                    *)
LEMMA SpawnApart ==
  ASSUME NEW ag \in [Agents -> AgentRecord], NEW x \in Agents, NEW s, NEW t,
         ~Young(ag[x]),
         \A b \in Agents : /\ ag[b].client = "none"
                           /\ Young(ag[b]) => ag[b].listed /\ ag[b].status \in ActiveStatus
                           /\ Young(ag[b]) => ~(ag[b].skill = s /\ ag[b].target = t)
  PROVE  LET new == WithSpawn(ag, x, s, t) IN
         /\ \A b \in Agents : /\ new[b].client = "none"
                              /\ Young(new[b]) => new[b].listed /\ new[b].status \in ActiveStatus
         /\ \A b \in Agents \ {x} : (Young(new[b]) <=> Young(ag[b])) /\ (Young(new[b]) => new[b] = ag[b])
<1> DEFINE new == WithSpawn(ag, x, s, t)
<1>1. /\ new[x].status = "starting" /\ new[x].listed /\ new[x].client = "none"
      /\ \A b \in Agents \ {x} :
           \/ new[b] = ag[b] /\ ~(ag[b].listed /\ ag[b].skill = s /\ ag[b].target = t)
           \/ ag[b].listed /\ ag[b].skill = s /\ ag[b].target = t /\ Replaced(ag[b], new[b])
  BY SpawnEffect
<1> HIDE DEF new
<1>2. ASSUME NEW b \in Agents \ {x}
      PROVE  /\ (Young(new[b]) <=> Young(ag[b])) /\ (Young(new[b]) => new[b] = ag[b])
             /\ new[b].client = "none"
  <2>1. CASE new[b] = ag[b]
    BY <2>1
  <2>2. CASE ag[b].skill = s /\ ag[b].target = t /\ Replaced(ag[b], new[b])
    BY <2>2 DEF Replaced, NoAgent, Young
  <2> QED
    BY <1>1, <2>1, <2>2
<1>3. \A b \in Agents : /\ new[b].client = "none"
                        /\ Young(new[b]) => new[b].listed /\ new[b].status \in ActiveStatus
  BY <1>1, <1>2 DEF ActiveStatus
<1>4. QED
  BY <1>2, <1>3 DEF new

(* A command or a test loop spawns an agent without a target.               *)
LEMMA UntargetedSpawnKeeps ==
  ASSUME IInv, DevsInv, NEW s, Slots(s, Untargeted) # {}, spawner' = spawner,
         agent' = WithSpawn(agent, Slot(s, Untargeted), s, Untargeted)
  PROVE  DevsInv'
<1> DEFINE x == Slot(s, Untargeted)
<1>1. x \in Agents /\ ~Young(agent[x]) /\ (spawner.owner # "none" => spawner.dev # x)
  BY SlotOK DEF Slots, Young
<1>2. \A b \in Agents : /\ agent[b].client = "none"
                        /\ Young(agent[b]) => agent[b].listed /\ agent[b].status \in ActiveStatus
                        /\ Young(agent[b]) => ~(agent[b].skill = s /\ agent[b].target = Untargeted)
  BY DEF DevsInv, NoneOpen, YoungListed, Active, Young
<1> HIDE DEF x
<1>3. /\ \A b \in Agents : /\ agent'[b].client = "none"
                           /\ Young(agent'[b]) => agent'[b].listed /\ agent'[b].status \in ActiveStatus
      /\ \A b \in Agents \ {x} : /\ Young(agent'[b]) <=> Young(agent[b])
                                 /\ Young(agent'[b]) => agent'[b] = agent[b]
  BY <1>1, <1>2, AgentType, SpawnApart DEF x
<1>4. ~Young(agent'[x])
  BY <1>1, AgentType, SpawnEffect DEF x, Young
<1>5. \A b \in Agents : Calm(agent[b], agent'[b])
  BY <1>3, <1>4 DEF Calm
<1>6. spawner.owner # "none" => spawner.dev \in Agents /\ Young(agent[spawner.dev])
  BY DEF IInv, CallersOK, SpawnsAwaited, DevsInv, PassAhead
<1>7. spawner.owner # "none" =>
        Young(agent'[spawner.dev]) /\ agent'[spawner.dev].skill = agent[spawner.dev].skill
  BY <1>1, <1>3, <1>6
<1> QED
  BY <1>5, <1>6, <1>7, CalmKeeps

(* The agents once the spawn that a pass awaited has its task.              *)
LEMMA BaseCalm ==
  ASSUME IInv, DevsInv, NEW ag \in [Agents -> AgentRecord], PassBase(ag)
  PROVE  \A b \in Agents :
           /\ ag[b].client = "none" /\ (Young(ag[b]) <=> Young(agent[b]))
           /\ ag[b].skill = agent[b].skill /\ ag[b].target = agent[b].target
           /\ Young(ag[b]) => ag[b].listed /\ ag[b].status \in ActiveStatus
           /\ agent[b].pc # "spawned" => ag[b] = agent[b]
BY AgentType DEF PassBase, WithTask, DevsInv, NoneOpen, YoungListed, Active, Young, AgentRecord

(* The pass spawns on the first of the targets that are left.               *)
LEMMA PassSpawnKeeps ==
  ASSUME IInv, DevsInv, NEW ag \in [Agents -> AgentRecord], PassBase(ag),
         NEW o \in Callers, NEW done, NEW active, NEW s \in Skills, NEW left \in SUBSET Targets,
         \A t \in left : <<s, t>> \notin active,
         \A b \in Agents : Young(agent[b]) =>
           \/ <<agent[b].skill, agent[b].target>> \in active
           \/ agent[b].skill < s
           \/ agent[b].skill = s /\ agent[b].target \notin left,
         PassSpawns(o, done, active, s, left, ag)
  PROVE  DevsInv'
<1>1. PICK t \in left :
        /\ Slots(s, t) # {}
        /\ agent' = WithSpawn(ag, Slot(s, t), s, t)
        /\ spawner' = [owner |-> o, done |-> done, active |-> active, skill |-> s,
                       left |-> left \ {t}, dev |-> Slot(s, t)]
  BY DEF PassSpawns
<1> DEFINE x == Slot(s, t)
<1>2. x \in Agents /\ ~Young(agent[x])
  BY <1>1, SlotOK DEF Slots, Young
<1>3. \A b \in Agents :
        /\ ag[b].client = "none" /\ (Young(ag[b]) <=> Young(agent[b]))
        /\ ag[b].skill = agent[b].skill /\ ag[b].target = agent[b].target
        /\ Young(ag[b]) => ag[b].listed /\ ag[b].status \in ActiveStatus
  BY BaseCalm
<1>4. ASSUME NEW b \in Agents, Young(ag[b])
      PROVE  ~(ag[b].skill = s /\ ag[b].target = t)
  <2>1. agent[b].skill \in Int /\ s \in Int
    BY AgentType, ConfigAssumption DEF AgentRecord, Skills
  <2>2. \/ <<agent[b].skill, agent[b].target>> \in active
        \/ agent[b].skill < s
        \/ agent[b].skill = s /\ agent[b].target \notin left
    BY <1>3, <1>4
  <2>3. t \in left /\ <<s, t>> \notin active
    BY <1>1
  <2> HIDE DEF x
  <2>4. ag[b].skill = agent[b].skill /\ ag[b].target = agent[b].target
    BY <1>3
  <2> QED
    BY <2>1, <2>2, <2>3, <2>4
<1> HIDE DEF x
<1>5. /\ \A b \in Agents : /\ agent'[b].client = "none"
                           /\ Young(agent'[b]) => agent'[b].listed /\ agent'[b].status \in ActiveStatus
      /\ \A b \in Agents \ {x} : /\ Young(agent'[b]) <=> Young(ag[b])
                                 /\ Young(agent'[b]) => agent'[b] = ag[b]
  BY <1>1, <1>2, <1>3, <1>4, SpawnApart DEF x
<1>6. agent'[x].skill = s /\ agent'[x].target = t /\ Young(agent'[x])
  BY <1>1, <1>2, SpawnEffect DEF x, Young, Targets, Untargeted
<1>7. ASSUME NEW b \in Agents \ {x}, Young(agent'[b])
      PROVE  /\ Young(agent[b]) /\ agent'[b].skill = agent[b].skill
             /\ agent'[b].target = agent[b].target
             /\ ~(agent'[b].skill = s /\ agent'[b].target = t)
  BY <1>3, <1>4, <1>5, <1>7
<1>8. YoungListed' /\ NoneOpen'
  BY <1>5 DEF YoungListed, NoneOpen, Active
<1>9. YoungApart'
  BY <1>6, <1>7 DEF DevsInv, YoungApart
<1>10. /\ spawner'.active = active /\ spawner'.skill = s /\ spawner'.left = left \ {t}
       /\ spawner'.dev = x
  BY <1>1 DEF x
<1>11. PassAhead'
  <2>1. ASSUME NEW b \in Agents, Young(agent'[b])
        PROVE  DealtWith(agent[b])'
    <3>1. CASE b = x
      BY <1>6, <1>10, <3>1 DEF DealtWith
    <3>2. CASE b # x
      BY <1>7, <1>10, <2>1, <3>2 DEF DealtWith
    <3> QED
      BY <3>1, <3>2
  <2> QED
    BY <1>6, <1>10, <2>1 DEF PassAhead
<1> QED
  BY <1>8, <1>9, <1>11 DEF DevsInv

(* The owner of a pass that is over goes on.                                *)
LEMMA PassEndCalm ==
  ASSUME IInv, DevsInv, NEW ag \in [Agents -> AgentRecord], PassBase(ag), NEW p,
         p \in Agents => agent[p].pc = "confirming",
         agent' = AgentsAfterPass(ag, p), spawner'.owner = "none"
  PROVE  DevsInv'
<1>1. ASSUME NEW b \in Agents
      PROVE  Calm(agent[b], agent'[b])
  <2>1. /\ ag[b].client = "none" /\ (Young(ag[b]) <=> Young(agent[b]))
        /\ ag[b].skill = agent[b].skill /\ ag[b].target = agent[b].target
        /\ Young(ag[b]) => ag[b].listed /\ ag[b].status \in ActiveStatus
        /\ ag[b] \in AgentRecord
    BY BaseCalm
  <2>2. CASE b # p
    BY <2>1, <2>2 DEF AgentsAfterPass, Calm
  <2>3. CASE b = p
    <3> DEFINE q == [ag[b] EXCEPT !.pc = AfterWork(ag[b])]
    <3>1. agent'[b] = Settled(q)
      BY <2>3 DEF AgentsAfterPass
    <3>2. Calm(agent[b], q)
      BY <2>1 DEF AfterWork, Calm, Young, AgentRecord
    <3> HIDE DEF q
    <3> QED
      BY <3>1, <3>2, SettledCalm
  <2> QED
    BY <2>2, <2>3
<1> QED
  BY <1>1, CalmKeeps

(* The loop over the entries, from a number that the young agents outside   *)
(* its snapshot are below.                                                  *)
LEMMA PassFromDevs ==
  ASSUME IInv, DevsInv, NEW ag \in [Agents -> AgentRecord], PassBase(ag),
         NEW o \in Callers, o \in Agents => agent[o].pc = "confirming",
         NEW done, NEW active, NEW from, NEW ent,
         \A b \in Agents : Young(agent[b]) =>
           \/ <<agent[b].skill, agent[b].target>> \in active
           \/ \A s \in Skills : s >= from => agent[b].skill < s,
         PassFrom(o, done, active, from, ent, ag)
  PROVE  DevsInv'
<1>1. CASE agent' = AgentsAfterPass(ag, o) /\ spawner' = NoPass
  BY <1>1, NoPassOK, PassEndCalm
<1>2. CASE \E s \in Skills : s >= from /\ PassSpawns(o, done, active, s, Unserved(s, active), ag)
  <2>1. PICK s \in Skills : s >= from /\ PassSpawns(o, done, active, s, Unserved(s, active), ag)
    BY <1>2
  <2>2. /\ Unserved(s, active) \in SUBSET Targets
        /\ \A t \in Unserved(s, active) : <<s, t>> \notin active
    BY DEF Unserved
  <2>3. \A b \in Agents : Young(agent[b]) =>
           \/ <<agent[b].skill, agent[b].target>> \in active
           \/ agent[b].skill < s
           \/ agent[b].skill = s /\ agent[b].target \notin Unserved(s, active)
    BY <2>1
  <2> HIDE DEF Unserved
  <2> QED
    BY <2>1, <2>2, <2>3, PassSpawnKeeps
<1> QED
  BY <1>1, <1>2 DEF PassFrom

(* A step of a pass.                                                        *)
LEMMA PassDevs ==
  ASSUME IInv, DevsInv, (\E o \in Callers : PassBegins(o)) \/ PassContinues
  PROVE  DevsInv'
<1>1. CASE \E o \in Callers : PassBegins(o)
  <2>1. PICK o \in Callers : PassBegins(o)
    BY <1>1
  <2>2. PassBase(agent) /\ agent \in [Agents -> AgentRecord] /\ spawner.owner = "none"
    BY <2>1, AgentType DEF PassBegins, PassBase
  <2>3. o \in Agents => agent[o].pc = "confirming"
    BY <2>1, ConfigAssumption DEF PassBegins, Waiting
  <2>4. CASE devMode
    <3>1. \A b \in Agents : Young(agent[b]) => <<agent[b].skill, agent[b].target>> \in ActivePairs
      BY DEF DevsInv, YoungListed, ActivePairs
    <3>2. PassFrom(o, DoneSkills, ActivePairs, 1, entry, agent)
      BY <2>1, <2>4 DEF PassBegins
    <3> QED
      BY <2>2, <2>3, <3>1, <3>2, PassFromDevs
  <2>5. CASE ~devMode
    <3>1. agent' = AgentsAfterPass(agent, o) /\ spawner'.owner = "none"
      BY <2>1, <2>2, <2>5 DEF PassBegins, PassRefused
    <3> QED
      BY <2>2, <2>3, <3>1, PassEndCalm
  <2> QED
    BY <2>4, <2>5
<1>2. CASE PassContinues
  <2> DEFINE ag == WithTask(agent, spawner.dev)
             o == spawner.owner
  <2>1. /\ o # "none" /\ spawner.dev \in Agents /\ agent[spawner.dev].pc = "spawned"
        /\ spawner \in PassRecord /\ o \in Callers
        /\ spawner.skill \in Skills /\ spawner.left \in SUBSET Targets
    BY <1>2 DEF PassContinues, IInv, CallersOK, SpawnsAwaited, PassOK, PassIsCovered, PassRecord
  <2>2. o \in Agents => agent[o].pc = "confirming"
    BY <2>1, ConfigAssumption DEF IInv, CallersOK, SpawnLockOwned
  <2>3. ag \in [Agents -> AgentRecord] /\ PassBase(ag)
    BY <2>1, AgentType DEF WithTask, AgentRecord, TaskPc, PassBase
  <2>4. /\ \A t \in spawner.left : <<spawner.skill, t>> \notin spawner.active
        /\ \A b \in Agents : Young(agent[b]) =>
             \/ <<agent[b].skill, agent[b].target>> \in spawner.active
             \/ agent[b].skill < spawner.skill
             \/ agent[b].skill = spawner.skill /\ agent[b].target \notin spawner.left
    BY <2>1 DEF DevsInv, PassAhead, DealtWith
  <2>5. CASE spawner.left # {}
    <3>1. PassSpawns(o, spawner.done, spawner.active, spawner.skill, spawner.left, ag)
      BY <1>2, <2>5 DEF PassContinues
    <3> HIDE DEF ag, o
    <3> QED
      BY <2>1, <2>3, <2>4, <3>1, PassSpawnKeeps
  <2>6. CASE spawner.left = {}
    <3>1. PassFrom(o, spawner.done, spawner.active, spawner.skill + 1,
                   [entry EXCEPT ![spawner.skill] = "writing"], ag)
      BY <1>2, <2>6 DEF PassContinues
    <3>2. ASSUME NEW b \in Agents, Young(agent[b])
          PROVE  \/ <<agent[b].skill, agent[b].target>> \in spawner.active
                 \/ \A s \in Skills : s >= spawner.skill + 1 => agent[b].skill < s
      <4>1. agent[b].skill \in Nat
        BY AgentType, ConfigAssumption DEF AgentRecord
      <4>2. spawner.skill \in Nat /\ Skills \subseteq Nat
        BY <2>1, ConfigAssumption DEF Skills
      <4>3. \/ <<agent[b].skill, agent[b].target>> \in spawner.active
            \/ agent[b].skill < spawner.skill \/ agent[b].skill = spawner.skill
        BY <2>4, <3>2
      <4> QED
        BY <4>1, <4>2, <4>3
    <3> HIDE DEF ag, o
    <3> QED
      BY <2>1, <2>2, <2>3, <3>1, <3>2, PassFromDevs
  <2> QED
    BY <2>5, <2>6
<1> QED
  BY <1>1, <1>2

(* The timeout of an agent, which may own a pass.                           *)
LEMMA TimeoutDevs ==
  ASSUME Uninterrupted, IInv, DevsInv, NEW a \in Agents, AgentTimesOut(a)
  PROVE  DevsInv'
<1> DEFINE q == [agent[a] EXCEPT !.pc = "gone", !.client = Closed(agent[a].client),
                     !.status = IF Harness = "openclaw" THEN "failed" ELSE "stopped"]
<1>1. /\ agent' = AgentsAfterCancel(a, q) /\ agent[a].pc # "spawned"
      /\ spawner' = IF spawner.owner = a THEN NoPass ELSE spawner
  BY DEF AgentTimesOut, TaskCancelled, HasTask
<1>2. \A b \in Agents : agent[b] \in AgentRecord /\ agent[b].client = "none"
                        /\ (Young(agent[b]) => agent[b].listed /\ agent[b].status \in ActiveStatus)
  BY AgentType DEF DevsInv, NoneOpen, YoungListed, Active
<1>3. Calm(agent[a], q)
  BY <1>2 DEF Closed, AgentRecord, Calm, Young
<1> HIDE DEF q
<1>4. agent'[a] = Settled(q)
  BY <1>1 DEF AgentsAfterCancel
<1>5. ASSUME NEW b \in Agents, b # a
      PROVE  /\ Calm(agent[b], agent'[b])
             /\ spawner.owner # a => agent'[b] = agent[b]
  <2> DEFINE p == [agent[b] EXCEPT !.pc = "taskless"]
  <2>1. agent'[b] = Settled(p) \/ agent'[b] = agent[b]
    BY <1>1, <1>5 DEF AgentsAfterCancel
  <2>2. Calm(agent[b], p) /\ Calm(agent[b], agent[b])
    BY <1>2 DEF AgentRecord, Calm, Young
  <2>3. spawner.owner # a => agent'[b] = agent[b]
    BY <1>1, <1>5 DEF AgentsAfterCancel
  <2> HIDE DEF p
  <2> QED
    BY <2>1, <2>2, <2>3, SettledCalm
<1>6. \A b \in Agents : Calm(agent[b], agent'[b])
  BY <1>3, <1>4, <1>5, SettledCalm
<1>7. CASE spawner.owner = a
  BY <1>1, <1>6, <1>7, NoPassOK, CalmKeeps
<1>8. CASE spawner.owner # a
  <2>1. spawner.owner # "none" => spawner.dev \in Agents
    BY DEF IInv, CallersOK, SpawnsAwaited
  <2>2. CASE spawner.owner = "none"
    BY <1>1, <1>6, <1>8, <2>2, CalmKeeps
  <2>3. CASE spawner.owner # "none"
    BY <1>1, <1>5, <1>6, <1>8, <2>1, <2>3, CalmKeeps
  <2> QED
    BY <2>2, <2>3
<1> QED
  BY <1>7, <1>8

(* Every step keeps the invariant.                                          *)
LEMMA DevsStep ==
  ASSUME Uninterrupted
  PROVE  IInv /\ DevsInv /\ [Next]_vars => DevsInv'
<1> SUFFICES ASSUME IInv, DevsInv, [Next]_vars PROVE DevsInv'
  OBVIOUS
<1>1. CASE agent' = agent /\ spawner' = spawner
  <2>1. \A b \in Agents : Calm(agent[b], agent[b])
    BY DEF DevsInv, Calm, NoneOpen, YoungListed, Active
  <2> QED
    BY <1>1, <2>1, CalmKeeps
<1>2. CASE \E a \in Agents : RunnerStep(a)
  BY <1>2, RunnerCalm
<1>3. CASE (\E o \in Callers : PassBegins(o)) \/ PassContinues
  BY <1>3, PassDevs
<1>4. CASE \E l \in Loops : LoopRetries(l)
  <2>1. PICK l \in Loops : LoopRetries(l)
    BY <1>4
  <2> QED
    BY <1>1, <2>1, UntargetedSpawnKeeps DEF LoopRetries
<1>5. CASE \E l \in Loops : LoopPicksDev(l)
  <2>1. PICK l \in Loops : LoopPicksDev(l)
    BY <1>5
  <2> DEFINE d == loop[l].dev
             q == [agent[d] EXCEPT !.pc = "starting"]
  <2>2. spawner' = spawner /\ loop[l].pc = "respawned"
        /\ agent' = IF d \in Agents THEN WithTask(agent, d) ELSE agent
    BY <2>1 DEF LoopPicksDev
  <2>3. CASE d \in Agents
    <3>1. agent[d].pc = "spawned" /\ (spawner.owner # "none" => spawner.dev # d)
      BY <2>2, <2>3, ConfigAssumption DEF IInv, CallersOK, SpawnsAwaited, Awaits
    <3>2. agent' = [agent EXCEPT ![d] = q]
      BY <2>2, <2>3 DEF WithTask
    <3>3. Calm(agent[d], q)
      BY <2>3, <3>1, AgentType DEF DevsInv, Calm, NoneOpen, YoungListed, Active, Young, AgentRecord
    <3> HIDE DEF q
    <3> QED
      BY <2>2, <2>3, <3>1, <3>2, <3>3, OneCalm
  <2> QED
    BY <1>1, <2>2, <2>3
<1>6. CASE \E l \in Loops : LoopStep(l)
  BY <1>1, <1>4, <1>5, <1>6 DEF LoopStep, TestReturns, LoopValidates, LoopResumes
<1>7. CASE Command
  <2>1. CASE XbotStart \/ \E s \in Skills : PatchDone(s)
    BY <1>1, <2>1 DEF XbotStart, PatchDone
  <2>2. CASE \E s \in Skills : Retry(s)
    BY <2>2, UntargetedSpawnKeeps DEF Retry
  <2> QED
    BY <1>7, <2>1, <2>2 DEF Command, Uninterrupted, Given, Confirm, StopAgent, KillAgent
<1>8. CASE Restart
  <2>1. \A a \in Agents : agent'[a] = NoAgent
    BY <1>8 DEF Restart
  <2> QED
    BY <1>8, <2>1, NoPassOK
    DEF Restart, DevsInv, YoungListed, NoneOpen, YoungApart, PassAhead, Young, NoAgent
<1>9. CASE Fault
  BY <1>8, <1>9, RunnerCalm, TimeoutDevs DEF Fault
<1>10. CASE (\E s \in Skills : ZombieEnds(s)) \/ UNCHANGED vars
  BY <1>1, <1>10 DEF ZombieEnds, vars
<1> QED
  BY <1>2, <1>3, <1>6, <1>7, <1>9, <1>10 DEF Next

(* The invariant holds.                                                     *)
LEMMA DevsHold == ASSUME Uninterrupted PROVE Spec => []DevsInv
<1>1. Init => DevsInv
  BY NoPassOK DEF Init, DevsInv, YoungListed, NoneOpen, YoungApart, PassAhead, Young, NoAgent
<1>2. IInv /\ DevsInv /\ [Next]_vars => DevsInv'
  BY DevsStep
<1> QED
  BY <1>1, <1>2, IInvHolds, PTL DEF Spec

(* A pass never puts a second developer on a skill and target, although its *)
(* snapshot of the active pairs ages while it awaits its spawns: for        *)
(* subprocess agents, unless a command takes a running agent out of sight.  *)
THEOREM OneDevPerTargetHolds ==
  ASSUME Uninterrupted
  PROVE  Spec => []OneDevPerTarget
<1>1. DevsInv => OneDevPerTarget
  BY DevsEnough
<1> QED
  BY <1>1, DevsHold, PTL

-----------------------------------------------------------------------------
(* Work under way is served, in autonomous mode with subprocess agents that *)
(* no command interrupts; their runners may fail or time out.               *)

Unhindered == Uninterrupted /\ Autonomous

LoopFor(s) == \E l \in Loops : loop[l].pc # "free" /\ loop[l].skill = s

(* An agent that serves its skill beside the pass p: it has not ended its   *)
(* work, and was not replaced while it worked; or its verdict is to come;   *)
(* or it gave up, and stays in the table to say so, for p is not about to   *)
(* replace it.                                                              *)
Replaces(p, r) == p.owner # "none" /\ r.skill = p.skill /\ r.target \in p.left
AtWork(p, r) ==
  \/ r.pc \in {"spawned", "starting"} /\ r.listed /\ r.status \in ActiveStatus
  \/ r.pc = "working" /\ r.listed /\ r.status = "running"
  \/ r.pc \in {"finishing", "queued", "evaluating", "passed", "rejected"}
  \/ GaveUp(r) /\ ~Replaces(p, r)

(* The agent that a pass is spawning does not count: the pass may be        *)
(* cancelled, and the agent with it, before it says that the skill is being *)
(* written.                                                                 *)
Serves(a) == AtWork(spawner, agent[a]) /\ ~(spawner.owner # "none" /\ spawner.dev = a)
Server(s) == \E a \in Agents : Serves(a) /\ agent[a].skill = s

FlagsServed   == \A s \in inTestLoop : LoopFor(s)
TestsServed   == \A s \in Skills : entry[s] = "testing" => LoopFor(s)
WritingServed == \A s \in Skills : entry[s] \in {"writing", "evaluating"} => LoopFor(s) \/ Server(s)
WorkInv == devMode /\ FlagsServed /\ TestsServed /\ WritingServed

(* What the theorem is about follows.                                       *)
LEMMA WorkEnough == WorkInv => WorkIsServed
BY DEF WorkInv, TestsServed, WritingServed, WorkIsServed, LoopFor, Server, Serves, AtWork, GaveUp, Busy

(* What a step may do to the loops, the flags, the entries and the agents.  *)
LoopsGoOn ==
  \A s \in Skills : LoopFor(s) => LoopFor(s)' \/ (s \notin inTestLoop' /\ entry'[s] = "review")
FlagsGoOn == \A s \in inTestLoop' : s \in inTestLoop \/ LoopFor(s)'
EntriesGoOn ==
  \A s \in Skills :
    /\ entry'[s] = "testing" => entry[s] = "testing" \/ LoopFor(s)'
    /\ entry'[s] \in {"writing", "evaluating"} => entry'[s] = entry[s] \/ LoopFor(s)' \/ Server(s)'
ServersGoOn ==
  \A s \in Skills : Server(s) =>
    entry'[s] \notin {"writing", "evaluating"} \/ LoopFor(s)' \/ Server(s)'

(* Such a step keeps the invariant.                                         *)
LEMMA WorkKeeps ==
  ASSUME IInv, WorkInv, devMode', inTestLoop' \subseteq Skills,
         LoopsGoOn, FlagsGoOn, EntriesGoOn, ServersGoOn
  PROVE  WorkInv'
<1>1. FlagsServed'
  BY DEF WorkInv, FlagsServed, FlagsGoOn, LoopsGoOn, IInv, CountersOK
<1>2. TestsServed'
  BY DEF WorkInv, TestsServed, EntriesGoOn, LoopsGoOn
<1>3. ASSUME NEW s \in Skills, entry'[s] \in {"writing", "evaluating"}
      PROVE  LoopFor(s)' \/ Server(s)'
  <2>1. CASE entry'[s] # entry[s]
    BY <1>3, <2>1 DEF EntriesGoOn
  <2>2. CASE entry'[s] = entry[s]
    <3>1. LoopFor(s) \/ Server(s)
      BY <1>3, <2>2 DEF WorkInv, WritingServed
    <3>2. CASE LoopFor(s)
      BY <1>3, <3>2 DEF LoopsGoOn
    <3>3. CASE Server(s)
      BY <1>3, <3>3 DEF ServersGoOn
    <3> QED
      BY <3>1, <3>2, <3>3
  <2> QED
    BY <2>1, <2>2
<1> QED
  BY <1>1, <1>2, <1>3 DEF WorkInv, WritingServed

(* Loops that stay keep serving, and flags that go need no loop.            *)
LEMMA LoopsAlone ==
  loop' = loop => LoopsGoOn /\ (inTestLoop' \subseteq inTestLoop => FlagsGoOn)
BY DEF LoopsGoOn, FlagsGoOn, LoopFor

(* Entries that stay need no new server.                                    *)
LEMMA EntriesAlone == entry' = entry => EntriesGoOn
BY DEF EntriesGoOn

(* Nor do the agents.                                                       *)
LEMMA ServersAlone == agent' = agent /\ spawner' = spawner => ServersGoOn
BY DEF ServersGoOn, Server, Serves

(* The types of the entries and flags.                                      *)
LEMMA WorkTypes == IInv => entry \in [Skills -> EntryStatus] /\ inTestLoop \subseteq Skills
BY DEF IInv, EntriesOK, CountersOK

(* One agent changes: it still serves, or its entry or its test loop says   *)
(* that it need not.                                                        *)
LEMMA OneServer ==
  ASSUME IInv, NEW a \in Agents, NEW q, agent' = [agent EXCEPT ![a] = q], spawner' = spawner,
         NEW s, s = agent[a].skill,
         AtWork(spawner, agent[a]) =>
           \/ AtWork(spawner, q) /\ q.skill = s
           \/ entry'[s] \notin {"writing", "evaluating"}
           \/ LoopFor(s)'
  PROVE  ServersGoOn
<1>1. agent'[a] = q /\ \A b \in Agents : b # a => agent'[b] = agent[b]
  BY AgentType
<1>2. ASSUME NEW k \in Skills, NEW b \in Agents, Serves(b), agent[b].skill = k
      PROVE  \/ entry'[k] \notin {"writing", "evaluating"}
             \/ LoopFor(k)'
             \/ Serves(b)' /\ agent'[b].skill = k
  <2>1. CASE b # a
    BY <1>1, <1>2, <2>1 DEF Serves
  <2>2. CASE b = a
    <3>1. k = s /\ AtWork(spawner, agent[a]) /\ ~(spawner.owner # "none" /\ spawner.dev = a)
      BY <1>2, <2>2 DEF Serves
    <3>2. AtWork(spawner, q) /\ q.skill = s => Serves(b)' /\ agent'[b].skill = k
      BY <1>1, <2>2, <3>1 DEF Serves
    <3> QED
      BY <3>1, <3>2
  <2> QED
    BY <2>1, <2>2
<1>3. ASSUME NEW k, NEW b \in Agents, Serves(b)', agent'[b].skill = k
      PROVE  Server(k)'
  BY <1>3 DEF Server
<1>4. ASSUME NEW k \in Skills, Server(k)
      PROVE  entry'[k] \notin {"writing", "evaluating"} \/ LoopFor(k)' \/ Server(k)'
  <2>1. PICK b \in Agents : Serves(b) /\ agent[b].skill = k
    BY <1>4 DEF Server
  <2> QED
    BY <1>2, <1>3, <2>1
<1> QED
  BY <1>4 DEF ServersGoOn

(* The runner up to the end of its work.                                    *)
LEMMA RunnerServes ==
  ASSUME Unhindered, IInv, DevsInv, WorkInv, NEW a \in Agents,
         TaskCreated(a) \/ RunnerStarts(a) \/ RunnerFails(a) \/ WorkEnds(a) \/ RunnerLeaves(a)
  PROVE  WorkInv'
<1> DEFINE r == agent[a]
<1>1. /\ r \in AgentRecord /\ r.client = "none" /\ spawner' = spawner /\ devMode'
      /\ entry' = entry /\ loop' = loop /\ inTestLoop' = inTestLoop
  BY AgentType
  DEF DevsInv, NoneOpen, WorkInv, TaskCreated, RunnerStarts, WorkEnds, RunnerLeaves, RunnerFails
<1>2. PICK q : /\ agent' = [agent EXCEPT ![a] = q]
               /\ AtWork(spawner, r) => \/ AtWork(spawner, q) /\ q.skill = r.skill
                               \/ entry[r.skill] \notin {"writing", "evaluating"}
                               \/ LoopFor(r.skill)
  <2>1. CASE TaskCreated(a)
    <3> DEFINE q == [r EXCEPT !.pc = "starting"]
    <3>1. agent' = [agent EXCEPT ![a] = q] /\ r.pc = "spawned"
      BY <2>1 DEF TaskCreated, WithTask
    <3>2. AtWork(spawner, r) => AtWork(spawner, q) /\ q.skill = r.skill
      BY <1>1, <3>1 DEF AtWork, GaveUp, AgentRecord
    <3> QED
      BY <3>1, <3>2
  <2>2. CASE RunnerStarts(a)
    <3> DEFINE q == [r EXCEPT !.pc = "working", !.status = "running",
                              !.client = IF Harness = "sdk" THEN "open" ELSE "none"]
    <3>1. agent' = [agent EXCEPT ![a] = q]
      BY <2>2 DEF RunnerStarts
    <3>2. r.pc = "starting"
      BY <2>2 DEF RunnerStarts
    <3>3. AtWork(spawner, r) => AtWork(spawner, q) /\ q.skill = r.skill
      BY <1>1, <3>2 DEF AtWork, GaveUp, AgentRecord
    <3> QED
      BY <3>1, <3>3
  <2>3. CASE RunnerFails(a)
    <3> DEFINE q == [r EXCEPT !.status = "error", !.pc = "gone", !.client = Closed(@)]
    <3>1. agent' = [agent EXCEPT ![a] = Settled(q)] /\ r.pc \in {"starting", "working"}
      BY <1>1, <2>3 DEF RunnerFails
    <3>2. /\ q.listed = r.listed /\ q.pc = "gone" /\ q.status = "error"
          /\ q.skill = r.skill /\ q.target = r.target
      BY <1>1 DEF AgentRecord
    <3>3. ~Replaces(spawner, r)
      <4> SUFFICES ASSUME Replaces(spawner, r) PROVE FALSE
        OBVIOUS
      <4>1. /\ spawner.owner # "none" /\ r.skill = spawner.skill /\ r.target \in spawner.left
            /\ spawner.left \subseteq Targets /\ r.skill \in Int
        BY <1>1, ConfigAssumption
        DEF Replaces, IInv, CallersOK, PassOK, PassRecord, AgentRecord
      <4>2. Young(r)
        BY <3>1, <4>1 DEF Young, Targets, Untargeted
      <4>3. DealtWith(r) /\ \A t \in spawner.left : <<spawner.skill, t>> \notin spawner.active
        BY <4>1, <4>2 DEF DevsInv, PassAhead
      <4> QED
        BY <4>1, <4>3 DEF DealtWith
    <3> HIDE DEF q
    <3>4. AtWork(spawner, r) => Settled(q) = q /\ AtWork(spawner, q)
      BY <3>1, <3>2, <3>3 DEF AtWork, GaveUp, Replaces, Settled
    <3> QED
      BY <3>1, <3>2, <3>4
  <2>4. CASE RunnerLeaves(a)
    <3>1. ~AtWork(spawner, r)
      BY <1>1, <2>4 DEF RunnerLeaves, AtWork, GaveUp
    <3> QED
      BY <2>4, <3>1 DEF RunnerLeaves
  <2>5. CASE WorkEnds(a)
    <3> DEFINE next == [r EXCEPT !.status = "done", !.pc = "finishing"]
    <3>1. r.pc = "working"
      BY <2>5 DEF WorkEnds
    <3>2. CASE r.status # "running"
      <4>1. ~AtWork(spawner, r)
        BY <3>1, <3>2 DEF AtWork, GaveUp
      <4> QED
        BY <2>5, <4>1 DEF WorkEnds
    <3>3. CASE r.status = "running" /\ entry[r.skill] = "done"
      BY <2>5, <3>3 DEF WorkEnds
    <3>4. CASE r.status = "running" /\ entry[r.skill] # "done" /\ r.skill \in inTestLoop
      <4>1. LoopFor(r.skill)
        BY <3>4 DEF WorkInv, FlagsServed
      <4> QED
        BY <2>5, <4>1 DEF WorkEnds
    <3>5. CASE r.status = "running" /\ entry[r.skill] # "done" /\ r.skill \notin inTestLoop
      <4>1. agent' = [agent EXCEPT ![a] = next]
        BY <2>5, <3>5 DEF WorkEnds
      <4>2. AtWork(spawner, next) /\ next.skill = r.skill
        BY <1>1 DEF AtWork, AgentRecord
      <4> QED
        BY <4>1, <4>2
    <3> QED
      BY <3>2, <3>3, <3>4, <3>5
  <2> QED
    BY <2>1, <2>2, <2>3, <2>4, <2>5
<1>3. PICK s : s = r.skill
  OBVIOUS
<1>4. LoopFor(s) => LoopFor(s)'
  BY <1>1 DEF LoopFor
<1>5. ServersGoOn
  <2>1. AtWork(spawner, r) => \/ AtWork(spawner, q) /\ q.skill = s
                     \/ entry'[s] \notin {"writing", "evaluating"}
                     \/ LoopFor(s)'
    BY <1>1, <1>2, <1>3, <1>4
  <2> QED
    BY <1>1, <1>2, <1>3, <2>1, OneServer
<1> QED
  BY <1>1, <1>5, WorkTypes, LoopsAlone, EntriesAlone, WorkKeeps

(* The evaluation, and what its verdict does to the entry.                  *)
LEMMA VerdictServes ==
  ASSUME Unhindered, IInv, DevsInv, WorkInv, NEW a \in Agents,
         \/ EvaluationQueued(a) \/ EvaluatorStarts(a) \/ RejectionHandled(a) \/ PassHandled(a)
         \/ \E verdict \in {"passed", "rejected"} : EvaluatorReturns(a, verdict)
  PROVE  WorkInv'
<1> DEFINE r == agent[a]
<1>0. PICK s : s = agent[a].skill
  OBVIOUS
<1>1. r \in AgentRecord /\ r.client = "none" /\ spawner' = spawner /\ devMode'
  BY AgentType
  DEF DevsInv, NoneOpen, WorkInv, EvaluationQueued, EvaluatorStarts, RejectionHandled,
      PassHandled, EvaluatorReturns
<1>2. s \in Skills /\ entry \in [Skills -> EntryStatus]
  BY <1>0, AgentSkill, WorkTypes
  DEF EvaluationQueued, EvaluatorStarts, RejectionHandled, PassHandled, EvaluatorReturns
<1>3. CASE EvaluationQueued(a) \/ EvaluatorStarts(a)
           \/ \E verdict \in {"passed", "rejected"} : EvaluatorReturns(a, verdict)
  <2>1. PICK pc \in {"queued", "evaluating", "passed", "rejected"} :
          agent' = [agent EXCEPT ![a].pc = pc]
    BY <1>0, <1>3 DEF EvaluationQueued, EvaluatorStarts, EvaluatorReturns
  <2>2. loop' = loop /\ inTestLoop' = inTestLoop /\ r.pc # "spawned"
        /\ (entry' = entry \/ entry' = [entry EXCEPT ![s] = "evaluating"])
    BY <1>0, <1>3 DEF EvaluationQueued, EvaluatorStarts, EvaluatorReturns
  <2> DEFINE q == [r EXCEPT !.pc = pc]
  <2>3. AtWork(spawner, q) /\ q.skill = s
    BY <1>0, <1>1, <2>1 DEF AtWork, AgentRecord
  <2>4. agent' = [agent EXCEPT ![a] = q]
    BY <2>1
  <2> HIDE DEF q
  <2>5. ServersGoOn
    BY <1>0, <1>1, <2>3, <2>4, OneServer
  <2>6. agent'[a] = q
    BY <2>4, AgentType
  <2>7. spawner.owner # "none" => spawner.dev # a
    BY <2>2 DEF IInv, CallersOK, SpawnsAwaited
  <2>8. Serves(a)'
    BY <1>1, <2>3, <2>6, <2>7 DEF Serves
  <2>9. Server(s)'
    BY <2>3, <2>6, <2>8 DEF Server
  <2>10. EntriesGoOn
    BY <1>2, <2>2, <2>9 DEF EntriesGoOn
  <2> QED
    BY <1>1, <2>2, <2>5, <2>10, WorkTypes, LoopsAlone, WorkKeeps
<1>4. CASE RejectionHandled(a)
  <2>1. ~CanRetryInSession(r)
    BY <1>1 DEF CanRetryInSession
  <2>2. /\ \E status \in {"failed", "review"} : entry' = [entry EXCEPT ![s] = status]
        /\ agent' = [agent EXCEPT ![a] = Finished(r)]
        /\ loop' = loop /\ inTestLoop' = inTestLoop
    BY <1>0, <1>4, <2>1 DEF RejectionHandled, SentToReview
  <2>3. entry'[s] \notin {"writing", "evaluating"} /\ EntriesGoOn
    BY <1>2, <2>2 DEF EntriesGoOn
  <2>4. ServersGoOn
    BY <1>0, <1>1, <2>2, <2>3, OneServer
  <2> QED
    BY <1>1, <2>2, <2>3, <2>4, WorkTypes, LoopsAlone, WorkKeeps
<1>5. CASE PassHandled(a)
  <2>1. CASE IsTaskRoot(s)
    <3> DEFINE n == NextAttempt(s, testAttempts[s])
    <3>1. /\ agent' = [agent EXCEPT ![a] = Finished([r EXCEPT !.exit = TRUE])]
          /\ \E l \in FreeLoops : loop' = [loop EXCEPT ![l] = n]
          /\ entry' = [entry EXCEPT ![s] = IF n = NoLoop THEN "review" ELSE "testing"]
          /\ inTestLoop' = IF n = NoLoop THEN inTestLoop \ {s} ELSE inTestLoop \cup {s}
      BY <1>0, <1>5, <2>1 DEF PassHandled
    <3>2. n # NoLoop => n.pc = "testing" /\ n.skill = s
      BY DEF NextAttempt
    <3> HIDE DEF n
    <3>3. PICK l \in FreeLoops : loop' = [loop EXCEPT ![l] = n]
      BY <3>1
    <3>4. loop'[l] = n /\ loop[l].pc = "free" /\ l \in Loops
          /\ \A k \in Loops : k # l => loop'[k] = loop[k]
      BY <3>3 DEF FreeLoops, NoLoop, IInv, LoopsOK, LoopsFit
    <3>5. \A k : LoopFor(k) => LoopFor(k)'
      BY <3>4 DEF LoopFor
    <3>6. n # NoLoop => LoopFor(s)'
      BY <3>2, <3>4 DEF LoopFor
    <3>7. /\ LoopsGoOn /\ FlagsGoOn /\ EntriesGoOn
          /\ entry'[s] \notin {"writing", "evaluating"}
      BY <1>2, <3>1, <3>5, <3>6 DEF LoopsGoOn, FlagsGoOn, EntriesGoOn
    <3>8. ServersGoOn
      BY <1>0, <1>1, <3>1, <3>7, OneServer
    <3>9. inTestLoop' \subseteq Skills
      BY <1>2, <3>1, WorkTypes
    <3> QED
      BY <1>1, <3>7, <3>8, <3>9, WorkKeeps
  <2>2. CASE ~IsTaskRoot(s)
    <3>1. /\ loop' = loop /\ inTestLoop' = inTestLoop
          /\ \E status \in {"done", "review"} : entry' = [entry EXCEPT ![s] = status]
          /\ \/ agent' = Released([agent EXCEPT ![a].pc = "confirming"], s)
             \/ agent' = [agent EXCEPT ![a] = Finished(r)]
      BY <1>0, <1>5, <2>2 DEF PassHandled
    <3>2. entry'[s] \notin {"writing", "evaluating"} /\ EntriesGoOn
      BY <1>2, <3>1 DEF EntriesGoOn
    <3>3. CASE agent' = [agent EXCEPT ![a] = Finished(r)]
      BY <1>0, <1>1, <3>1, <3>2, <3>3, OneServer, WorkTypes, LoopsAlone, WorkKeeps
    <3>4. CASE agent' = Released([agent EXCEPT ![a].pc = "confirming"], s)
      <4>1. ASSUME NEW b \in Agents, b # a
            PROVE  /\ agent'[b].pc = agent[b].pc /\ agent'[b].status = agent[b].status
                   /\ agent'[b].skill = agent[b].skill /\ agent'[b].target = agent[b].target
                   /\ agent'[b].listed = agent[b].listed
        BY <3>4, <4>1, AgentType DEF Released, AgentRecord
      <4>2. ASSUME NEW b \in Agents, b # a, Serves(b)
            PROVE  Serves(b)'
        BY <1>1, <4>1, <4>2 DEF Serves, AtWork, GaveUp, Replaces
      <4>3. ASSUME NEW k, NEW b \in Agents, Serves(b)', agent'[b].skill = k
            PROVE  Server(k)'
        BY <4>3 DEF Server
      <4>4. ASSUME NEW k \in Skills, Server(k)
            PROVE  entry'[k] \notin {"writing", "evaluating"} \/ Server(k)'
        <5>1. PICK b \in Agents : Serves(b) /\ agent[b].skill = k
          BY <4>4 DEF Server
        <5>2. CASE b = a
          BY <1>0, <3>2, <5>1, <5>2
        <5>3. CASE b # a
          BY <4>1, <4>2, <4>3, <5>1, <5>3
        <5> QED
          BY <5>2, <5>3
      <4>5. ServersGoOn
        BY <4>4 DEF ServersGoOn
      <4> QED
        BY <1>1, <3>1, <3>2, <4>5, WorkTypes, LoopsAlone, WorkKeeps
    <3> QED
      BY <3>1, <3>3, <3>4
  <2> QED
    BY <2>1, <2>2
<1> QED
  BY <1>3, <1>4, <1>5

(* A step after which every server still is one, or its entry is settled.   *)
LEMMA ServersStay ==
  ASSUME \A b \in Agents : Serves(b) =>
           \E c \in Agents : Serves(c)' /\ agent'[c].skill = agent[b].skill
  PROVE  ServersGoOn
<1>1. ASSUME NEW k \in Skills, Server(k)
      PROVE  Server(k)'
  BY <1>1 DEF Server
<1> QED
  BY <1>1 DEF ServersGoOn

(* The agent that a spawn replaces is young, or goes on to its verdict, or  *)
(* was not going to move its entry.                                         *)
LEMMA ReplacedServes ==
  ASSUME NEW p, NEW r \in AgentRecord, NEW q, Replaced(r, q), AtWork(p, r),
         r.pc \notin {"spawned", "starting", "working", "gone"}
  PROVE  \A k : AtWork(k, q) /\ q.skill = r.skill
BY DEF Replaced, AtWork, GaveUp

(* A command or a test loop spawns an agent: it serves in place of the one  *)
(* it replaces.                                                             *)
LEMMA UntargetedSpawnServes ==
  ASSUME IInv, NEW s, Slots(s, Untargeted) # {}, spawner' = spawner,
         agent' = WithSpawn(agent, Slot(s, Untargeted), s, Untargeted)
  PROVE  ServersGoOn
<1>0. PICK x : x = Slot(s, Untargeted)
  OBVIOUS
<1>1. /\ x \in Agents /\ spawner.dev # x
      /\ agent[x].pc = "free" \/ agent[x].skill = s
  BY <1>0, SlotOK DEF Slots
<1>2. /\ agent'[x].pc = "spawned" /\ agent'[x].skill = s
      /\ agent'[x].status = "starting" /\ agent'[x].listed
      /\ \A b \in Agents \ {x} :
           \/ agent'[b] = agent[b]
           \/ agent[b].skill = s /\ Replaced(agent[b], agent'[b])
  BY <1>0, <1>1, AgentType, SpawnEffect
<1>3. Serves(x)'
  BY <1>1, <1>2 DEF Serves, AtWork, ActiveStatus
<1>4. ASSUME NEW b \in Agents, Serves(b)
      PROVE  \E c \in Agents : Serves(c)' /\ agent'[c].skill = agent[b].skill
  <2>1. CASE agent'[b] = agent[b]
    BY <1>4, <2>1 DEF Serves
  <2>2. CASE agent[b].skill = s
    BY <1>1, <1>2, <1>3, <2>2
  <2>3. agent[b].pc # "free"
    BY <1>4 DEF Serves, AtWork, GaveUp
  <2> QED
    BY <1>1, <1>2, <2>1, <2>2, <2>3
<1> QED
  BY <1>4, ServersStay

(* The agents once the awaited spawn has its task.                          *)
LEMMA BaseServes ==
  ASSUME IInv, DevsInv, NEW ag \in [Agents -> AgentRecord], PassBase(ag), NEW b \in Agents,
         Serves(b) \/ (spawner.owner # "none" /\ b = spawner.dev)
  PROVE  AtWork(spawner, ag[b]) /\ ag[b].skill = agent[b].skill
<1>1. CASE spawner.owner = "none"
  BY <1>1 DEF PassBase, Serves
<1>2. CASE spawner.owner # "none" /\ b # spawner.dev
  BY <1>2, AgentType DEF PassBase, Serves, WithTask
<1>3. CASE spawner.owner # "none" /\ b = spawner.dev
  <2>1. agent[b].listed /\ agent[b].status \in ActiveStatus /\ agent[b] \in AgentRecord
    BY <1>3, AgentType DEF DevsInv, PassAhead, YoungListed, Active
  <2>2. ag[b] = [agent[b] EXCEPT !.pc = "starting"]
    BY <1>3, AgentType DEF PassBase, WithTask
  <2> QED
    BY <2>1, <2>2 DEF AtWork, GaveUp, AgentRecord
<1> QED
  BY <1>1, <1>2, <1>3

(* What a pass leaves of the agents that serve, and of the one that it was  *)
(* spawning: each serves on, unless its entry needs no server.              *)
ServedOn ==
  \A b \in Agents : Serves(b) \/ (spawner.owner # "none" /\ b = spawner.dev) =>
    \/ Serves(b)' /\ agent'[b].skill = agent[b].skill
    \/ entry'[agent[b].skill] \notin {"writing", "evaluating"}

(* A pass that spawns replaces nobody who serves: where it spawns nobody is *)
(* young, and an agent that gave up there does not count any more, or the   *)
(* entry says that the skill has failed.                                    *)
LEMMA PassSpawnServes ==
  ASSUME IInv, DevsInv, NEW ag \in [Agents -> AgentRecord], PassBase(ag),
         NEW o \in Callers, NEW done, NEW active, NEW s \in Skills, NEW left \in SUBSET Targets,
         \A t \in left : <<s, t>> \notin active,
         \A b \in Agents : Young(agent[b]) =>
           \/ <<agent[b].skill, agent[b].target>> \in active
           \/ agent[b].skill < s
           \/ agent[b].skill = s /\ agent[b].target \notin left,
         \/ entry'[s] \notin {"writing", "evaluating"}
         \/ spawner.owner # "none" /\ spawner.skill = s /\ spawner.left = left,
         PassSpawns(o, done, active, s, left, ag)
  PROVE  ServedOn
<1>1. PICK t \in left :
        /\ Slots(s, t) # {}
        /\ agent' = WithSpawn(ag, Slot(s, t), s, t)
        /\ spawner' = [owner |-> o, done |-> done, active |-> active, skill |-> s,
                       left |-> left \ {t}, dev |-> Slot(s, t)]
  BY DEF PassSpawns
<1> DEFINE x == Slot(s, t)
<1>2. /\ x \in Agents /\ spawner.dev # x /\ agent[x].pc \in {"free", "gone", "taskless"}
      /\ agent[x].pc = "free" \/ (agent[x].skill = s /\ agent[x].target = t)
  BY <1>1, SlotOK DEF Slots
<1>3. spawner'.dev = x /\ spawner'.skill = s /\ spawner'.left = left \ {t}
  BY <1>1
<1> HIDE DEF x
<1>4. \A b \in Agents \ {x} :
        \/ agent'[b] = ag[b]
        \/ ag[b].skill = s /\ ag[b].target = t /\ Replaced(ag[b], agent'[b])
  BY <1>1, <1>2, SpawnEffect DEF x
<1>5. ASSUME NEW b \in Agents, Young(agent[b])
      PROVE  ~(agent[b].skill = s /\ agent[b].target = t)
  <2>1. agent[b].skill \in Int /\ s \in Int
    BY AgentType, ConfigAssumption DEF AgentRecord, Skills
  <2>2. \/ <<agent[b].skill, agent[b].target>> \in active
        \/ agent[b].skill < s
        \/ agent[b].skill = s /\ agent[b].target \notin left
    BY <1>5
  <2>3. t \in left /\ <<s, t>> \notin active
    BY <1>1
  <2> QED
    BY <2>1, <2>2, <2>3
<1>6. ASSUME NEW b \in Agents, Serves(b) \/ (spawner.owner # "none" /\ b = spawner.dev),
             entry'[agent[b].skill] \in {"writing", "evaluating"}
      PROVE  Serves(b)' /\ agent'[b].skill = agent[b].skill
  <2>1. AtWork(spawner, ag[b]) /\ ag[b].skill = agent[b].skill /\ ag[b] \in AgentRecord
    BY <1>6, BaseServes
  <2>2. /\ ag[b].target = agent[b].target /\ (Young(ag[b]) <=> Young(agent[b]))
        /\ agent[b].pc # "spawned" => ag[b] = agent[b]
    BY BaseCalm
  <2>3. CASE GaveUp(ag[b])
    <3>1. ~(ag[b].skill = s /\ ag[b].target \in left)
      BY <1>6, <2>1, <2>3 DEF AtWork, GaveUp, Replaces
    <3>2. agent[b].pc = "gone" \/ agent[b].pc = "spawned"
      BY <2>2, <2>3 DEF GaveUp
    <3>3. b # x
      BY <1>1, <1>2, <2>1, <2>2, <3>1, <3>2
    <3>4. agent'[b] = ag[b]
      BY <1>1, <1>4, <3>1, <3>3
    <3>5. AtWork(spawner', agent'[b])
      BY <1>3, <2>3, <3>1, <3>4 DEF AtWork, Replaces
    <3> QED
      BY <1>3, <2>1, <3>3, <3>4, <3>5 DEF Serves
  <2>4. CASE ~GaveUp(ag[b])
    <3>1. b # x
      BY <1>2, <2>1, <2>2, <2>4 DEF AtWork
    <3>2. CASE agent'[b] = ag[b]
      BY <1>3, <2>1, <2>4, <3>1, <3>2 DEF Serves, AtWork
    <3>3. CASE ag[b].skill = s /\ ag[b].target = t /\ Replaced(ag[b], agent'[b])
      <4>1. t # Untargeted
        BY <1>1 DEF Targets, Untargeted
      <4>2. ~Young(ag[b]) /\ ag[b].pc # "gone"
        BY <1>5, <2>1, <2>2, <2>4, <3>3 DEF AtWork
      <4>3. AtWork(spawner', agent'[b]) /\ agent'[b].skill = ag[b].skill
        BY <2>1, <3>3, <4>1, <4>2, ReplacedServes DEF Young
      <4> QED
        BY <1>3, <2>1, <3>1, <4>3 DEF Serves
    <3> QED
      BY <1>4, <3>1, <3>2, <3>3
  <2> QED
    BY <2>3, <2>4
<1> QED
  BY <1>6 DEF ServedOn

(* The end of a pass.                                                       *)
LEMMA PassEndServes ==
  ASSUME IInv, DevsInv, NEW ag \in [Agents -> AgentRecord], PassBase(ag), NEW p,
         p \in Agents => agent[p].pc = "confirming",
         agent' = AgentsAfterPass(ag, p), spawner'.owner = "none"
  PROVE  ServedOn
<1>1. ASSUME NEW b \in Agents, Serves(b) \/ (spawner.owner # "none" /\ b = spawner.dev)
      PROVE  Serves(b)' /\ agent'[b].skill = agent[b].skill
  <2>1. AtWork(spawner, ag[b]) /\ ag[b].skill = agent[b].skill
    BY <1>1, BaseServes
  <2>2. b # p
    BY <1>1 DEF Serves, AtWork, GaveUp, IInv, CallersOK, SpawnsAwaited
  <2>3. agent'[b] = ag[b]
    BY <2>2 DEF AgentsAfterPass
  <2>4. AtWork(spawner', agent'[b])
    BY <2>1, <2>3 DEF AtWork, Replaces
  <2> QED
    BY <2>1, <2>3, <2>4 DEF Serves
<1> QED
  BY <1>1 DEF ServedOn

(* The loop over the entries.                                               *)
LEMMA PassFromServes ==
  ASSUME IInv, DevsInv, NEW ag \in [Agents -> AgentRecord], PassBase(ag),
         NEW o \in Callers, o \in Agents => agent[o].pc = "confirming",
         NEW done, NEW active, NEW from, NEW ent,
         \A b \in Agents : Young(agent[b]) =>
           \/ <<agent[b].skill, agent[b].target>> \in active
           \/ \A s \in Skills : s >= from => agent[b].skill < s,
         PassFrom(o, done, active, from, ent, ag)
  PROVE  ServedOn
<1>1. CASE agent' = AgentsAfterPass(ag, o) /\ spawner' = NoPass
  BY <1>1, NoPassOK, PassEndServes
<1>2. CASE \E s \in Skills : /\ s >= from /\ ent[s] \in {"planned", "failed"} /\ entry' = ent
                             /\ PassSpawns(o, done, active, s, Unserved(s, active), ag)
  <2>1. PICK s \in Skills : /\ s >= from /\ ent[s] \in {"planned", "failed"} /\ entry' = ent
                            /\ PassSpawns(o, done, active, s, Unserved(s, active), ag)
    BY <1>2
  <2>2. /\ Unserved(s, active) \in SUBSET Targets
        /\ \A t \in Unserved(s, active) : <<s, t>> \notin active
    BY DEF Unserved
  <2>3. \A b \in Agents : Young(agent[b]) =>
           \/ <<agent[b].skill, agent[b].target>> \in active
           \/ agent[b].skill < s
           \/ agent[b].skill = s /\ agent[b].target \notin Unserved(s, active)
    BY <2>1
  <2>4. entry'[s] \notin {"writing", "evaluating"}
    BY <2>1
  <2> HIDE DEF Unserved
  <2> QED
    BY <2>1, <2>2, <2>3, <2>4, PassSpawnServes
<1> QED
  BY <1>1, <1>2 DEF PassFrom, Ready

(* A test loop that owned a pass stays.                                     *)
LEMMA LoopsAfterPassGoOn ==
  ASSUME IInv, NEW o, loop' = LoopsAfterPass(o) \/ loop' = loop, o \in Loops => loop[o].pc = "promoting"
  PROVE  \A s : LoopFor(s) => LoopFor(s)'
<1>1. \A l \in Loops : loop'[l].skill = loop[l].skill
                       /\ (loop[l].pc # "free" => loop'[l].pc # "free")
  BY DEF LoopsAfterPass, IInv, LoopsOK, LoopsFit, LoopRecord
<1> QED
  BY <1>1 DEF LoopFor

(* A step of a pass: once the targets of a skill are dealt with its entry   *)
(* says that it is being written, and the last agent spawned is at work.    *)
LEMMA PassServes ==
  ASSUME IInv, DevsInv, WorkInv, (\E o \in Callers : PassBegins(o)) \/ PassContinues
  PROVE  WorkInv'
<1>1. devMode /\ devMode' /\ inTestLoop' = inTestLoop /\ inTestLoop \subseteq Skills
  BY WorkTypes DEF WorkInv, PassBegins, PassContinues
<1>2. ASSUME NEW ag, NEW o, NEW done, NEW active, NEW from, NEW ent,
             PassFrom(o, done, active, from, ent, ag)
      PROVE  (loop' = LoopsAfterPass(o) \/ loop' = loop) /\ entry' = ent
  BY <1>2 DEF PassFrom
<1>3. ASSUME ServedOn
      PROVE  ServersGoOn
  <2>1. ASSUME NEW k, NEW b \in Agents, Serves(b)', agent'[b].skill = k
        PROVE  Server(k)'
    BY <2>1 DEF Server
  <2> QED
    BY <1>3, <2>1 DEF ServedOn, ServersGoOn, Server
<1>4. ASSUME NEW o, loop' = LoopsAfterPass(o) \/ loop' = loop,
             o \in Loops => loop[o].pc = "promoting"
      PROVE  LoopsGoOn /\ FlagsGoOn
  BY <1>1, <1>4, LoopsAfterPassGoOn DEF LoopsGoOn, FlagsGoOn
<1>5. CASE \E o \in Callers : PassBegins(o)
  <2>1. PICK o \in Callers : PassBegins(o)
    BY <1>5
  <2>2. PassBase(agent) /\ agent \in [Agents -> AgentRecord] /\ spawner.owner = "none"
    BY <2>1, AgentType DEF PassBegins, PassBase
  <2>3. /\ o \in Agents => agent[o].pc = "confirming"
        /\ o \in Loops => loop[o].pc = "promoting"
    BY <2>1, ConfigAssumption DEF PassBegins, Waiting
  <2>4. PassFrom(o, DoneSkills, ActivePairs, 1, entry, agent)
    BY <1>1, <2>1 DEF PassBegins
  <2>5. \A b \in Agents : Young(agent[b]) => <<agent[b].skill, agent[b].target>> \in ActivePairs
    BY DEF DevsInv, YoungListed, ActivePairs
  <2>6. ServedOn
    BY <2>2, <2>3, <2>4, <2>5, PassFromServes
  <2>7. (loop' = LoopsAfterPass(o) \/ loop' = loop) /\ entry' = entry
    BY <1>2, <2>4
  <2> QED
    BY <1>1, <1>3, <1>4, <2>3, <2>6, <2>7, EntriesAlone, WorkKeeps
<1>6. CASE PassContinues
  <2> DEFINE ag == WithTask(agent, spawner.dev)
  <2>0. PICK o, d, s : o = spawner.owner /\ d = spawner.dev /\ s = spawner.skill
    OBVIOUS
  <2>1. /\ o # "none" /\ d \in Agents /\ agent[d].pc = "spawned"
        /\ spawner \in PassRecord /\ o \in Callers
        /\ s \in Skills /\ spawner.left \in SUBSET Targets
    BY <1>6, <2>0 DEF PassContinues, IInv, CallersOK, SpawnsAwaited, PassOK, PassIsCovered, PassRecord
  <2>2. /\ o \in Agents => agent[o].pc = "confirming"
        /\ o \in Loops => loop[o].pc = "promoting"
    BY <2>0, <2>1, ConfigAssumption DEF IInv, CallersOK, SpawnLockOwned
  <2>3. ag \in [Agents -> AgentRecord] /\ PassBase(ag)
    BY <2>0, <2>1, AgentType DEF WithTask, AgentRecord, TaskPc, PassBase
  <2>4. /\ \A t \in spawner.left : <<spawner.skill, t>> \notin spawner.active
        /\ \A b \in Agents : Young(agent[b]) =>
             \/ <<agent[b].skill, agent[b].target>> \in spawner.active
             \/ agent[b].skill < spawner.skill
             \/ agent[b].skill = spawner.skill /\ agent[b].target \notin spawner.left
        /\ agent[d].skill = s
    BY <2>0, <2>1 DEF DevsInv, PassAhead, DealtWith
  <2>5. CASE spawner.left # {}
    <3>1. /\ PassSpawns(o, spawner.done, spawner.active, s, spawner.left, ag)
          /\ entry' = entry /\ loop' = loop
      BY <1>6, <2>0, <2>5 DEF PassContinues
    <3> HIDE DEF ag
    <3>2. ServedOn
      BY <2>0, <2>1, <2>3, <2>4, <3>1, PassSpawnServes
    <3> QED
      BY <1>1, <1>3, <1>4, <2>2, <3>1, <3>2, EntriesAlone, WorkKeeps
  <2>6. CASE spawner.left = {}
    <3>1. PassFrom(o, spawner.done, spawner.active, s + 1, [entry EXCEPT ![s] = "writing"], ag)
      BY <1>6, <2>0, <2>6 DEF PassContinues
    <3>2. ASSUME NEW b \in Agents, Young(agent[b])
          PROVE  \/ <<agent[b].skill, agent[b].target>> \in spawner.active
                 \/ \A k \in Skills : k >= s + 1 => agent[b].skill < k
      <4>1. agent[b].skill \in Nat
        BY AgentType, ConfigAssumption DEF AgentRecord
      <4>2. s \in Nat /\ Skills \subseteq Nat
        BY <2>1, ConfigAssumption DEF Skills
      <4>3. \/ <<agent[b].skill, agent[b].target>> \in spawner.active
            \/ agent[b].skill < s \/ agent[b].skill = s
        BY <2>0, <2>4, <3>2
      <4> QED
        BY <4>1, <4>2, <4>3
    <3> HIDE DEF ag
    <3>3. ServedOn
      BY <2>0, <2>1, <2>2, <2>3, <3>1, <3>2, PassFromServes
    <3>4. (loop' = LoopsAfterPass(o) \/ loop' = loop) /\ entry' = [entry EXCEPT ![s] = "writing"]
      BY <1>2, <3>1
    <3>5. Server(s)'
      <4>1. entry'[agent[d].skill] = "writing"
        BY <2>1, <2>4, <3>4, WorkTypes
      <4>2. Serves(d)' /\ agent'[d].skill = s
        BY <2>0, <2>1, <2>4, <3>3, <4>1 DEF ServedOn
      <4> QED
        BY <2>1, <4>2 DEF Server
    <3>6. EntriesGoOn
      BY <3>4, <3>5, WorkTypes DEF EntriesGoOn
    <3> QED
      BY <1>1, <1>3, <1>4, <2>2, <3>3, <3>4, <3>6, WorkKeeps
  <2> QED
    BY <2>5, <2>6
<1> QED
  BY <1>5, <1>6

(* A test loop that goes on, or leaves its skill to the human.              *)
LEMMA LoopGoesOnServes ==
  ASSUME IInv, NEW l \in Loops, loop[l].pc # "free", NEW n,
         n = NoLoop \/ (n.pc # "free" /\ n.skill = loop[l].skill), LoopGoesOn(l, n)
  PROVE  LoopsGoOn /\ FlagsGoOn /\ EntriesGoOn /\ inTestLoop' \subseteq Skills
<1>1. PICK s : s = loop[l].skill
  OBVIOUS
<1>2. s \in Skills
  BY <1>1, LoopSkill
<1>3. /\ loop'[l] = n /\ \A k \in Loops : k # l => loop'[k] = loop[k]
      /\ entry' = [entry EXCEPT ![s] = IF n = NoLoop THEN "review" ELSE "testing"]
      /\ inTestLoop' = IF n = NoLoop THEN inTestLoop \ {s} ELSE inTestLoop
  BY <1>1 DEF LoopGoesOn, IInv, LoopsOK, LoopsFit
<1>4. \A k : LoopFor(k) => LoopFor(k)' \/ (n = NoLoop /\ k = s)
  BY <1>1, <1>3 DEF LoopFor
<1>5. n # NoLoop => LoopFor(s)'
  BY <1>1, <1>3 DEF LoopFor
<1>6. LoopsGoOn /\ FlagsGoOn
  BY <1>2, <1>3, <1>4, WorkTypes DEF LoopsGoOn, FlagsGoOn
<1>7. EntriesGoOn
  BY <1>2, <1>3, <1>5, WorkTypes DEF EntriesGoOn
<1> QED
  BY <1>3, <1>6, <1>7, WorkTypes

(* A test loop that stays with its skill while the entry gets a status that *)
(* is no work, or none.                                                     *)
LEMMA LoopStaysServes ==
  ASSUME IInv, NEW l \in Loops, loop[l].pc # "free", NEW q, q.pc # "free",
         q.skill = loop[l].skill, loop' = [loop EXCEPT ![l] = q], inTestLoop' = inTestLoop,
         NEW s, NEW status \in {"failed", "done", "review"},
         entry' = entry \/ entry' = [entry EXCEPT ![s] = status]
  PROVE  LoopsGoOn /\ FlagsGoOn /\ EntriesGoOn /\ inTestLoop' \subseteq Skills
<1>1. loop'[l] = q /\ \A k \in Loops : k # l => loop'[k] = loop[k]
  BY DEF IInv, LoopsOK, LoopsFit
<1>2. \A k : LoopFor(k) => LoopFor(k)'
  BY <1>1 DEF LoopFor
<1>3. EntriesGoOn
  BY WorkTypes DEF EntriesGoOn
<1> QED
  BY <1>2, <1>3, WorkTypes DEF LoopsGoOn, FlagsGoOn

(* Every step of a test loop.                                               *)
LEMMA LoopServes ==
  ASSUME IInv, WorkInv, NEW l \in Loops, LoopStep(l)
  PROVE  WorkInv'
<1>1. devMode' /\ spawner' = spawner
  BY DEF WorkInv, LoopStep, TestReturns, LoopValidates, LoopRetries, LoopPicksDev, LoopResumes
<1>2. PICK s : s = loop[l].skill
  OBVIOUS
<1>3. loop[l].pc # "free" /\ loop[l] \in LoopRecord
  BY DEF LoopStep, TestReturns, LoopValidates, LoopRetries, LoopPicksDev, LoopResumes,
         IInv, LoopsOK, LoopsFit
<1>4. ASSUME NEW k, NEW m PROVE NextAttempt(k, m) = NoLoop
                                \/ (NextAttempt(k, m).pc # "free" /\ NextAttempt(k, m).skill = k)
  BY DEF NextAttempt
<1>5. ASSUME NEW pc \in {"failing", "promoting", "validating", "respawned", "waiting"}, NEW dev
      PROVE  LET q == [loop[l] EXCEPT !.pc = pc]
                 p == [loop[l] EXCEPT !.pc = pc, !.dev = dev]
             IN q.pc # "free" /\ q.skill = s /\ p.pc # "free" /\ p.skill = s
  BY <1>2, <1>3 DEF LoopRecord
<1>6. CASE \E passed \in BOOLEAN : TestReturns(l, passed)
  <2>1. PICK passed \in BOOLEAN : TestReturns(l, passed)
    BY <1>6
  <2>2. PICK pc \in {"failing", "promoting", "validating"} : loop' = [loop EXCEPT ![l].pc = pc]
    BY <2>1 DEF TestReturns
  <2>3. PICK status \in {"failed", "done", "review"} : entry' = [entry EXCEPT ![s] = status]
    BY <1>2, <2>1 DEF TestReturns
  <2> DEFINE q == [loop[l] EXCEPT !.pc = pc]
  <2>4. q.pc # "free" /\ q.skill = s
    BY <1>5
  <2>5. loop' = [loop EXCEPT ![l] = q] /\ inTestLoop' = inTestLoop /\ agent' = agent
    BY <2>1, <2>2 DEF TestReturns
  <2> HIDE DEF q
  <2>6. LoopsGoOn /\ FlagsGoOn /\ EntriesGoOn /\ inTestLoop' \subseteq Skills
    BY <1>2, <1>3, <2>3, <2>4, <2>5, LoopStaysServes
  <2> QED
    BY <1>1, <2>5, <2>6, ServersAlone, WorkKeeps
<1>7. ASSUME NEW pc \in {"failing", "respawned", "waiting"}, NEW dev,
             \/ loop' = [loop EXCEPT ![l].pc = pc]
             \/ loop' = [loop EXCEPT ![l].pc = pc, ![l].dev = dev],
             entry' = entry, inTestLoop' = inTestLoop, ServersGoOn
      PROVE  WorkInv'
  <2> DEFINE q == [loop[l] EXCEPT !.pc = pc]
             p == [loop[l] EXCEPT !.pc = pc, !.dev = dev]
  <2>1. q.pc # "free" /\ q.skill = s /\ p.pc # "free" /\ p.skill = s
    BY <1>5
  <2>2. loop' = [loop EXCEPT ![l] = q] \/ loop' = [loop EXCEPT ![l] = p]
    <3>1. CASE loop' = [loop EXCEPT ![l].pc = pc]
      BY <3>1
    <3>2. CASE loop' = [loop EXCEPT ![l].pc = pc, ![l].dev = dev]
      BY <3>2 DEF IInv, LoopsOK, LoopsFit
    <3> QED
      BY <1>7, <3>1, <3>2
  <2> HIDE DEF q, p
  <2>3. LoopsGoOn /\ FlagsGoOn /\ EntriesGoOn /\ inTestLoop' \subseteq Skills
    BY <1>2, <1>3, <1>7, <2>1, <2>2, LoopStaysServes
  <2> QED
    BY <1>1, <1>7, <2>3, WorkKeeps
<1>8. ASSUME NEW n, n = NoLoop \/ (n.pc # "free" /\ n.skill = s), LoopGoesOn(l, n), ServersGoOn
      PROVE  WorkInv'
  BY <1>1, <1>2, <1>3, <1>8, LoopGoesOnServes, WorkKeeps
<1>9. CASE \E passed \in BOOLEAN : LoopValidates(l, passed)
  <2>1. ServersGoOn
    BY <1>1, <1>9, ServersAlone DEF LoopValidates
  <2> QED
    BY <1>7, <1>8, <1>9, <2>1 DEF LoopValidates
<1>10. CASE LoopRetries(l)
  <2>1. CASE LoopGoesOn(l, NoLoop) /\ agent' = agent
    BY <1>1, <1>8, <2>1, ServersAlone
  <2>2. CASE /\ Slots(s, Untargeted) # {}
             /\ agent' = WithSpawn(agent, Slot(s, Untargeted), s, Untargeted)
             /\ loop' = [loop EXCEPT ![l].pc = "respawned", ![l].dev = Slot(s, Untargeted)]
             /\ entry' = entry /\ inTestLoop' = inTestLoop
    <3>1. ServersGoOn
      BY <1>1, <2>2, UntargetedSpawnServes
    <3> QED
      BY <1>7, <2>2, <3>1
  <2>3. CASE /\ agent' = agent /\ entry' = entry /\ inTestLoop' = inTestLoop
             /\ loop' = [loop EXCEPT ![l].pc = "respawned"]
    BY <1>1, <1>7, <2>3, ServersAlone
  <2> QED
    BY <1>2, <1>10, <2>1, <2>2, <2>3 DEF LoopRetries
<1>11. CASE LoopPicksDev(l)
  <2>0. PICK d : d = loop[l].dev
    OBVIOUS
  <2>1. /\ loop[l].pc = "respawned"
        /\ agent' = IF d \in Agents THEN WithTask(agent, d) ELSE agent
    BY <1>11, <2>0 DEF LoopPicksDev
  <2>2. ServersGoOn
    <3>1. CASE d \notin Agents
      BY <1>1, <2>1, <3>1, ServersAlone
    <3>2. CASE d \in Agents
      <4> DEFINE q == [agent[d] EXCEPT !.pc = "starting"]
      <4>0. PICK k : k = agent[d].skill
        OBVIOUS
      <4>1. agent[d].pc = "spawned" /\ agent[d] \in AgentRecord
        BY <2>0, <2>1, <3>2, ConfigAssumption, AgentType DEF IInv, CallersOK, SpawnsAwaited, Awaits
      <4>2. agent' = [agent EXCEPT ![d] = q]
        BY <2>1, <3>2 DEF WithTask
      <4>3. AtWork(spawner, agent[d]) => AtWork(spawner, q) /\ q.skill = k
        BY <4>0, <4>1 DEF AtWork, GaveUp, AgentRecord
      <4> HIDE DEF q
      <4> QED
        BY <1>1, <3>2, <4>0, <4>2, <4>3, OneServer
    <3> QED
      BY <3>1, <3>2
  <2>3. \/ \E a \in Agents : /\ loop' = [loop EXCEPT ![l].pc = "waiting", ![l].dev = a]
                             /\ entry' = entry /\ inTestLoop' = inTestLoop
        \/ LoopGoesOn(l, NextAttempt(s, loop[l].attempt))
    BY <1>2, <1>11 DEF LoopPicksDev
  <2>4. CASE LoopGoesOn(l, NextAttempt(s, loop[l].attempt))
    BY <1>4, <1>8, <2>2, <2>4
  <2>5. CASE \E a \in Agents : /\ loop' = [loop EXCEPT ![l].pc = "waiting", ![l].dev = a]
                               /\ entry' = entry /\ inTestLoop' = inTestLoop
    BY <1>7, <2>2, <2>5
  <2> QED
    BY <2>3, <2>4, <2>5
<1>12. CASE LoopResumes(l)
  <2>1. LoopGoesOn(l, NextAttempt(s, loop[l].attempt)) /\ agent' = agent
    BY <1>2, <1>12 DEF LoopResumes
  <2> QED
    BY <1>1, <1>4, <1>8, <2>1, ServersAlone
<1> QED
  BY <1>6, <1>9, <1>10, <1>11, <1>12 DEF LoopStep

(* The timeout of an agent: its skill is failed, and the spawn its pass     *)
(* awaited was not announced yet.                                           *)
LEMMA TimeoutServes ==
  ASSUME Unhindered, IInv, WorkInv, NEW a \in Agents, AgentTimesOut(a)
  PROVE  WorkInv'
<1> DEFINE q == [agent[a] EXCEPT !.pc = "gone", !.client = Closed(agent[a].client),
                     !.status = IF Harness = "openclaw" THEN "failed" ELSE "stopped"]
<1>0. PICK s : s = agent[a].skill
  OBVIOUS
<1>1. /\ agent' = AgentsAfterCancel(a, q) /\ agent[a].pc # "free"
      /\ spawner' = IF spawner.owner = a THEN NoPass ELSE spawner
      /\ entry' = [entry EXCEPT ![s] = "failed"] /\ loop' = loop /\ inTestLoop' = inTestLoop
      /\ devMode'
  BY <1>0 DEF AgentTimesOut, TaskCancelled, HasTask, Unhindered, Uninterrupted, WorkInv
<1> HIDE DEF q
<1>2. s \in Skills
  BY <1>0, <1>1, AgentSkill
<1>3. entry'[s] = "failed" /\ EntriesGoOn
  BY <1>1, <1>2, WorkTypes DEF EntriesGoOn
<1>4. ASSUME NEW b \in Agents, b # a, Serves(b)
      PROVE  Serves(b)' /\ agent'[b].skill = agent[b].skill
  <2>1. ~(spawner.owner = a /\ b = spawner.dev)
    BY <1>4, ConfigAssumption DEF Serves
  <2>2. agent'[b] = agent[b]
    BY <1>1, <1>4, <2>1 DEF AgentsAfterCancel
  <2>3. AtWork(spawner', agent'[b])
    BY <1>1, <1>4, <2>2, NoPassOK DEF Serves, AtWork, Replaces
  <2> QED
    BY <1>1, <1>4, <2>2, <2>3, NoPassOK DEF Serves
<1>5. ASSUME NEW k, NEW b \in Agents, Serves(b)', agent'[b].skill = k
      PROVE  Server(k)'
  BY <1>5 DEF Server
<1>6. ASSUME NEW k \in Skills, Server(k)
      PROVE  entry'[k] \notin {"writing", "evaluating"} \/ Server(k)'
  <2>1. PICK b \in Agents : Serves(b) /\ agent[b].skill = k
    BY <1>6 DEF Server
  <2> QED
    BY <1>0, <1>3, <1>4, <1>5, <2>1
<1>7. ServersGoOn
  BY <1>6 DEF ServersGoOn
<1> QED
  BY <1>1, <1>3, <1>7, WorkTypes, LoopsAlone, WorkKeeps

(* Every step keeps the work served.                                        *)
LEMMA WorkStep ==
  ASSUME Unhindered
  PROVE  IInv /\ DevsInv /\ WorkInv /\ [Next]_vars => WorkInv'
<1> SUFFICES ASSUME IInv, DevsInv, WorkInv, [Next]_vars PROVE WorkInv'
  OBVIOUS
<1>1. CASE /\ UNCHANGED <<agent, spawner, loop, inTestLoop>> /\ devMode'
           /\ (entry' = entry \/ \E s \in Skills : entry' = [entry EXCEPT ![s] = "done"])
  <2>1. EntriesGoOn
    BY <1>1, WorkTypes DEF EntriesGoOn
  <2> QED
    BY <1>1, <2>1, WorkTypes, LoopsAlone, ServersAlone, WorkKeeps
<1>2. CASE \E a \in Agents : RunnerStep(a)
  BY <1>2, RunnerServes, VerdictServes DEF RunnerStep
<1>3. CASE (\E o \in Callers : PassBegins(o)) \/ PassContinues
  BY <1>3, PassServes
<1>4. CASE \E l \in Loops : LoopStep(l)
  BY <1>4, LoopServes
<1>5. CASE Command
  <2>1. CASE XbotStart \/ \E s \in Skills : PatchDone(s)
    BY <1>1, <2>1 DEF XbotStart, PatchDone, WorkInv
  <2>2. CASE \E s \in Skills : Retry(s)
    <3>1. PICK s \in Skills : Retry(s)
      BY <2>2
    <3>2. ServersGoOn
      BY <3>1, UntargetedSpawnServes DEF Retry
    <3> QED
      BY <3>1, <3>2, WorkTypes, LoopsAlone, EntriesAlone, WorkKeeps DEF Retry, WorkInv
  <2> QED
    BY <1>5, <2>1, <2>2
    DEF Command, Unhindered, Uninterrupted, Given, Confirm, StopAgent, KillAgent
<1>6. CASE Restart
  BY <1>6 DEF Restart, StatusAfterRestart, Unhindered, WorkInv, FlagsServed, TestsServed, WritingServed
<1>7. CASE Fault
  BY <1>6, <1>7, RunnerServes, TimeoutServes DEF Fault
<1>8. CASE (\E s \in Skills : ZombieEnds(s)) \/ UNCHANGED vars
  BY <1>1, <1>8 DEF ZombieEnds, vars, WorkInv
<1> QED
  BY <1>2, <1>3, <1>4, <1>5, <1>7, <1>8 DEF Next

(* No skill is stuck unseen: whatever the entry says is going on, there is  *)
(* a task behind it, or an agent that is listed with its error, through     *)
(* every failing runner, timeout, restart and replaced agent.               *)
THEOREM WorkIsServedHolds ==
  ASSUME Unhindered
  PROVE  Spec => []WorkIsServed
<1>1. Init => WorkInv
  BY DEF Init, Unhindered, WorkInv, FlagsServed, TestsServed, WritingServed
<1>2. IInv /\ DevsInv /\ WorkInv /\ [Next]_vars => WorkInv'
  BY WorkStep
<1>3. Spec => []DevsInv
  BY DevsHold DEF Unhindered
<1>4. WorkInv => WorkIsServed
  BY WorkEnough
<1> QED
  BY <1>1, <1>2, <1>3, <1>4, IInvHolds, PTL DEF Spec

-----------------------------------------------------------------------------
(* A skill that is done is left alone, when it has one target, no test loop *)
(* and no human who marks skills done or spawns agents for them: with two   *)
(* targets, or beside an agent a human spawned, one agent's verdict would   *)
(* finish a skill that another is still developing.                         *)

SoleDeveloper ==
  NumTargets = 1 /\ ~TaskEnv /\ Env \cap {"confirm", "patch", "retry"} = {}

Occupied(r) == r.pc \notin {"free", "resting", "gone", "taskless"}

(* What the agents ag and the entries ent keep to.  An agent at work is the *)
(* only listed or working one of its skill; an entry a pass may take has    *)
(* nobody at work but an agent whose spawn is awaited; and a subprocess     *)
(* leaves no client to rest with.                                           *)
OnTarget(ag)  == \A a \in Agents : ag[a].listed \/ ag[a].pc # "free" => ag[a].target = 1
NoRest(ag)    == Harness = "openclaw" =>
                   \A a \in Agents : ag[a].client = "none" /\ ag[a].pc # "resting"
Alone(ag)     ==
  \A a, b \in Agents : a # b /\ Occupied(ag[b]) /\ ag[a].skill = ag[b].skill =>
    ~Occupied(ag[a]) /\ ~ag[a].listed
Untaken(ag, s) == \A a \in Agents : ag[a].skill = s /\ Occupied(ag[a]) => ag[a].pc = "spawned"
Quiet(ag, s)   == \A a \in Agents : ag[a].skill = s /\ Occupied(ag[a]) => ag[a].pc = "confirming"
QuietState(ag, ent) ==
  /\ OnTarget(ag) /\ NoRest(ag) /\ Alone(ag)
  /\ \A s \in Skills : ent[s] \in {"planned", "failed"} => Untaken(ag, s)
  /\ \A s \in Skills : ent[s] = "done" => Quiet(ag, s)

(* No test loop runs, and the one spawn under way is that of the pass.      *)
NoLoops     == \A l \in Loops : loop[l].pc = "free"
SpawnOfPass ==
  \A a \in Agents : agent[a].pc = "spawned" =>
    spawner.owner # "none" /\ spawner.dev = a /\ spawner.skill = agent[a].skill
LastTarget  == spawner.owner # "none" => spawner.left = {}
QuietInv    == NoLoops /\ SpawnOfPass /\ LastTarget /\ QuietState(agent, entry)

(* What the theorem is about follows.                                       *)
LEMMA QuietEnough == QuietInv => DoneIsQuiet
BY DEF QuietInv, QuietState, Quiet, DoneIsQuiet, Busy, Occupied

(* The way of an agent until its work is over: it stays what it is for, is  *)
(* never listed again, and from an awaited spawn or from its last pass goes *)
(* only to its end.                                                         *)
Ages(r, q) ==
  \/ q = NoAgent
  \/ /\ q.skill = r.skill /\ q.target = r.target
     /\ q.listed => r.listed
     /\ q.pc # "free" => r.pc # "free"
     /\ Occupied(q) => Occupied(r) /\ (r.pc \in {"spawned", "confirming"} => q.pc = r.pc)
     /\ q.pc = "spawned" => r.pc = "spawned"
     /\ Harness = "openclaw" /\ r.client = "none" /\ r.pc # "resting" =>
          q.client = "none" /\ q.pc # "resting"

(* Freeing a slot is the end.                                               *)
LEMMA SettledAges == ASSUME NEW r, NEW q, Ages(r, q) PROVE Ages(r, Settled(q))
BY DEF Ages, Settled

(* Nothing happens to an agent.                                             *)
LEMMA SameAges == ASSUME NEW r PROVE Ages(r, r)
BY DEF Ages

(* An agent that is over.                                                   *)
LEMMA OverAges ==
  ASSUME NEW r, NEW q, q.skill = r.skill, q.target = r.target, q.listed => r.listed,
         r.pc # "free", q.pc \in {"gone", "taskless", "resting"},
         Harness = "openclaw" /\ r.client = "none" => q.client = "none" /\ q.pc # "resting"
  PROVE  Ages(r, Settled(q))
<1>1. Ages(r, q)
  BY DEF Ages, Occupied
<1> QED
  BY <1>1, SettledAges

(* The entries allow what the agents do: one that becomes done, or ready    *)
(* for a pass, has nobody at work who should not be.                        *)
EntriesAllow(ag, ent, entNow) ==
  /\ \A s \in Skills : entNow[s] \in {"planned", "failed"} =>
       ent[s] \in {"planned", "failed"} \/ Untaken(ag, s)
  /\ \A s \in Skills : entNow[s] = "done" => ent[s] = "done" \/ Quiet(ag, s)

(* Agents that age keep to it.                                              *)
LEMMA AgingKeeps ==
  ASSUME NEW ag, NEW new, NEW ent, NEW entNow,
         QuietState(ag, ent), \A x \in Agents : Ages(ag[x], new[x]),
         EntriesAllow(new, ent, entNow)
  PROVE  QuietState(new, entNow)
<1>1. \A x \in Agents : \/ new[x].pc = "free" /\ ~new[x].listed /\ new[x].client = "none"
                        \/ /\ new[x].skill = ag[x].skill /\ new[x].target = ag[x].target
                           /\ new[x].listed => ag[x].listed
                           /\ new[x].pc # "free" => ag[x].pc # "free"
  BY DEF Ages, NoAgent
<1>2. OnTarget(new)
  BY <1>1 DEF QuietState, OnTarget
<1>3. NoRest(new)
  BY DEF QuietState, NoRest, Ages, NoAgent
<1>4. \A x \in Agents : Occupied(new[x]) => 
         /\ Occupied(ag[x]) /\ new[x].skill = ag[x].skill
         /\ ag[x].pc \in {"spawned", "confirming"} => new[x].pc = ag[x].pc
  BY DEF Ages, NoAgent, Occupied
<1>5. Alone(new)
  BY <1>1, <1>4 DEF QuietState, Alone, Occupied
<1>6. \A s \in Skills : /\ Untaken(ag, s) => Untaken(new, s)
                        /\ Quiet(ag, s) => Quiet(new, s)
  BY <1>4 DEF Untaken, Quiet
<1> QED
  BY <1>2, <1>3, <1>5, <1>6 DEF QuietState, EntriesAllow

(* Steps of the agents that start no spawn and end no pass.                 *)
LEMMA QuietKeeps ==
  ASSUME QuietInv, \A x \in Agents : Ages(agent[x], agent'[x]),
         EntriesAllow(agent', entry, entry'), loop' = loop, spawner' = spawner
  PROVE  QuietInv'
<1>1. \A nw, en : (\A x \in Agents : Ages(agent[x], nw[x])) /\ EntriesAllow(nw, entry, en)
                    => QuietState(nw, en)
  BY AgingKeeps DEF QuietInv
<1>2. QuietState(agent', entry')
  BY <1>1
<1>3. \A a \in Agents : agent'[a].pc = "spawned" =>
        agent[a].pc = "spawned" /\ agent'[a].skill = agent[a].skill
  BY DEF Ages, NoAgent
<1>4. SpawnOfPass'
  BY <1>3 DEF QuietInv, SpawnOfPass
<1> QED
  BY <1>2, <1>4 DEF QuietInv, NoLoops, LastTarget

(* Entries that stay allow everything.                                      *)
LEMMA EntriesStay == ASSUME NEW ag, NEW ent PROVE EntriesAllow(ag, ent, ent)
BY DEF EntriesAllow

(* One agent ages.                                                          *)
LEMMA OneAges ==
  ASSUME IInv, QuietInv, NEW a \in Agents, NEW q, agent' = [agent EXCEPT ![a] = q],
         Ages(agent[a], q), EntriesAllow(agent', entry, entry'),
         loop' = loop, spawner' = spawner
  PROVE  QuietInv'
<1>1. \A x \in Agents : agent'[x] = IF x = a THEN q ELSE agent[x]
  BY AgentType
<1>2. \A x \in Agents : Ages(agent[x], agent'[x])
  BY <1>1, SameAges
<1> QED
  BY <1>2, QuietKeeps

(* With nobody awaiting it no spawn is under way, and with a spawn awaited  *)
(* its pass is there: no agent creates its own task.                        *)
LEMMA NoOwnTask == ASSUME QuietInv, NEW a \in Agents PROVE ~TaskCreated(a)
BY DEF QuietInv, SpawnOfPass, TaskCreated

(* The runner's steps that write no entry.                                  *)
LEMMA RunnerQuiet ==
  ASSUME SoleDeveloper, IInv, QuietInv, NEW a \in Agents,
         \/ RunnerStarts(a) \/ RunnerFails(a) \/ WorkEnds(a) \/ EvaluatorStarts(a)
         \/ (\E verdict \in {"passed", "rejected"} : EvaluatorReturns(a, verdict))
         \/ RunnerLeaves(a)
  PROVE  QuietInv'
<1> DEFINE r == agent[a]
<1>1. /\ r \in AgentRecord /\ loop' = loop /\ spawner' = spawner /\ entry' = entry
      /\ Harness = "openclaw" => r.client = "none" /\ r.pc # "resting"
  BY AgentType
  DEF RunnerStarts, RunnerFails, WorkEnds, EvaluatorStarts, EvaluatorReturns, RunnerLeaves,
      QuietInv, QuietState, NoRest
<1>2. ASSUME NEW q, agent' = [agent EXCEPT ![a] = q], Ages(r, q)
      PROVE  QuietInv'
  BY <1>1, <1>2, OneAges, EntriesStay
<1>3. CASE RunnerStarts(a)
  <2> DEFINE q == [r EXCEPT !.pc = "working", !.status = "running",
                            !.client = IF Harness = "sdk" THEN "open" ELSE "none"]
  <2>1. agent' = [agent EXCEPT ![a] = q] /\ r.pc = "starting"
    BY <1>3 DEF RunnerStarts
  <2>2. Ages(r, q)
    BY <1>1, <2>1 DEF Ages, Occupied, AgentRecord
  <2> HIDE DEF q
  <2> QED
    BY <1>2, <2>1, <2>2
<1>4. CASE EvaluatorStarts(a) \/ \E verdict \in {"passed", "rejected"} : EvaluatorReturns(a, verdict)
  <2>1. PICK pc \in {"evaluating", "passed", "rejected"} :
               agent' = [agent EXCEPT ![a].pc = pc] /\ r.pc \in {"queued", "evaluating"}
    BY <1>4 DEF EvaluatorStarts, EvaluatorReturns
  <2> DEFINE q == [r EXCEPT !.pc = pc]
  <2>2. Ages(r, q)
    BY <1>1, <2>1 DEF Ages, Occupied, AgentRecord
  <2>3. agent' = [agent EXCEPT ![a] = q]
    BY <2>1
  <2> HIDE DEF q
  <2> QED
    BY <1>2, <2>2, <2>3
<1>5. CASE RunnerFails(a) \/ RunnerLeaves(a)
  <2>1. PICK status : agent' = [agent EXCEPT ![a] =
                        Settled([r EXCEPT !.status = status, !.pc = "gone",
                                          !.client = Closed(r.client)])]
                   \/ agent' = [agent EXCEPT ![a] =
                        Settled([r EXCEPT !.pc = "gone", !.client = Closed(r.client)])]
    BY <1>5 DEF RunnerFails, RunnerLeaves
  <2> DEFINE q == [r EXCEPT !.status = status, !.pc = "gone", !.client = Closed(r.client)]
             p == [r EXCEPT !.pc = "gone", !.client = Closed(r.client)]
  <2>2. r.pc # "free"
    BY <1>5 DEF RunnerFails, RunnerLeaves
  <2>3. Ages(r, Settled(q)) /\ Ages(r, Settled(p))
    <3>1. \A e \in {q, p} : /\ e.skill = r.skill /\ e.target = r.target /\ e.listed = r.listed
                            /\ e.pc = "gone" /\ (r.client = "none" => e.client = "none")
      BY <1>1 DEF Closed, AgentRecord
    <3> HIDE DEF q, p
    <3> QED
      BY <2>2, <3>1, OverAges
  <2>4. agent' = [agent EXCEPT ![a] = Settled(q)] \/ agent' = [agent EXCEPT ![a] = Settled(p)]
    BY <2>1
  <2> HIDE DEF q, p
  <2> QED
    BY <1>2, <2>3, <2>4
<1>6. CASE WorkEnds(a)
  <2> DEFINE over(status) == [r EXCEPT !.status = status, !.pc = AfterWork(r)]
             next == [r EXCEPT !.status = "done", !.pc = "finishing"]
  <2>1. PICK q : /\ agent' = [agent EXCEPT ![a] = q]
                 /\ q = next \/ \E status : q = Settled(over(status))
    BY <1>6 DEF WorkEnds
  <2>2. r.pc = "working"
    BY <1>6 DEF WorkEnds
  <2>3. \A status : Ages(r, Settled(over(status)))
    <3> SUFFICES ASSUME NEW status PROVE Ages(r, Settled(over(status)))
      OBVIOUS
    <3>1. /\ over(status).skill = r.skill /\ over(status).target = r.target
          /\ over(status).listed = r.listed /\ over(status).client = r.client
          /\ over(status).pc = AfterWork(r)
      BY <1>1 DEF AgentRecord
    <3> HIDE DEF over
    <3> QED
      BY <1>1, <2>2, <3>1, OverAges DEF AfterWork
  <2>4. Ages(r, next)
    BY <1>1, <2>2 DEF Ages, Occupied, AgentRecord
  <2> HIDE DEF over, next
  <2> QED
    BY <1>2, <2>1, <2>3, <2>4
<1> QED
  BY <1>3, <1>4, <1>5, <1>6

(* The agent that finishes leaves its work.                                 *)
LEMMA FinishedAges ==
  ASSUME NEW r \in AgentRecord, r.pc \in {"passed", "rejected"},
         NEW e \in {r, [r EXCEPT !.exit = TRUE]}
  PROVE  Ages(r, Finished(e)) /\ ~Occupied(Finished(e))
<1> DEFINE q == [e EXCEPT !.status = IF e.status = "done" THEN RestStatus(e.skill) ELSE e.status,
                          !.pc = AfterWork(e)]
<1>1. /\ q.skill = r.skill /\ q.target = r.target /\ q.listed = r.listed
      /\ q.pc = AfterWork(r) /\ q.client = r.client /\ Finished(e) = Settled(q)
  BY DEF Finished, AfterWork, AgentRecord
<1> HIDE DEF q
<1>2. q.pc \in {"gone", "resting"} /\ (r.client = "none" => q.pc = "gone")
  BY <1>1 DEF AfterWork
<1>3. Ages(r, Settled(q))
  BY <1>1, <1>2, OverAges
<1>4. ~Occupied(Settled(q))
  BY <1>2 DEF Settled, Occupied, NoAgent
<1> QED
  BY <1>1, <1>3, <1>4

(* Whoever is at work keeps the others of its skill from it: once it is     *)
(* over nobody is at work on the skill.                                     *)
LEMMA LastOne ==
  ASSUME IInv, QuietInv, NEW a \in Agents, Occupied(agent[a]) \/ agent[a].listed,
         NEW new, \A x \in Agents : x = a \/ new[x] = agent[x]
                                  \/ ~Occupied(new[x]) \/ new[x].skill # agent[a].skill,
         ~Occupied(new[a]) \/ new[a].pc = "spawned"
  PROVE  Untaken(new, agent[a].skill)
<1>1. \A b \in Agents : b # a /\ agent[b].skill = agent[a].skill => ~Occupied(agent[b])
  BY DEF QuietInv, QuietState, Alone
<1> QED
  BY <1>1 DEF Untaken

(* The entry of one skill changes.                                          *)
LEMMA OneEntryAllows ==
  ASSUME IInv, NEW s \in Skills, NEW status, NEW new,
         entry' = [entry EXCEPT ![s] = status],
         status \in {"planned", "failed"} => Untaken(new, s),
         status = "done" => entry[s] = "done" \/ Quiet(new, s)
  PROVE  EntriesAllow(new, entry, entry')
BY WorkTypes DEF EntriesAllow

(* The verdict steps, and the entry's way to the evaluation.                *)
LEMMA VerdictQuiet ==
  ASSUME SoleDeveloper, IInv, QuietInv, NEW a \in Agents,
         EvaluationQueued(a) \/ RejectionHandled(a) \/ PassHandled(a)
  PROVE  QuietInv'
<1> DEFINE r == agent[a]
           s == agent[a].skill
<1>1. /\ r \in AgentRecord /\ loop' = loop /\ spawner' = spawner
      /\ r.pc \in {"finishing", "passed", "rejected"} /\ s \in Skills
      /\ Harness = "openclaw" => r.client = "none" /\ r.pc # "resting"
  <2>1. r.pc \in {"finishing", "passed", "rejected"}
    BY DEF EvaluationQueued, RejectionHandled, PassHandled
  <2> QED
    BY <2>1, AgentType, AgentSkill
    DEF EvaluationQueued, RejectionHandled, PassHandled, QuietInv, QuietState, NoRest,
        SoleDeveloper, IsTaskRoot
<1>2. Occupied(r)
  BY <1>1 DEF Occupied
<1>3. ASSUME NEW q, agent' = [agent EXCEPT ![a] = q], Ages(r, q),
             entry' = [entry EXCEPT ![s] = entry'[s]],
             entry'[s] \in {"planned", "failed", "done"} => ~Occupied(q)
      PROVE  QuietInv'
  <2>1. \A x \in Agents : agent'[x] = IF x = a THEN q ELSE agent[x]
    BY <1>3, AgentType
  <2>2. ~Occupied(q) => \A x \in Agents : agent'[x].skill = s => ~Occupied(agent'[x])
    BY <1>2, <2>1 DEF QuietInv, QuietState, Alone
  <2>3. entry'[s] \in {"planned", "failed"} => Untaken(agent', s)
    BY <1>3, <2>2 DEF Untaken
  <2>4. entry'[s] = "done" => Quiet(agent', s)
    BY <1>3, <2>2 DEF Quiet
  <2>5. EntriesAllow(agent', entry, entry')
    BY <1>1, <1>3, <2>3, <2>4, OneEntryAllows
  <2> QED
    BY <1>1, <1>3, <2>5, OneAges
<1>4. \A status : entry' = [entry EXCEPT ![s] = status] =>
               entry'[s] = status /\ entry' = [entry EXCEPT ![s] = entry'[s]]
  BY <1>1, WorkTypes
<1>5. CASE EvaluationQueued(a)
  <2> DEFINE q == [r EXCEPT !.pc = "queued"]
  <2>1. agent' = [agent EXCEPT ![a] = q] /\ entry' = [entry EXCEPT ![s] = "evaluating"]
    BY <1>5 DEF EvaluationQueued
  <2>2. Ages(r, q)
    BY <1>1, <1>5 DEF Ages, Occupied, AgentRecord, EvaluationQueued
  <2> HIDE DEF q, r, s
  <2> QED
    BY <1>3, <1>4, <2>1, <2>2
<1>6. CASE RejectionHandled(a)
  <2>1. r.pc = "rejected"
    BY <1>6 DEF RejectionHandled
  <2>2. CASE agent' = [agent EXCEPT ![a] = RetriedInSession(r)]
             /\ entry' = [entry EXCEPT ![s] = "writing"]
    <3> DEFINE p == [r EXCEPT !.status = "running", !.pc = "working", !.client = "closed"]
               g == [r EXCEPT !.status = "running", !.pc = "gone"]
    <3>1. RetriedInSession(r) = IF r.client = "open" THEN p ELSE Settled(g)
      BY DEF RetriedInSession
    <3>2. r.client = "open" => Ages(r, p)
      BY <1>1, <2>1 DEF Ages, Occupied, AgentRecord
    <3>3. Ages(r, Settled(g))
      <4>1. /\ g.skill = r.skill /\ g.target = r.target /\ g.listed = r.listed
            /\ g.pc = "gone" /\ g.client = r.client
        BY <1>1 DEF AgentRecord
      <4> HIDE DEF g
      <4> QED
        BY <1>1, <2>1, <4>1, OverAges
    <3>4. Ages(r, RetriedInSession(r))
      BY <3>1, <3>2, <3>3
    <3> HIDE DEF r, s, p, g
    <3> QED
      BY <1>3, <1>4, <2>2, <3>4
  <2>3. CASE agent' = [agent EXCEPT ![a] = Finished(r)]
             /\ \E status : entry' = [entry EXCEPT ![s] = status]
    <3>1. Ages(r, Finished(r)) /\ ~Occupied(Finished(r))
      BY <1>1, <2>1, FinishedAges
    <3> QED
      BY <1>3, <1>4, <2>3, <3>1
  <2>4. \/ /\ agent' = [agent EXCEPT ![a] = RetriedInSession(r)]
           /\ entry' = [entry EXCEPT ![s] = "writing"]
        \/ /\ agent' = [agent EXCEPT ![a] = Finished(r)]
           /\ \E status : entry' = [entry EXCEPT ![s] = status]
    BY <1>6 DEF RejectionHandled, SentToReview
  <2> QED
    BY <2>2, <2>3, <2>4
<1>7. CASE PassHandled(a)
  <2>1. r.pc = "passed" /\ ~IsTaskRoot(s)
    BY <1>7 DEF PassHandled, SoleDeveloper, IsTaskRoot
  <2>2. CASE agent' = [agent EXCEPT ![a] = Finished(r)]
             /\ entry' = [entry EXCEPT ![s] = "review"]
    <3>1. Ages(r, Finished(r))
      BY <1>1, <2>1, FinishedAges
    <3> HIDE DEF r, s
    <3> QED
      BY <1>3, <1>4, <2>2, <3>1
  <2>3. CASE agent' = Released([agent EXCEPT ![a].pc = "confirming"], s)
             /\ entry' = [entry EXCEPT ![s] = "done"]
    <3>1. \A x \in Agents :
            /\ agent'[x].skill = agent[x].skill /\ agent'[x].target = agent[x].target
            /\ agent'[x].listed = agent[x].listed /\ agent'[x].client = agent[x].client
            /\ agent'[x].pc = IF x = a THEN "confirming" ELSE agent[x].pc
      BY <2>3, AgentType DEF Released, AgentRecord
    <3>2. \A x \in Agents : Ages(agent[x], agent'[x])
      BY <2>1, <3>1 DEF Ages, Occupied
    <3>3. Quiet(agent', s)
      BY <1>2, <3>1 DEF QuietInv, QuietState, Alone, Quiet, Occupied
    <3>4. EntriesAllow(agent', entry, entry')
      BY <1>1, <2>3, <3>3, OneEntryAllows
    <3> QED
      BY <1>1, <3>2, <3>4, QuietKeeps
  <2> QED
    BY <1>7, <2>1, <2>2, <2>3 DEF PassHandled
<1> QED
  BY <1>5, <1>6, <1>7

(* A cancelled task: its agent is over, and a spawn its pass awaited too.   *)
LEMMA CancelQuiet ==
  ASSUME SoleDeveloper, IInv, QuietInv, NEW a \in Agents, NEW q, TaskCancelled(a),
         agent' = AgentsAfterCancel(a, q), Ages(agent[a], q), agent[a].pc = "spawned" \/ q.pc # "spawned",
         EntriesAllow(agent', entry, entry'), \A l \in Loops : loop'[l].pc = "free"
  PROVE  QuietInv'
<1>1. agent'[a] = Settled(q)
  BY DEF AgentsAfterCancel
<1>2. spawner.owner = a => agent[a].pc = "confirming" /\ agent[spawner.dev].pc = "spawned"
                           /\ spawner.dev \in Agents
  BY ConfigAssumption DEF IInv, CallersOK, SpawnLockOwned, SpawnsAwaited
<1>3. ASSUME NEW b \in Agents, b # a
      PROVE  /\ Ages(agent[b], agent'[b])
             /\ spawner.owner = a /\ b = spawner.dev => agent'[b].pc # "spawned"
  <2>1. CASE spawner.owner = a /\ b = spawner.dev
    <3> DEFINE p == [agent[b] EXCEPT !.pc = "taskless"]
    <3>1. agent'[b] = Settled(p)
      BY <1>3, <2>1 DEF AgentsAfterCancel
    <3>2. /\ p.skill = agent[b].skill /\ p.target = agent[b].target /\ p.listed = agent[b].listed
          /\ p.pc = "taskless" /\ p.client = agent[b].client
      BY AgentType DEF AgentRecord
    <3>3. agent[b].pc # "free"
      BY <1>2, <2>1
    <3> HIDE DEF p
    <3>4. Ages(agent[b], Settled(p))
      BY <3>2, <3>3, OverAges
    <3>5. Settled(p).pc # "spawned"
      BY <3>2 DEF Settled, NoAgent
    <3> QED
      BY <3>1, <3>4, <3>5
  <2>2. CASE ~(spawner.owner = a /\ b = spawner.dev)
    BY <1>3, <2>2, SameAges DEF AgentsAfterCancel
  <2> QED
    BY <2>1, <2>2
<1>4. \A x \in Agents : Ages(agent[x], agent'[x])
  BY <1>1, <1>3, SettledAges
<1>5. \A nw, en : (\A x \in Agents : Ages(agent[x], nw[x])) /\ EntriesAllow(nw, entry, en)
                    => QuietState(nw, en)
  BY AgingKeeps DEF QuietInv
<1>6. QuietState(agent', entry')
  BY <1>4, <1>5
<1>7. \A b \in Agents : agent'[b].pc = "spawned" =>
        agent[b].pc = "spawned" /\ agent'[b].skill = agent[b].skill
  BY <1>4 DEF Ages, NoAgent
<1>8. CASE spawner.owner = a
  <2>1. \A b \in Agents : agent'[b].pc # "spawned"
    BY <1>2, <1>3, <1>7, <1>8 DEF QuietInv, SpawnOfPass
  <2>2. spawner'.owner = "none"
    BY <1>8, NoPassOK DEF TaskCancelled
  <2> QED
    BY <1>6, <2>1, <2>2 DEF QuietInv, SpawnOfPass, LastTarget, NoLoops
<1>9. CASE spawner.owner # a
  <2>1. spawner' = spawner
    BY <1>9 DEF TaskCancelled
  <2> QED
    BY <1>6, <1>7, <2>1 DEF QuietInv, SpawnOfPass, LastTarget, NoLoops
<1> QED
  BY <1>8, <1>9

(* A kill: the entry becomes "failed" unless it is done, and whoever is     *)
(* listed is the only one at work on it.                                    *)
LEMMA KillQuiet ==
  ASSUME SoleDeveloper, IInv, QuietInv, NEW a \in Agents, KillAgent(a)
  PROVE  QuietInv'
<1> DEFINE r == agent[a]
           s == agent[a].skill
           q == [agent[a] EXCEPT !.status = "stopped", !.exit = TRUE, !.listed = FALSE,
                                 !.client = Closed(agent[a].client),
                                 !.pc = IF HasTask(agent[a]) THEN "gone" ELSE agent[a].pc]
<1>1. /\ r.listed /\ TaskCancelled(a) /\ agent' = AgentsAfterCancel(a, q)
      /\ entry' = [entry EXCEPT ![s] = StatusAfterKill(entry[s])]
      /\ \A l \in Loops : loop'[l] = NoLoop \/ loop'[l] = loop[l]
  BY DEF KillAgent, Killed
<1>2. /\ q.skill = s /\ q.target = r.target /\ ~q.listed
      /\ q.pc = IF HasTask(r) THEN "gone" ELSE r.pc
      /\ r.client = "none" => q.client = "none"
  BY AgentType DEF AgentRecord, Closed
<1> HIDE DEF q
<1>3. Ages(r, q)
  BY <1>2 DEF Ages, HasTask, Occupied
<1>4. r.pc = "spawned" \/ q.pc # "spawned"
  BY <1>2 DEF HasTask
<1>5. \A l \in Loops : loop'[l].pc = "free"
  BY <1>1, NoLoopOK DEF QuietInv, NoLoops
<1>6. \A x \in Agents : x # a => agent'[x] = agent[x] \/ ~Occupied(agent'[x])
  <2> SUFFICES ASSUME NEW x \in Agents, x # a PROVE agent'[x] = agent[x] \/ ~Occupied(agent'[x])
    OBVIOUS
  <2> DEFINE p == [agent[x] EXCEPT !.pc = "taskless"]
  <2>1. p.pc = "taskless"
    BY AgentType DEF AgentRecord
  <2>2. agent'[x] = agent[x] \/ agent'[x] = Settled(p)
    BY <1>1 DEF AgentsAfterCancel
  <2> HIDE DEF p
  <2> QED
    BY <2>1, <2>2 DEF Settled, NoAgent, Occupied
<1>7. agent'[a] = Settled(q)
  BY <1>1 DEF AgentsAfterCancel
<1>8. ~Occupied(agent'[a]) \/ agent'[a].pc = "spawned"
  BY <1>2, <1>7 DEF Settled, NoAgent, HasTask, Occupied
<1>9. \A x \in Agents : x # a /\ agent[x].skill = s => ~Occupied(agent[x])
  BY <1>1 DEF QuietInv, QuietState, Alone
<1>10. Untaken(agent', s)
  BY <1>6, <1>8, <1>9 DEF Untaken
<1>11. s \in Skills \/ entry' = entry
  BY <1>1, WorkTypes
<1>12. EntriesAllow(agent', entry, entry')
  <2>1. entry \in [Skills -> EntryStatus]
    BY WorkTypes
  <2>2. StatusAfterKill(entry[s]) \in {"failed", entry[s]}
        /\ (StatusAfterKill(entry[s]) = "done" => entry[s] = "done")
        /\ (StatusAfterKill(entry[s]) # "done" => StatusAfterKill(entry[s]) = "failed")
    BY DEF StatusAfterKill
  <2>3. CASE entry' = entry
    BY <2>3, EntriesStay
  <2> QED
    BY <1>1, <1>10, <1>11, <2>1, <2>2, <2>3, OneEntryAllows
<1> HIDE DEF r, s
<1> QED
  BY <1>1, <1>3, <1>4, <1>5, <1>12, CancelQuiet DEF r

(* The timeout: only a subprocess runner writes the entry, and it was at    *)
(* work.                                                                    *)
LEMMA TimeoutQuiet ==
  ASSUME SoleDeveloper, IInv, QuietInv, NEW a \in Agents, AgentTimesOut(a)
  PROVE  QuietInv'
<1> DEFINE r == agent[a]
           s == agent[a].skill
           q == [agent[a] EXCEPT !.pc = "gone", !.client = Closed(agent[a].client),
                     !.status = IF Harness = "openclaw" THEN "failed" ELSE "stopped"]
<1>1. /\ HasTask(r) /\ TaskCancelled(a) /\ agent' = AgentsAfterCancel(a, q)
      /\ entry' = IF Harness = "openclaw" THEN [entry EXCEPT ![s] = "failed"] ELSE entry
      /\ \A l \in Loops : loop'[l].pc = "free"
  BY DEF AgentTimesOut, QuietInv, NoLoops
<1>2. /\ q.skill = s /\ q.target = r.target /\ q.listed = r.listed /\ q.pc = "gone"
      /\ r.client = "none" => q.client = "none"
  BY AgentType DEF AgentRecord, Closed
<1> HIDE DEF q
<1>3. Ages(r, q)
  BY <1>1, <1>2 DEF Ages, HasTask, Occupied
<1>4. \A x \in Agents : x # a => agent'[x] = agent[x] \/ ~Occupied(agent'[x])
  <2> SUFFICES ASSUME NEW x \in Agents, x # a PROVE agent'[x] = agent[x] \/ ~Occupied(agent'[x])
    OBVIOUS
  <2> DEFINE p == [agent[x] EXCEPT !.pc = "taskless"]
  <2>1. p.pc = "taskless"
    BY AgentType DEF AgentRecord
  <2>2. agent'[x] = agent[x] \/ agent'[x] = Settled(p)
    BY <1>1 DEF AgentsAfterCancel
  <2> HIDE DEF p
  <2> QED
    BY <2>1, <2>2 DEF Settled, NoAgent, Occupied
<1>5. ~Occupied(agent'[a])
  BY <1>1, <1>2 DEF AgentsAfterCancel, Settled, NoAgent, Occupied
<1>6. Harness = "openclaw" => Untaken(agent', s)
  <2> SUFFICES ASSUME Harness = "openclaw" PROVE Untaken(agent', s)
    OBVIOUS
  <2>1. Occupied(r)
    BY <1>1 DEF QuietInv, QuietState, NoRest, HasTask, Occupied
  <2>2. \A x \in Agents : x # a /\ agent[x].skill = s => ~Occupied(agent[x])
    BY <2>1 DEF QuietInv, QuietState, Alone
  <2> QED
    BY <1>4, <1>5, <2>2 DEF Untaken
<1>7. EntriesAllow(agent', entry, entry')
  <2>1. CASE entry' = entry
    BY <2>1, EntriesStay
  <2>2. CASE Harness = "openclaw" /\ s \in Skills
    BY <1>1, <1>6, <2>2, OneEntryAllows
  <2>3. s \in Skills \/ [entry EXCEPT ![s] = "failed"] = entry
    BY WorkTypes
  <2> QED
    BY <1>1, <2>1, <2>2, <2>3
<1> HIDE DEF r, s
<1> QED
  BY <1>1, <1>2, <1>3, <1>7, CancelQuiet DEF r

(* A restart leaves nobody.                                                 *)
LEMMA RestartQuiet ==
  ASSUME IInv, QuietInv, Restart
  PROVE  QuietInv'
<1>1. \A a \in Agents : agent'[a] = NoAgent
  BY DEF Restart
<1>2. \A l \in Loops : loop'[l] = NoLoop
  BY DEF Restart
<1>3. spawner'.owner = "none"
  BY NoPassOK DEF Restart
<1>4. \A a \in Agents : agent'[a].pc = "free" /\ ~agent'[a].listed /\ agent'[a].client = "none"
  BY <1>1 DEF NoAgent
<1> QED
  BY <1>2, <1>3, <1>4, NoLoopOK
  DEF QuietInv, NoLoops, SpawnOfPass, LastTarget, QuietState, OnTarget, NoRest, Alone, Untaken,
      Quiet, Occupied

(* A spawn for an entry that is ready: nobody is at work on the skill.      *)
LEMMA SpawnQuietState ==
  ASSUME NEW ag \in [Agents -> AgentRecord], NEW ent, QuietState(ag, ent),
         \A b \in Agents : ag[b].pc # "spawned",
         NEW s \in Skills, ent[s] \in {"planned", "failed"},
         NEW x \in Agents, ~Occupied(ag[x])
  PROVE  QuietState(WithSpawn(ag, x, s, 1), ent)
<1> DEFINE new == WithSpawn(ag, x, s, 1)
<1>1. /\ new[x].pc = "spawned" /\ new[x].skill = s /\ new[x].target = 1
      /\ new[x].listed /\ new[x].client = "none"
      /\ \A b \in Agents \ {x} :
           \/ new[b] = ag[b] /\ ~(ag[b].listed /\ ag[b].skill = s /\ ag[b].target = 1)
           \/ Replaced(ag[b], new[b])
  BY SpawnEffect
<1> HIDE DEF new
<1>2. \A b \in Agents : ag[b].skill = s => ~Occupied(ag[b])
  BY DEF QuietState, Untaken
<1>3. \A b \in Agents \ {x} : Ages(ag[b], new[b])
  BY <1>1, SameAges DEF Replaced, Ages, Occupied
<1>4. \A b \in Agents \ {x} :
        /\ Occupied(new[b]) => Occupied(ag[b]) /\ new[b].skill = ag[b].skill /\ new[b].pc = ag[b].pc
        /\ new[b].listed => ag[b].listed /\ new[b].skill = ag[b].skill /\ new[b].target = ag[b].target
        /\ new[b].listed => ~(new[b].skill = s /\ new[b].target = 1)
        /\ new[b].pc # "free" => ag[b].pc # "free" /\ new[b].target = ag[b].target
        /\ new[b].skill = ag[b].skill \/ (~Occupied(new[b]) /\ ~new[b].listed)
  <2> SUFFICES ASSUME NEW b \in Agents \ {x}
               PROVE  /\ Occupied(new[b]) => Occupied(ag[b]) /\ new[b].skill = ag[b].skill
                                               /\ new[b].pc = ag[b].pc
                      /\ new[b].listed => ag[b].listed /\ new[b].skill = ag[b].skill
                                           /\ new[b].target = ag[b].target
                      /\ new[b].listed => ~(new[b].skill = s /\ new[b].target = 1)
                      /\ new[b].pc # "free" => ag[b].pc # "free" /\ new[b].target = ag[b].target
                      /\ new[b].skill = ag[b].skill \/ (~Occupied(new[b]) /\ ~new[b].listed)
    OBVIOUS
  <2>1. CASE new[b] = ag[b] /\ ~(ag[b].listed /\ ag[b].skill = s /\ ag[b].target = 1)
    BY <2>1
  <2>2. CASE new[b] = NoAgent
    BY <2>2 DEF NoAgent, Occupied
  <2>3. CASE Replaced(ag[b], new[b]) /\ new[b] # NoAgent
    BY <2>3 DEF Replaced, Occupied
  <2> QED
    BY <1>1, <2>1, <2>2, <2>3
<1>5. OnTarget(new)
  BY <1>1, <1>4 DEF QuietState, OnTarget
<1>6. NoRest(new)
  BY <1>1, <1>3 DEF QuietState, NoRest, Ages, NoAgent
<1>7. \A b \in Agents \ {x} : new[b].skill = s => ~Occupied(new[b]) /\ ~new[b].listed
  BY <1>2, <1>4, <1>5 DEF OnTarget
<1>8. Alone(new)
  <2> SUFFICES ASSUME NEW a \in Agents, NEW b \in Agents, a # b, Occupied(new[b]),
                      new[a].skill = new[b].skill
               PROVE  ~Occupied(new[a]) /\ ~new[a].listed
    BY DEF Alone
  <2>1. CASE b = x
    BY <1>1, <1>7, <2>1
  <2>2. CASE a = x
    BY <1>1, <1>7, <2>2
  <2>3. CASE a # x /\ b # x
    BY <1>4, <2>3 DEF QuietState, Alone
  <2> QED
    BY <2>1, <2>2, <2>3
<1>9. \A k \in Skills : ent[k] \in {"planned", "failed"} => Untaken(new, k)
  BY <1>1, <1>4 DEF QuietState, Untaken
<1>10. \A k \in Skills : ent[k] = "done" => Quiet(new, k)
  BY <1>1, <1>4 DEF QuietState, Quiet
<1> QED
  BY <1>5, <1>6, <1>8, <1>9, <1>10 DEF QuietState, new

(* What a pass goes on with: nobody's spawn is awaited any more.            *)
PassQuiet(ag, ent) ==
  /\ ag \in [Agents -> AgentRecord]
  /\ QuietState(ag, ent)
  /\ \A x \in Agents : /\ ag[x].pc # "spawned"
                       /\ agent[x].pc \in {"free", "gone", "taskless"} => ~Occupied(ag[x])

(* The owner of a pass that is over goes on.                                *)
LEMMA PassEndAges ==
  ASSUME NEW ag \in [Agents -> AgentRecord], NEW o, o \in Agents => ag[o].pc = "confirming",
         NEW x \in Agents
  PROVE  /\ Ages(ag[x], AgentsAfterPass(ag, o)[x])
         /\ AgentsAfterPass(ag, o)[x].pc = "spawned" => ag[x].pc = "spawned"
<1> DEFINE q == [ag[x] EXCEPT !.pc = AfterWork(ag[x])]
<1>1. CASE x # o
  BY <1>1, SameAges DEF AgentsAfterPass
<1>2. CASE x = o
  <2>1. AgentsAfterPass(ag, o)[x] = Settled(q)
    BY <1>2 DEF AgentsAfterPass
  <2>2. /\ q.skill = ag[x].skill /\ q.target = ag[x].target /\ q.listed = ag[x].listed
        /\ q.client = ag[x].client /\ q.pc = AfterWork(ag[x])
    BY DEF AfterWork, AgentRecord
  <2> HIDE DEF q
  <2>3. q.pc \in {"gone", "resting"} /\ (ag[x].client = "none" => q.pc = "gone")
    BY <2>2 DEF AfterWork
  <2>4. Ages(ag[x], Settled(q))
    BY <1>2, <2>2, <2>3, OverAges
  <2>5. Settled(q).pc # "spawned"
    BY <2>3 DEF Settled, NoAgent
  <2> QED
    BY <2>1, <2>4, <2>5
<1> QED
  BY <1>1, <1>2

(* The pass is over: refused or with nothing left to spawn.                 *)
LEMMA PassEndQuiet ==
  ASSUME QuietInv, NEW ag, NEW ent, PassQuiet(ag, ent), NEW o, o \in Agents => ag[o].pc = "confirming",
         o \notin Loops, agent' = AgentsAfterPass(ag, o), loop' = LoopsAfterPass(o),
         spawner'.owner = "none", EntriesAllow(agent', ent, entry')
  PROVE  QuietInv'
<1>1. \A x \in Agents : Ages(ag[x], agent'[x]) /\ agent'[x].pc # "spawned"
  BY PassEndAges DEF PassQuiet
<1>2. \A nw, en : (\A x \in Agents : Ages(ag[x], nw[x])) /\ EntriesAllow(nw, ent, en)
                    => QuietState(nw, en)
  BY AgingKeeps DEF PassQuiet
<1>3. QuietState(agent', entry')
  BY <1>1, <1>2
<1>4. \A l \in Loops : loop'[l] = loop[l]
  BY DEF LoopsAfterPass
<1> QED
  BY <1>1, <1>3, <1>4 DEF QuietInv, NoLoops, SpawnOfPass, LastTarget

(* The loop over the entries.                                               *)
LEMMA PassFromQuiet ==
  ASSUME SoleDeveloper, QuietInv, NEW ag, NEW ent, PassQuiet(ag, ent),
         NEW o, o \in Agents => ag[o].pc = "confirming", o \notin Loops,
         o # "none", NEW done, NEW active, NEW from, PassFrom(o, done, active, from, ent, ag)
  PROVE  QuietInv'
<1>1. entry' = ent
  BY DEF PassFrom
<1>2. CASE agent' = AgentsAfterPass(ag, o) /\ loop' = LoopsAfterPass(o) /\ spawner' = NoPass
  BY <1>1, <1>2, NoPassOK, PassEndQuiet, EntriesStay
<1>3. CASE \E s \in Skills : /\ Ready(s, done, ent) /\ loop' = loop
                             /\ PassSpawns(o, done, active, s, Unserved(s, active), ag)
  <2>1. PICK s \in Skills : /\ Ready(s, done, ent) /\ loop' = loop
                            /\ PassSpawns(o, done, active, s, Unserved(s, active), ag)
    BY <1>3
  <2>2. \A t \in Unserved(s, active) : t = 1
    BY DEF Unserved, SoleDeveloper, Targets
  <2>3. /\ Slots(s, 1) # {}
        /\ agent' = WithSpawn(ag, Slot(s, 1), s, 1)
        /\ spawner' = [owner |-> o, done |-> done, active |-> active, skill |-> s,
                       left |-> Unserved(s, active) \ {1}, dev |-> Slot(s, 1)]
    BY <2>1, <2>2 DEF PassSpawns
  <2>4. Slot(s, 1) \in Agents /\ ~Occupied(ag[Slot(s, 1)])
    BY <2>3, SlotOK DEF Slots, PassQuiet
  <2>5. ent[s] \in {"planned", "failed"}
    BY <2>1 DEF Ready
  <2>6. QuietState(agent', entry')
    BY <1>1, <2>3, <2>4, <2>5, SpawnQuietState DEF PassQuiet
  <2>7. /\ agent'[Slot(s, 1)].skill = s
        /\ \A b \in Agents \ {Slot(s, 1)} : agent'[b] = ag[b] \/ Replaced(ag[b], agent'[b])
    BY <2>3, <2>4, SpawnEffect DEF PassQuiet
  <2>8. \A b \in Agents : agent'[b].pc = "spawned" => b = Slot(s, 1)
    BY <2>7 DEF PassQuiet, Replaced, NoAgent
  <2>9. /\ spawner'.owner # "none" /\ spawner'.dev = Slot(s, 1) /\ spawner'.skill = s
        /\ spawner'.left = {}
    BY <2>2, <2>3
  <2>10. SpawnOfPass' /\ LastTarget'
    BY <2>7, <2>8, <2>9 DEF SpawnOfPass, LastTarget
  <2> QED
    BY <2>1, <2>6, <2>10 DEF QuietInv, NoLoops
<1> QED
  BY <1>2, <1>3 DEF PassFrom

(* A step of a pass.                                                        *)
LEMMA PassKeepsQuiet ==
  ASSUME SoleDeveloper, IInv, QuietInv, (\E o \in Callers : PassBegins(o)) \/ PassContinues
  PROVE  QuietInv'
<1>1. CASE \E o \in Callers : PassBegins(o)
  <2>1. PICK o \in Callers : PassBegins(o)
    BY <1>1
  <2>2. PassQuiet(agent, entry)
    BY <2>1, AgentType DEF PassBegins, PassQuiet, QuietInv, SpawnOfPass, Occupied
  <2>3. (o \in Agents => agent[o].pc = "confirming") /\ o \notin Loops /\ o # "none"
    BY <2>1, ConfigAssumption DEF PassBegins, Waiting, Callers, QuietInv, NoLoops
  <2>4. CASE devMode
    <3>1. PassFrom(o, DoneSkills, ActivePairs, 1, entry, agent)
      BY <2>1, <2>4 DEF PassBegins
    <3> QED
      BY <2>2, <2>3, <3>1, PassFromQuiet
  <2>5. CASE ~devMode
    <3>1. /\ agent' = AgentsAfterPass(agent, o) /\ loop' = LoopsAfterPass(o)
          /\ spawner'.owner = "none"
      BY <2>1, <2>5 DEF PassBegins, PassRefused
    <3>2. entry' = [s \in Skills |-> IF Ready(s, DoneSkills, entry) /\ Unserved(s, ActivePairs) # {}
                                     THEN "writing" ELSE entry[s]]
      BY <2>1, <2>5 DEF PassBegins, PassRefused
    <3>3. EntriesAllow(agent', entry, entry')
      BY <3>2 DEF EntriesAllow
    <3> QED
      BY <2>2, <2>3, <3>1, <3>3, PassEndQuiet
  <2> QED
    BY <2>4, <2>5
<1>2. CASE PassContinues
  <2> DEFINE d   == spawner.dev
             o   == spawner.owner
             ag  == WithTask(agent, d)
             ent == [entry EXCEPT ![spawner.skill] = "writing"]
  <2>1. /\ o # "none" /\ d \in Agents /\ agent[d].pc = "spawned"
        /\ o \in Callers /\ spawner.skill \in Skills /\ spawner.left = {}
    BY <1>2 DEF PassContinues, IInv, CallersOK, SpawnsAwaited, PassOK, PassIsCovered,
                PassRecord, QuietInv, LastTarget
  <2>2. (o \in Agents => agent[o].pc = "confirming") /\ o \notin Loops
    BY <2>1, ConfigAssumption DEF IInv, CallersOK, SpawnLockOwned, Callers, QuietInv, NoLoops
  <2>3. PassFrom(o, spawner.done, spawner.active, spawner.skill + 1, ent, ag)
    BY <1>2, <2>1 DEF PassContinues
  <2>4. /\ ag \in [Agents -> AgentRecord]
        /\ \A x \in Agents :
             /\ ag[x].skill = agent[x].skill /\ ag[x].target = agent[x].target
             /\ ag[x].listed = agent[x].listed /\ ag[x].client = agent[x].client
             /\ ag[x].pc = IF x = d THEN "starting" ELSE agent[x].pc
    BY <2>1, AgentType DEF WithTask, AgentRecord, TaskPc
  <2>5. /\ agent[d].skill = spawner.skill
        /\ \A x \in Agents : agent[x].pc = "spawned" => x = d
    BY <2>1 DEF QuietInv, SpawnOfPass
  <2>6. \A k \in Skills : ent[k] = IF k = spawner.skill THEN "writing" ELSE entry[k]
    BY <2>1, WorkTypes
  <2> HIDE DEF d, ag, ent
  <2>7. \A x \in Agents : /\ Occupied(ag[x]) <=> Occupied(agent[x])
                          /\ ag[x].pc # "spawned"
    BY <2>1, <2>4, <2>5 DEF Occupied
  <2>8. OnTarget(ag) /\ NoRest(ag) /\ Alone(ag)
    BY <2>1, <2>4, <2>7 DEF QuietInv, QuietState, OnTarget, NoRest, Alone
  <2>9. \A k \in Skills : /\ ent[k] \in {"planned", "failed"} => Untaken(ag, k)
                          /\ ent[k] = "done" => Quiet(ag, k)
    <3> SUFFICES ASSUME NEW k \in Skills, ent[k] \in {"planned", "failed", "done"}
                 PROVE  /\ ent[k] \in {"planned", "failed"} => Untaken(ag, k)
                        /\ ent[k] = "done" => Quiet(ag, k)
      BY DEF Untaken
    <3>1. k # spawner.skill /\ ent[k] = entry[k]
      BY <2>6
    <3>2. \A x \in Agents : ag[x].skill = k => ag[x].pc = agent[x].pc /\ agent[x].skill = k
      BY <2>4, <2>5, <3>1
    <3> QED
      BY <2>7, <3>1, <3>2 DEF QuietInv, QuietState, Untaken, Quiet
  <2>10. PassQuiet(ag, ent)
    BY <2>4, <2>7, <2>8, <2>9 DEF PassQuiet, QuietState, Occupied
  <2>11. o \in Agents => ag[o].pc = "confirming"
    BY <2>1, <2>2, <2>4
  <2> HIDE DEF o
  <2> QED
    BY <2>1, <2>2, <2>3, <2>10, <2>11, PassFromQuiet
<1> QED
  BY <1>1, <1>2

(* Every step keeps the invariant.                                          *)
LEMMA QuietStep ==
  ASSUME SoleDeveloper
  PROVE  IInv /\ QuietInv /\ [Next]_vars => QuietInv'
<1> SUFFICES ASSUME IInv, QuietInv, [Next]_vars PROVE QuietInv'
  OBVIOUS
<1>1. CASE agent' = agent /\ spawner' = spawner /\ loop' = loop /\ entry' = entry
  BY <1>1, SameAges, EntriesStay, QuietKeeps
<1>2. CASE \E a \in Agents : RunnerStep(a) \/ RunnerFails(a)
  BY <1>2, NoOwnTask, RunnerQuiet, VerdictQuiet DEF RunnerStep
<1>3. CASE (\E o \in Callers : PassBegins(o)) \/ PassContinues
  BY <1>3, PassKeepsQuiet
<1>4. ~\E l \in Loops : LoopStep(l)
  BY DEF LoopStep, TestReturns, LoopValidates, LoopRetries, LoopPicksDev, LoopResumes,
         QuietInv, NoLoops
<1>5. CASE Command
  <2>1. CASE \E a \in Agents : StopAgent(a)
    <3>1. PICK a \in Agents : StopAgent(a)
      BY <2>1
    <3> DEFINE q == [agent[a] EXCEPT !.status = "paused"]
    <3>2. /\ agent' = [agent EXCEPT ![a] = q] /\ spawner' = spawner /\ loop' = loop
          /\ entry' = entry
      BY <3>1 DEF StopAgent
    <3>3. Ages(agent[a], q)
      BY AgentType DEF AgentRecord, Ages, Occupied
    <3> HIDE DEF q
    <3> QED
      BY <3>2, <3>3, OneAges, EntriesStay
  <2> QED
    BY <1>1, <1>5, <2>1, KillQuiet
    DEF Command, SoleDeveloper, Given, XbotStart, Confirm, PatchDone, Retry
<1>6. CASE Fault
  BY <1>2, <1>6, TimeoutQuiet, RestartQuiet DEF Fault
<1>7. CASE (\E s \in Skills : ZombieEnds(s)) \/ UNCHANGED vars
  BY <1>1, <1>7 DEF ZombieEnds, vars
<1> QED
  BY <1>2, <1>3, <1>4, <1>5, <1>6, <1>7 DEF Next

(* The invariant holds.                                                     *)
LEMMA QuietHolds == ASSUME SoleDeveloper PROVE Spec => []QuietInv
<1>1. Init => QuietInv
  BY NoPassOK, NoLoopOK
  DEF Init, QuietInv, NoLoops, SpawnOfPass, LastTarget, QuietState, OnTarget, NoRest, Alone,
      Untaken, Quiet, Occupied, NoAgent
<1>2. IInv /\ QuietInv /\ [Next]_vars => QuietInv'
  BY QuietStep
<1> QED
  BY <1>1, <1>2, IInvHolds, PTL DEF Spec

(* Nobody works any more on a skill that is done: with one target, no test  *)
(* loop and no human hand in the graph, the verdict that finishes a skill   *)
(* comes from the last agent at work on it, whatever is stopped, killed,    *)
(* timed out, restarted, or replaced while it still runs.                   *)
THEOREM DoneIsQuietHolds ==
  ASSUME SoleDeveloper
  PROVE  Spec => []DoneIsQuiet
<1>1. QuietInv => DoneIsQuiet
  BY QuietEnough
<1> QED
  BY <1>1, QuietHolds, PTL

(* What a step may do to a skill that is done.                              *)
Keeps == \A s \in Skills : entry[s] = "done" => entry'[s] = "done"

(* No step takes a done skill back.                                         *)
LEMMA KeepsStep ==
  ASSUME SoleDeveloper, Harness = "sdk" \/ "timeout" \notin Env
  PROVE  IInv /\ QuietInv /\ [Next]_vars => Keeps
<1> SUFFICES ASSUME IInv, QuietInv, [Next]_vars PROVE Keeps
  OBVIOUS
<1>1. CASE entry' = entry
  BY <1>1 DEF Keeps
<1>2. ASSUME NEW a \in Agents, Occupied(agent[a]), agent[a].pc # "confirming",
             NEW e, entry' = [entry EXCEPT ![agent[a].skill] = e]
      PROVE  Keeps
  <2>1. agent[a].skill \in Skills => entry[agent[a].skill] # "done"
    BY <1>2 DEF QuietInv, QuietState, Quiet
  <2> QED
    BY <1>2, <2>1, WorkTypes DEF Keeps
<1>3. CASE \E a \in Agents : EvaluationQueued(a) \/ RejectionHandled(a) \/ PassHandled(a)
  <2>1. PICK a \in Agents : EvaluationQueued(a) \/ RejectionHandled(a) \/ PassHandled(a)
    BY <1>3
  <2>2. Occupied(agent[a]) /\ agent[a].pc # "confirming"
    BY <2>1 DEF EvaluationQueued, RejectionHandled, PassHandled, Occupied
  <2>3. \E e : entry' = [entry EXCEPT ![agent[a].skill] = e]
    BY <2>1 DEF EvaluationQueued, RejectionHandled, PassHandled, SentToReview
  <2> QED
    BY <1>2, <2>2, <2>3
<1>4. CASE \E o \in Callers : PassBegins(o)
  BY <1>4, WorkTypes DEF PassBegins, PassFrom, PassRefused, Ready, Keeps
<1>5. CASE PassContinues
  <2> DEFINE d == spawner.dev
  <2>1. /\ spawner.owner # "none" /\ d \in Agents /\ agent[d].pc = "spawned" /\ spawner.left = {}
    BY <1>5 DEF PassContinues, IInv, CallersOK, SpawnsAwaited, QuietInv, LastTarget
  <2>2. agent[d].skill = spawner.skill
    BY <2>1 DEF QuietInv, SpawnOfPass
  <2>3. entry' = [entry EXCEPT ![agent[d].skill] = "writing"]
    BY <1>5, <2>1, <2>2 DEF PassContinues, PassFrom
  <2> QED
    BY <1>2, <2>1, <2>3 DEF Occupied
<1>6. CASE Command
  <2>1. CASE \E a \in Agents : KillAgent(a)
    BY <2>1, WorkTypes DEF KillAgent, Killed, StatusAfterKill, Keeps
  <2> QED
    BY <1>1, <1>6, <2>1
    DEF Command, SoleDeveloper, Given, XbotStart, Confirm, PatchDone, Retry, StopAgent
<1>7. CASE Fault
  <2>1. CASE \E a \in Agents : AgentTimesOut(a)
    BY <1>1, <2>1, ConfigAssumption DEF AgentTimesOut
  <2>2. CASE Restart
    BY <2>2 DEF Restart, StatusAfterRestart, Keeps
  <2> QED
    BY <1>1, <1>7, <2>1, <2>2 DEF Fault, RunnerFails
<1>8. CASE \E a \in Agents : RunnerStep(a)
  BY <1>1, <1>3, <1>8
  DEF RunnerStep, TaskCreated, RunnerStarts, WorkEnds, EvaluatorStarts, EvaluatorReturns,
      RunnerLeaves
<1>9. ~\E l \in Loops : LoopStep(l)
  BY DEF LoopStep, TestReturns, LoopValidates, LoopRetries, LoopPicksDev, LoopResumes,
         QuietInv, NoLoops
<1> QED
  BY <1>1, <1>4, <1>5, <1>6, <1>7, <1>8, <1>9 DEF Next, ZombieEnds, vars

(* A skill that is done stays done: no late verdict, failure, kill or       *)
(* restart takes it back, and no pass that read an older status.  Only the  *)
(* timeout of a subprocess agent would, in the pass after its own verdict.  *)
THEOREM DoneStaysHolds ==
  ASSUME SoleDeveloper, Harness = "sdk" \/ "timeout" \notin Env
  PROVE  Spec => DoneStays
<1>1. IInv /\ QuietInv /\ [Next]_vars => [\A s \in Skills : entry[s] = "done" => entry'[s] = "done"]_vars
  BY KeepsStep DEF Keeps
<1> QED
  BY <1>1, IInvHolds, QuietHolds, PTL DEF Spec, DoneStays

-----------------------------------------------------------------------------
(* A mark of the test loop is not left behind, in any setting.  A kill      *)
(* cancels the loop that waits for the agent, and takes back the mark of    *)
(* the agent's skill: these must be the same skill.                         *)
LoopDevs ==
  \A l \in Loops, a \in Agents :
    loop[l].pc = "waiting" /\ loop[l].dev = a =>
      agent[a].pc = "free" \/ agent[a].skill = loop[l].skill
FlagInv == TestLoopFlag /\ LoopDevs

(* An agent keeps its skill until its slot is freed; a new one takes a slot *)
(* that no loop refers to.                                                  *)
Kept(r, q) == q.pc = "free" \/ (r.pc # "free" /\ q.skill = r.skill)
SkillsKept == \A a \in Agents :
  agent'[a] = agent[a] \/ Kept(agent[a], agent'[a]) \/ \A l \in Loops : loop[l].dev # a

(* Then the loops still wait for agents of their skills.                    *)
LEMMA DevsKept ==
  ASSUME LoopDevs, SkillsKept, \A l \in Loops : loop'[l] = loop[l] \/ loop'[l].pc # "waiting"
  PROVE  LoopDevs'
BY DEF LoopDevs, SkillsKept, Kept

(* Freeing a slot keeps what is to be kept.                                 *)
LEMMA SettledKept == ASSUME NEW r, NEW q, Kept(r, q) PROVE Kept(r, Settled(q))
BY DEF Kept, Settled, NoAgent

(* One agent changes.                                                       *)
LEMMA OneKept ==
  ASSUME IInv, NEW a \in Agents, NEW q, agent' = [agent EXCEPT ![a] = q], Kept(agent[a], q)
  PROVE  SkillsKept
BY AgentType DEF SkillsKept

(* A spawn keeps the skills of all agents but the one in its slot.          *)
LEMMA SpawnKept ==
  ASSUME IInv, NEW ag \in [Agents -> AgentRecord],
         \A b \in Agents : ag[b] = agent[b] \/ Kept(agent[b], ag[b]),
         NEW s, NEW t, Slots(s, t) # {}, agent' = WithSpawn(ag, Slot(s, t), s, t)
  PROVE  SkillsKept
<1>1. PICK x : x = Slot(s, t)
  OBVIOUS
<1>2. x \in Agents /\ \A l \in Loops : loop[l].dev # x
  BY <1>1, SlotOK DEF Slots
<1>3. \A b \in Agents \ {x} : agent'[b] = ag[b] \/ Replaced(ag[b], agent'[b])
  BY <1>1, <1>2, SpawnEffect
<1>4. ASSUME NEW b \in Agents, b # x
      PROVE  agent'[b] = agent[b] \/ Kept(agent[b], agent'[b])
  <2>1. CASE agent'[b] = ag[b]
    BY <2>1
  <2>2. CASE Replaced(ag[b], agent'[b]) /\ agent'[b].pc # "free"
    <3>1. ag[b].pc # "free" /\ agent'[b].skill = ag[b].skill
      BY <2>2 DEF Replaced, NoAgent
    <3> QED
      BY <3>1 DEF Kept
  <2> QED
    BY <1>3, <1>4, <2>1, <2>2 DEF Kept
<1> QED
  BY <1>2, <1>4 DEF SkillsKept

(* The runner up to the verdict.                                            *)
LEMMA RunnerKept ==
  ASSUME IInv, NEW a \in Agents,
         \/ TaskCreated(a) \/ RunnerStarts(a) \/ RunnerFails(a) \/ WorkEnds(a)
         \/ EvaluationQueued(a) \/ EvaluatorStarts(a) \/ RunnerLeaves(a) \/ StopAgent(a)
         \/ \E verdict \in {"passed", "rejected"} : EvaluatorReturns(a, verdict)
  PROVE  SkillsKept
<1> DEFINE r == agent[a]
<1>1. r \in AgentRecord
  BY AgentType
<1>2. CASE TaskCreated(a) \/ RunnerStarts(a) \/ EvaluationQueued(a) \/ EvaluatorStarts(a)
           \/ \E verdict \in {"passed", "rejected"} : EvaluatorReturns(a, verdict)
  BY <1>1, <1>2, OneKept, AgentType
  DEF TaskCreated, RunnerStarts, EvaluationQueued, EvaluatorStarts, EvaluatorReturns, WithTask,
      AgentRecord, Kept
<1>3. CASE StopAgent(a)
  <2> DEFINE q == [r EXCEPT !.status = "paused"]
  <2>1. agent' = [agent EXCEPT ![a] = q] /\ q.pc = r.pc /\ q.skill = r.skill
    BY <1>1, <1>3 DEF StopAgent, AgentRecord
  <2> HIDE DEF q
  <2> QED
    BY <2>1, OneKept DEF Kept
<1>4. CASE RunnerFails(a)
  <2>1. PICK status : agent' = [agent EXCEPT ![a] =
                        Settled([agent[a] EXCEPT !.status = status, !.pc = "gone",
                                                 !.client = Closed(agent[a].client)])]
    BY <1>4 DEF RunnerFails
  <2> DEFINE q == [agent[a] EXCEPT !.status = status, !.pc = "gone",
                                   !.client = Closed(agent[a].client)]
  <2>2. Kept(r, q)
    BY <1>1, <1>4 DEF RunnerFails, AgentRecord, Kept
  <2>3. agent' = [agent EXCEPT ![a] = Settled(q)]
    BY <2>1
  <2> HIDE DEF q
  <2> QED
    BY <2>2, <2>3, SettledKept, OneKept
<1>5. CASE WorkEnds(a)
  <2> DEFINE over(status) == [r EXCEPT !.status = status, !.pc = AfterWork(r)]
             next == [r EXCEPT !.status = "done", !.pc = "finishing"]
  <2>1. PICK q : /\ agent' = [agent EXCEPT ![a] = q]
                 /\ q = next \/ \E status : q = Settled(over(status))
    BY <1>5 DEF WorkEnds
  <2>2. \A status : Kept(r, over(status))
    BY <1>1, <1>5 DEF WorkEnds, AfterWork, AgentRecord, Kept
  <2>3. Kept(r, next)
    BY <1>1, <1>5 DEF WorkEnds, AgentRecord, Kept
  <2> HIDE DEF over, next
  <2> QED
    BY <2>1, <2>2, <2>3, SettledKept, OneKept
<1>6. CASE RunnerLeaves(a)
  <2> DEFINE q == [agent[a] EXCEPT !.pc = "gone", !.client = Closed(agent[a].client)]
  <2>1. agent' = [agent EXCEPT ![a] = Settled(q)]
    BY <1>6 DEF RunnerLeaves
  <2>2. Kept(r, q)
    BY <1>1, <1>6 DEF RunnerLeaves, AgentRecord, Kept
  <2> HIDE DEF q
  <2> QED
    BY <2>1, <2>2, SettledKept, OneKept
<1> QED
  BY <1>2, <1>3, <1>4, <1>5, <1>6

(* The verdict.                                                             *)
LEMMA VerdictKept ==
  ASSUME IInv, NEW a \in Agents, RejectionHandled(a) \/ PassHandled(a)
  PROVE  SkillsKept
<1>1. agent[a] \in AgentRecord /\ agent[a].pc # "free"
  BY AgentType DEF RejectionHandled, PassHandled
<1>2. ASSUME NEW r \in AgentRecord, r.pc # "free"
      PROVE  Kept(r, Finished(r)) /\ Kept(r, RetriedInSession(r))
  <2> DEFINE q == [r EXCEPT !.status = IF r.status = "done" THEN RestStatus(r.skill) ELSE r.status,
                            !.pc = AfterWork(r)]
             p == [r EXCEPT !.status = "running", !.pc = "gone"]
  <2>1. Kept(r, q) /\ Finished(r) = Settled(q)
    BY <1>2 DEF Finished, AfterWork, AgentRecord, Kept
  <2>2. Kept(r, p)
    BY <1>2 DEF AgentRecord, Kept
  <2>3. r.client # "open" => RetriedInSession(r) = Settled(p)
    BY DEF RetriedInSession
  <2>4. r.client = "open" => Kept(r, RetriedInSession(r))
    BY <1>2 DEF RetriedInSession, AgentRecord, Kept
  <2> HIDE DEF q, p
  <2> QED
    BY <2>1, <2>2, <2>3, <2>4, SettledKept
<1>3. CASE RejectionHandled(a)
  <2>1. PICK q \in {Finished(agent[a]), RetriedInSession(agent[a])} : agent' = [agent EXCEPT ![a] = q]
    BY <1>3 DEF RejectionHandled, SentToReview
  <2>2. Kept(agent[a], q)
    BY <1>1, <1>2, <2>1
  <2> QED
    BY <2>1, <2>2, OneKept
<1>4. CASE PassHandled(a)
  <2> DEFINE e == [agent[a] EXCEPT !.exit = TRUE]
  <2>1. e \in AgentRecord /\ e.pc = agent[a].pc /\ e.skill = agent[a].skill
    BY <1>1 DEF AgentRecord
  <2> HIDE DEF e
  <2>2. CASE agent' = Released([agent EXCEPT ![a].pc = "confirming"], agent[a].skill)
    BY <1>1, <2>2, AgentType DEF Released, SkillsKept, Kept, AgentRecord
  <2>3. CASE \E q \in {Finished(agent[a]), Finished(e)} : agent' = [agent EXCEPT ![a] = q]
    <3>1. PICK q \in {Finished(agent[a]), Finished(e)} : agent' = [agent EXCEPT ![a] = q]
      BY <2>3
    <3>2. Kept(agent[a], Finished(agent[a])) /\ Kept(e, Finished(e))
      BY <1>1, <1>2, <2>1
    <3>3. Kept(agent[a], q)
      BY <1>1, <2>1, <3>1, <3>2 DEF Kept
    <3> QED
      BY <3>1, <3>3, OneKept
  <2>4. QED
    BY <1>4, <2>2, <2>3 DEF PassHandled, e
<1> QED
  BY <1>3, <1>4

(* A pass: its spawn gets its task, the next one a free slot.               *)
LEMMA PassKept ==
  ASSUME IInv, (\E o \in Callers : PassBegins(o)) \/ PassContinues
  PROVE  SkillsKept
<1>1. PICK ag \in [Agents -> AgentRecord] : PassBase(ag) /\ PassLeaves(ag)
  BY PassEffect
<1>2. \A b \in Agents : ag[b] = agent[b] \/ Kept(agent[b], ag[b])
  BY <1>1, AgentType DEF PassBase, WithTask, AgentRecord, Kept
<1>3. CASE \E p : (p \in Agents => agent[p].pc = "confirming") /\ agent' = AgentsAfterPass(ag, p)
  <2>1. PICK p : (p \in Agents => agent[p].pc = "confirming") /\ agent' = AgentsAfterPass(ag, p)
    BY <1>3
  <2> DEFINE q == [ag[p] EXCEPT !.pc = AfterWork(ag[p])]
  <2>2. p \in Agents => agent'[p] = Settled(q)
    BY <2>1 DEF AgentsAfterPass
  <2>3. ASSUME p \in Agents
        PROVE  Kept(agent[p], q)
    <3>1. q.skill = ag[p].skill /\ q.pc # "free"
      BY <2>3 DEF AgentRecord, AfterWork
    <3>2. agent[p].pc = "confirming"
      BY <2>1, <2>3
    <3>3. ag[p] = agent[p] \/ Kept(agent[p], ag[p])
      BY <1>2, <2>3
    <3>4. ag[p].pc # "free"
      BY <1>1, <2>3, <3>2, AgentType DEF PassBase, WithTask, AgentRecord
    <3> HIDE DEF q
    <3> QED
      BY <3>1, <3>2, <3>3, <3>4 DEF Kept
  <2>4. \A b \in Agents : b # p => agent'[b] = ag[b]
    BY <2>1 DEF AgentsAfterPass
  <2> HIDE DEF q
  <2> QED
    BY <1>2, <2>2, <2>3, <2>4, SettledKept DEF SkillsKept
<1>4. CASE \E s \in Skills, t \in Targets :
             Slots(s, t) # {} /\ agent' = WithSpawn(ag, Slot(s, t), s, t)
  BY <1>2, <1>4, SpawnKept
<1> QED
  BY <1>1, <1>3, <1>4 DEF PassLeaves

(* A cancelled task, and the spawn its pass awaited.                        *)
LEMMA CancelKept ==
  ASSUME IInv, NEW a \in Agents, NEW q, Kept(agent[a], q), agent' = AgentsAfterCancel(a, q)
  PROVE  SkillsKept
<1>1. agent'[a] = Settled(q)
  BY DEF AgentsAfterCancel
<1>2. ASSUME NEW b \in Agents, b # a
      PROVE  agent'[b] = agent[b] \/ Kept(agent[b], agent'[b])
  <2>1. CASE spawner.owner = a /\ b = spawner.dev
    <3> DEFINE p == [agent[b] EXCEPT !.pc = "taskless"]
    <3>1. Kept(agent[b], p)
      BY <2>1, ConfigAssumption, AgentType
      DEF IInv, CallersOK, SpawnsAwaited, AgentRecord, Kept
    <3>2. agent'[b] = Settled(p)
      BY <1>2, <2>1 DEF AgentsAfterCancel
    <3> HIDE DEF p
    <3> QED
      BY <3>1, <3>2, SettledKept
  <2>2. CASE ~(spawner.owner = a /\ b = spawner.dev)
    BY <1>2, <2>2 DEF AgentsAfterCancel
  <2> QED
    BY <2>1, <2>2
<1> QED
  BY <1>1, <1>2, SettledKept DEF SkillsKept

(* A step that keeps the skills, the loops of other skills and the marks.   *)
LEMMA FlagKeeps ==
  ASSUME IInv, FlagInv, SkillsKept, inTestLoop' \subseteq inTestLoop,
         \A l \in Loops : loop'[l] = loop[l] \/ (loop[l].pc = "promoting" /\ loop'[l].pc # "free"
                                                 /\ loop'[l].pc # "waiting" /\ loop'[l].skill = loop[l].skill)
  PROVE  FlagInv'
<1>1. LoopDevs'
  BY DevsKept DEF FlagInv
<1>2. TestLoopFlag'
  BY DEF FlagInv, TestLoopFlag
<1> QED
  BY <1>1, <1>2 DEF FlagInv

(* A kill cancels no loop but those of the skill whose mark it takes back.  *)
LEMMA KillFlag ==
  ASSUME IInv, FlagInv, NEW a \in Agents, Killed(a)
  PROVE  FlagInv'
<1> DEFINE q == [agent[a] EXCEPT !.status = "stopped", !.exit = TRUE, !.listed = FALSE,
                                 !.client = Closed(agent[a].client),
                                 !.pc = IF HasTask(agent[a]) THEN "gone" ELSE agent[a].pc]
<1>0. PICK s : s = agent[a].skill
  OBVIOUS
<1>1. /\ agent' = AgentsAfterCancel(a, q) /\ inTestLoop' = inTestLoop \ {s}
      /\ loop' = [l \in Loops |->
                    IF Harness = "openclaw" /\ loop[l].pc = "waiting" /\ loop[l].dev = a
                       /\ HasTask(agent[a])
                    THEN NoLoop ELSE loop[l]]
  BY <1>0 DEF Killed
<1>2. Kept(agent[a], q)
  BY AgentType DEF Kept, HasTask, AgentRecord
<1> HIDE DEF q
<1>3. LoopDevs'
  BY <1>1, <1>2, CancelKept, DevsKept, NoLoopOK DEF FlagInv
<1>4. ASSUME NEW k \in inTestLoop'
      PROVE  \E l \in Loops : loop'[l].pc # "free" /\ loop'[l].skill = k
  <2>1. PICK l \in Loops : loop[l].pc # "free" /\ loop[l].skill = k
    BY <1>1 DEF FlagInv, TestLoopFlag
  <2>2. ~(loop[l].pc = "waiting" /\ loop[l].dev = a /\ HasTask(agent[a]))
    BY <1>0, <1>1, <2>1 DEF FlagInv, LoopDevs, HasTask
  <2>3. loop'[l] = loop[l]
    BY <1>1, <2>2
  <2> QED
    BY <2>1, <2>3
<1> QED
  BY <1>3, <1>4 DEF FlagInv, TestLoopFlag

(* A test loop that goes on to another attempt, or is over: its mark stays  *)
(* while it does.                                                           *)
LEMMA GoesOnFlag ==
  ASSUME IInv, FlagInv, NEW l \in Loops, loop[l].pc # "free", NEW m,
         LoopGoesOn(l, NextAttempt(loop[l].skill, m)) \/ LoopGoesOn(l, NoLoop), SkillsKept
  PROVE  FlagInv'
<1>1. PICK s, n : /\ s = loop[l].skill /\ LoopGoesOn(l, n)
                  /\ n = NoLoop \/ (n.pc = "testing" /\ n.skill = s)
  BY DEF NextAttempt
<1>2. loop'[l] = n /\ \A k \in Loops : k # l => loop'[k] = loop[k]
  BY <1>1 DEF LoopGoesOn, IInv, LoopsOK, LoopsFit
<1>3. inTestLoop' = IF n = NoLoop THEN inTestLoop \ {s} ELSE inTestLoop
  BY <1>1 DEF LoopGoesOn
<1>4. LoopDevs'
  BY <1>1, <1>2, DevsKept, NoLoopOK DEF FlagInv
<1>5. ASSUME NEW k \in inTestLoop'
      PROVE  \E j \in Loops : loop'[j].pc # "free" /\ loop'[j].skill = k
  <2>1. PICK j \in Loops : loop[j].pc # "free" /\ loop[j].skill = k
    BY <1>3 DEF FlagInv, TestLoopFlag
  <2>2. j = l => n # NoLoop
    BY <1>1, <1>3, <2>1
  <2> QED
    BY <1>1, <1>2, <2>1, <2>2
<1> QED
  BY <1>4, <1>5 DEF FlagInv, TestLoopFlag

(* Every step of a test loop.                                               *)
LEMMA LoopFlag ==
  ASSUME IInv, FlagInv, NEW l \in Loops, LoopStep(l)
  PROVE  FlagInv'
<1>1. loop[l].pc # "free" /\ loop[l] \in LoopRecord
  BY DEF LoopStep, TestReturns, LoopValidates, LoopRetries, LoopPicksDev, LoopResumes,
         IInv, LoopsOK, LoopsFit
<1>2. ASSUME agent' = agent
      PROVE  SkillsKept
  BY <1>2 DEF SkillsKept
<1>3. ASSUME NEW q, loop' = [loop EXCEPT ![l] = q], q.pc # "free", q.skill = loop[l].skill,
             q.pc = "waiting" => \A a \in Agents :
               q.dev = a => agent'[a].pc = "free" \/ agent'[a].skill = q.skill,
             inTestLoop' = inTestLoop, SkillsKept
      PROVE  FlagInv'
  <2>1. loop'[l] = q /\ \A k \in Loops : k # l => loop'[k] = loop[k]
    BY <1>3 DEF IInv, LoopsOK, LoopsFit
  <2>2. TestLoopFlag'
    BY <1>3, <2>1 DEF FlagInv, TestLoopFlag
  <2>3. LoopDevs'
    BY <1>3, <2>1 DEF FlagInv, LoopDevs, SkillsKept, Kept
  <2> QED
    BY <2>2, <2>3 DEF FlagInv
<1>4. ASSUME NEW pc \in {"failing", "promoting", "validating", "respawned"}, NEW dev,
             \/ loop' = [loop EXCEPT ![l].pc = pc]
             \/ loop' = [loop EXCEPT ![l].pc = pc, ![l].dev = dev],
             inTestLoop' = inTestLoop, SkillsKept
      PROVE  FlagInv'
  <2> DEFINE q == [loop[l] EXCEPT !.pc = pc]
             p == [loop[l] EXCEPT !.pc = pc, !.dev = dev]
  <2>1. /\ q.pc \notin {"free", "waiting"} /\ q.skill = loop[l].skill
        /\ p.pc \notin {"free", "waiting"} /\ p.skill = loop[l].skill
    BY <1>1 DEF LoopRecord
  <2>2. loop' = [loop EXCEPT ![l] = q] \/ loop' = [loop EXCEPT ![l] = p]
    <3>1. CASE loop' = [loop EXCEPT ![l].pc = pc]
      BY <3>1
    <3>2. CASE loop' = [loop EXCEPT ![l].pc = pc, ![l].dev = dev]
      BY <3>2 DEF IInv, LoopsOK, LoopsFit
    <3> QED
      BY <1>4, <3>1, <3>2
  <2> HIDE DEF q, p
  <2> QED
    BY <1>3, <1>4, <2>1, <2>2
<1>5. CASE \E passed \in BOOLEAN : TestReturns(l, passed) \/ LoopValidates(l, passed)
  <2>1. PICK passed \in BOOLEAN : TestReturns(l, passed) \/ LoopValidates(l, passed)
    BY <1>5
  <2>2. agent' = agent
    BY <2>1 DEF TestReturns, LoopValidates
  <2>3. CASE TestReturns(l, passed)
    <3>1. \E pc \in {"failing", "promoting", "validating"} : loop' = [loop EXCEPT ![l].pc = pc]
      BY <2>3 DEF TestReturns
    <3> QED
      BY <1>2, <1>4, <2>2, <2>3, <3>1 DEF TestReturns
  <2>4. CASE LoopValidates(l, passed)
    BY <1>1, <1>2, <1>4, <2>2, <2>4, GoesOnFlag DEF LoopValidates
  <2> QED
    BY <2>1, <2>3, <2>4
<1>6. CASE LoopRetries(l)
  <2>1. loop[l].skill \in Skills
    BY <1>1, LoopSkill
  <2>2. SkillsKept
    BY <1>2, <1>6, AgentType, SpawnKept DEF LoopRetries
  <2> QED
    BY <1>1, <1>4, <1>6, <2>2, GoesOnFlag DEF LoopRetries
<1>7. CASE LoopPicksDev(l)
  <2>0. PICK s, d : s = loop[l].skill /\ d = loop[l].dev
    OBVIOUS
  <2>1. /\ loop[l].pc = "respawned" /\ s \in Skills
        /\ agent' = IF d \in Agents THEN WithTask(agent, d) ELSE agent
    BY <1>1, <1>7, <2>0, LoopSkill DEF LoopPicksDev
  <2>2. SkillsKept
    <3>1. CASE d \notin Agents
      BY <1>2, <2>1, <3>1
    <3>2. CASE d \in Agents
      <4> DEFINE q == [agent[d] EXCEPT !.pc = "starting"]
      <4>1. agent[d].pc = "spawned" /\ agent[d] \in AgentRecord
        BY <2>0, <2>1, <3>2, ConfigAssumption, AgentType DEF IInv, CallersOK, SpawnsAwaited, Awaits
      <4>2. agent' = [agent EXCEPT ![d] = q] /\ Kept(agent[d], q)
        BY <2>1, <3>2, <4>1 DEF WithTask, Kept, AgentRecord
      <4> HIDE DEF q
      <4> QED
        BY <3>2, <4>2, OneKept
    <3> QED
      BY <3>1, <3>2
  <2>3. \/ \E a \in Agents : /\ loop' = [loop EXCEPT ![l].pc = "waiting", ![l].dev = a]
                             /\ agent'[a].skill = s /\ inTestLoop' = inTestLoop
        \/ LoopGoesOn(l, NextAttempt(loop[l].skill, loop[l].attempt))
    BY <1>7, <2>0, <2>1 DEF LoopPicksDev
  <2>4. CASE LoopGoesOn(l, NextAttempt(loop[l].skill, loop[l].attempt))
    BY <1>1, <2>2, <2>4, GoesOnFlag
  <2>5. CASE \E a \in Agents : /\ loop' = [loop EXCEPT ![l].pc = "waiting", ![l].dev = a]
                               /\ agent'[a].skill = s /\ inTestLoop' = inTestLoop
    <3>1. PICK a \in Agents : /\ loop' = [loop EXCEPT ![l].pc = "waiting", ![l].dev = a]
                              /\ agent'[a].skill = s /\ inTestLoop' = inTestLoop
      BY <2>5
    <3> DEFINE q == [loop[l] EXCEPT !.pc = "waiting", !.dev = a]
    <3>2. q.pc = "waiting" /\ q.skill = s /\ q.dev = a
      BY <1>1, <2>0 DEF LoopRecord
    <3>3. loop' = [loop EXCEPT ![l] = q]
      BY <3>1 DEF IInv, LoopsOK, LoopsFit
    <3> HIDE DEF q
    <3> QED
      BY <1>3, <2>0, <2>2, <3>1, <3>2, <3>3
  <2> QED
    BY <2>3, <2>4, <2>5
<1>8. CASE LoopResumes(l)
  BY <1>1, <1>2, <1>8, GoesOnFlag DEF LoopResumes
<1> QED
  BY <1>5, <1>6, <1>7, <1>8 DEF LoopStep

(* The verdict on a task root that passed starts a loop beside the others.  *)
LEMMA PassedFlag ==
  ASSUME IInv, FlagInv, NEW a \in Agents, PassHandled(a)
  PROVE  FlagInv'
<1>0. PICK s : s = agent[a].skill
  OBVIOUS
<1>1. SkillsKept
  BY VerdictKept
<1>2. CASE IsTaskRoot(s)
  <2> DEFINE n == NextAttempt(s, testAttempts[s])
  <2>1. /\ \E l \in FreeLoops : loop' = [loop EXCEPT ![l] = n]
        /\ inTestLoop' = IF n = NoLoop THEN inTestLoop \ {s} ELSE inTestLoop \cup {s}
    BY <1>0, <1>2 DEF PassHandled
  <2>2. n = NoLoop \/ (n.pc = "testing" /\ n.skill = s)
    BY DEF NextAttempt
  <2> HIDE DEF n
  <2>3. PICK l \in FreeLoops : loop' = [loop EXCEPT ![l] = n]
    BY <2>1
  <2>4. loop'[l] = n /\ loop[l].pc = "free" /\ l \in Loops
        /\ \A k \in Loops : k # l => loop'[k] = loop[k]
    BY <2>3 DEF FreeLoops, NoLoop, IInv, LoopsOK, LoopsFit
  <2>5. LoopDevs'
    BY <1>1, <2>2, <2>4, DevsKept, NoLoopOK DEF FlagInv
  <2>6. TestLoopFlag'
    BY <2>1, <2>2, <2>4, NoLoopOK DEF FlagInv, TestLoopFlag
  <2> QED
    BY <2>5, <2>6 DEF FlagInv
<1>3. CASE ~IsTaskRoot(s)
  <2>1. loop' = loop /\ inTestLoop' = inTestLoop
    BY <1>0, <1>3 DEF PassHandled
  <2> QED
    BY <1>1, <2>1, FlagKeeps
<1> QED
  BY <1>2, <1>3

(* Every step leaves no mark behind.                                        *)
LEMMA FlagStep == IInv /\ FlagInv /\ [Next]_vars => FlagInv'
<1> SUFFICES ASSUME IInv, FlagInv, [Next]_vars PROVE FlagInv'
  OBVIOUS
<1>1. ASSUME agent' = agent
      PROVE  SkillsKept
  BY <1>1 DEF SkillsKept
<1>2. CASE \E a \in Agents : RunnerStep(a) \/ RunnerFails(a) \/ StopAgent(a)
  <2>1. PICK a \in Agents : RunnerStep(a) \/ RunnerFails(a) \/ StopAgent(a)
    BY <1>2
  <2>2. CASE PassHandled(a)
    BY <2>2, PassedFlag
  <2>3. CASE RejectionHandled(a)
    BY <2>3, VerdictKept, FlagKeeps DEF RejectionHandled
  <2>4. CASE \/ TaskCreated(a) \/ RunnerStarts(a) \/ RunnerFails(a) \/ WorkEnds(a)
             \/ EvaluationQueued(a) \/ EvaluatorStarts(a) \/ RunnerLeaves(a) \/ StopAgent(a)
             \/ \E verdict \in {"passed", "rejected"} : EvaluatorReturns(a, verdict)
    <3>1. SkillsKept
      BY <2>4, RunnerKept
    <3>2. inTestLoop' = inTestLoop /\ loop' = loop
      BY <2>4 DEF TaskCreated, RunnerStarts, RunnerFails, WorkEnds, EvaluationQueued,
                  EvaluatorStarts, RunnerLeaves, StopAgent, EvaluatorReturns
    <3> QED
      BY <3>1, <3>2, FlagKeeps
  <2> QED
    BY <2>1, <2>2, <2>3, <2>4 DEF RunnerStep
<1>3. CASE (\E o \in Callers : PassBegins(o)) \/ PassContinues
  <2>1. SkillsKept
    BY <1>3, PassKept
  <2>2. /\ inTestLoop' = inTestLoop
        /\ \/ loop' = loop
           \/ \E o : (o \in Loops => loop[o].pc = "promoting") /\ loop' = LoopsAfterPass(o)
    <3>1. CASE \E o \in Callers : PassBegins(o)
      BY <3>1, ConfigAssumption DEF PassBegins, PassFrom, PassRefused, Waiting
    <3>2. CASE PassContinues
      BY <3>2, ConfigAssumption DEF PassContinues, PassFrom, IInv, CallersOK, SpawnLockOwned
    <3> QED
      BY <1>3, <3>1, <3>2
  <2>3. \A l \in Loops : loop'[l] = loop[l] \/ (loop[l].pc = "promoting" /\ loop'[l].pc # "free"
                                                 /\ loop'[l].pc # "waiting" /\ loop'[l].skill = loop[l].skill)
    BY <2>2 DEF LoopsAfterPass, IInv, LoopsOK, LoopsFit, LoopRecord
  <2> QED
    BY <2>1, <2>2, <2>3, FlagKeeps
<1>4. CASE \E l \in Loops : LoopStep(l)
  BY <1>4, LoopFlag
<1>5. CASE \E s \in Skills : Confirm(s) \/ PatchDone(s) \/ Retry(s)
  <2>1. PICK s \in Skills : Confirm(s) \/ PatchDone(s) \/ Retry(s)
    BY <1>5
  <2>2. SkillsKept
    <3>1. CASE Confirm(s)
      <4>1. PICK named \in {"none"} \cup {a \in Agents : agent[a].listed /\ agent[a].skill = s} :
              agent' = Released([a \in Agents |->
                         IF a = named THEN [agent[a] EXCEPT !.status = "confirmed_done"]
                                      ELSE agent[a]], s)
        BY <3>1 DEF Confirm
      <4>2. \A b \in Agents : agent'[b].pc = agent[b].pc /\ agent'[b].skill = agent[b].skill
        BY <4>1, AgentType DEF Released, AgentRecord
      <4> QED
        BY <4>2 DEF SkillsKept, Kept
    <3>2. CASE PatchDone(s)
      BY <1>1, <3>2 DEF PatchDone
    <3>3. CASE Retry(s)
      BY <3>3, AgentType, SpawnKept DEF Retry
    <3> QED
      BY <2>1, <3>1, <3>2, <3>3
  <2> QED
    BY <2>1, <2>2, FlagKeeps DEF Confirm, PatchDone, Retry
<1>6. CASE \E a \in Agents : KillAgent(a)
  BY <1>6, KillFlag DEF KillAgent
<1>7. CASE \E a \in Agents : AgentTimesOut(a)
  <2>1. PICK a \in Agents : AgentTimesOut(a)
    BY <1>7
  <2> DEFINE q == [agent[a] EXCEPT !.pc = "gone", !.client = Closed(agent[a].client),
                       !.status = IF Harness = "openclaw" THEN "failed" ELSE "stopped"]
  <2>2. agent' = AgentsAfterCancel(a, q) /\ inTestLoop' = inTestLoop /\ loop' = loop
    BY <2>1 DEF AgentTimesOut
  <2>3. Kept(agent[a], q)
    BY <2>1, AgentType DEF AgentTimesOut, HasTask, AgentRecord, Kept
  <2> HIDE DEF q
  <2> QED
    BY <2>2, <2>3, CancelKept, FlagKeeps
<1>8. CASE Restart
  BY <1>8, NoLoopOK DEF Restart, FlagInv, TestLoopFlag, LoopDevs, NoLoop
<1>9. CASE XbotStart \/ (\E s \in Skills : ZombieEnds(s)) \/ UNCHANGED vars
  BY <1>1, <1>9, FlagKeeps DEF XbotStart, ZombieEnds, vars
<1> QED
  BY <1>2, <1>3, <1>4, <1>5, <1>6, <1>7, <1>8, <1>9 DEF Next, Command, Fault

(* No mark of the test loop is left behind, whatever is killed, times out   *)
(* or is tested twice at once: the agents of a skill whose verdicts are     *)
(* left to its loop have that loop.                                         *)
THEOREM TestLoopFlagHolds == Spec => []TestLoopFlag
<1>1. Init => FlagInv
  BY NoLoopOK DEF Init, FlagInv, TestLoopFlag, LoopDevs, NoLoop
<1>2. FlagInv => TestLoopFlag
  BY DEF FlagInv
<1> QED
  BY <1>1, <1>2, FlagStep, IInvHolds, PTL DEF Spec
=============================================================================
