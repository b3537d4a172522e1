-------------------------- MODULE SubmissionProofs --------------------------
(***************************************************************************)
(* Proofs about SubmissionEval: what is proved of the pipeline still holds *)
(* beside the submissions, which take its eval locks, send its entries to  *)
(* review, and kill and spawn its agents; both paths evaluate under one    *)
(* lock; a pending future is served; and no verdict is given twice.        *)
(***************************************************************************)
EXTENDS SubmissionEval, SkillWorkProofs

(* The variables of path B.  A script that ran belongs to a known skill.    *)
ResultRecord ==
  [of : Submissions \cup {"none"}, verdict : Verdicts \cup {"none", "pending"},
   about : Submissions \cup {"none"}]
ResultOK ==
  /\ result \in [Skills -> ResultRecord]
  /\ \A s \in Skills : result[s].about # "none" <=> result[s].verdict \in Verdicts
EvaluationRecord ==
  [pc : {"none", "queued", "evaluating", "resuming", "over"}, kill : SUBSET Agents]
EvaluationOK == evaluation \in [Submissions -> EvaluationRecord]
ClientRecord ==
  [skill : 0..NumSkills, pc : {"idle", "polling", "over"},
   verdict : Verdicts \cup {"none"}, about : Submissions \cup {"none"}]
ClientOK ==
  /\ client \in [Submissions -> ClientRecord]
  /\ \A c \in Submissions :
       client[c].pc # "idle" => client[c].skill \in Skills /\ client[c].skill \in Known

(* The eval locks: held by who evaluates, an agent or a submission.         *)
HoldersOK == evalLock \in [Skills -> Agents \cup Submissions \cup {"none"}]
SubLockOwned ==
  \A s \in Skills, c \in Submissions :
    evalLock[s] = c <=> evaluation[c].pc = "evaluating" /\ client[c].skill = s
HeldInv == HoldersOK /\ EvalLockOwned /\ SubLockOwned

(* Where nothing cancels the task of an evaluator, none outlives its task.  *)
OutliveInv ==
  \/ MayOutlive
  \/ zombie = {} /\ (Autonomous \/ \A c \in Submissions : evaluation[c].pc # "resuming")

(* A verdict is there only once its evaluation is over, in one place.       *)
IdleFirst == \A c \in Submissions : client[c].pc = "idle" <=> evaluation[c].pc = "none"
Judged(c) == evaluation[c].pc \in {"resuming", "over"}
ResultsJudged ==
  \A s \in Skills : result[s].about # "none" => Judged(result[s].about)
ClientsJudged ==
  \A c \in Submissions : client[c].about # "none" => Judged(client[c].about)
ResultsApart ==
  /\ \A s, t \in Skills : s # t /\ result[s].about # "none" => result[s].about # result[t].about
  /\ \A s \in Skills, c \in Submissions :
       result[s].about # "none" => client[c].about # result[s].about
VerdictInv == ResultsJudged /\ ClientsJudged /\ ResultsApart /\ VerdictGivenOnce

SubInv == ResultOK /\ EvaluationOK /\ ClientOK /\ IdleFirst /\ FutureServed /\ VerdictInv

(* "none" is nobody, and neither is "outlived".                             *)
LEMMA NobodyIsNone ==
  /\ "none" \notin Agents \cup Submissions /\ "outlived" \notin Agents \cup Submissions
  /\ Agents \cap Submissions = {}
BY ConfigAssumption, SubmissionAssumption

(* The parts of the invariants add up to what the runs check.               *)
LEMMA SubEnough ==
  /\ ResultOK /\ EvaluationOK /\ ClientOK /\ HoldersOK => SubTypeOK
  /\ HeldInv /\ OutliveInv => EvaluationsSerialized
<1>1. ResultOK /\ EvaluationOK /\ ClientOK /\ HoldersOK => SubTypeOK
  BY DEF ResultOK, ResultRecord, EvaluationOK, EvaluationRecord, ClientOK, ClientRecord,
         HoldersOK, SubTypeOK
<1>2. ASSUME HeldInv, NEW s \in Skills
      PROVE  /\ Evaluators(s) \ {"outlived"} = {evalLock[s]} \ {"none"}
             /\ zombie = {} => Evaluators(s) = Evaluators(s) \ {"outlived"}
  BY <1>2, NobodyIsNone DEF HeldInv, HoldersOK, EvalLockOwned, SubLockOwned, Evaluators
<1>3. ASSUME HeldInv, OutliveInv, NEW s \in Skills
      PROVE  Evaluators(s) \ (IF MayOutlive THEN {"outlived"} ELSE {}) = {evalLock[s]} \ {"none"}
  <2>1. CASE MayOutlive
    BY <1>2, <1>3, <2>1
  <2>2. CASE ~MayOutlive
    BY <1>2, <1>3, <2>2 DEF OutliveInv
  <2> QED
    BY <2>1, <2>2
<1> QED
  BY <1>1, <1>3 DEF EvaluationsSerialized

-----------------------------------------------------------------------------
(* The pipeline beside the submissions.                                     *)

(* The steps of path B are steps of the pipeline, a kill or a spawn of one  *)
(* of its agents, or leave everything but an eval lock and an entry alone.  *)
LEMMA PipelineIsNext == PipelineStep => Next
BY DEF PipelineStep, Next, Fault

(* A spawn that replaces the agents a submission killed.                    *)
LEMMA ResumeSpawnsOK ==
  ASSUME IInv, ClientOK, IdleFirst, NEW c \in Submissions, ResumeSpawns(c)
  PROVE  IInv'
<1> DEFINE s == client[c].skill
<1>1. s \in Skills /\ s \in Known
  BY DEF ResumeSpawns, IdleFirst, ClientOK
<1>2. /\ Slots(s, Untargeted) # {} /\ agent' = WithSpawn(agent, Slot(s, Untargeted), s, Untargeted)
      /\ handled' = handled /\ commands' = commands
      /\ UNCHANGED <<entry, testAttempts, evalAttempts, inTestLoop, devMode, zombie, spawner,
                     pendingPasses, loop, started, approved, finished>>
  BY DEF ResumeSpawns, history
<1>3. s \in Known' /\ commands' \in 0..MaxCommands
  BY <1>1, <1>2 DEF Known, IInv, CountersOK
<1> HIDE DEF s
<1> QED
  BY <1>1, <1>2, <1>3, UntargetedSpawnOK

(* Steps that leave the pipeline to the eval locks, the retry counts and a  *)
(* skill's way to review.                                                   *)
LEMMA EvaluationStepOK ==
  ASSUME IInv, ClientOK, IdleFirst, NEW c \in Submissions,
         EvaluationBegins(c) \/ \E verdict \in Verdicts : EvaluationReturns(c, verdict)
  PROVE  IInv'
<1> DEFINE s == client[c].skill
<1>1. /\ s \in Skills
      /\ UNCHANGED <<testAttempts, inTestLoop, devMode, agent, zombie, spawner, pendingPasses,
                     loop, commands, history>>
  BY DEF EvaluationBegins, EvaluationReturns, IdleFirst, ClientOK
<1>2. /\ entry' = entry \/ entry' = [entry EXCEPT ![s] = "review"]
      /\ evalAttempts' = evalAttempts \/ evalAttempts' = [evalAttempts EXCEPT ![s] = @ + 1]
  BY DEF EvaluationBegins, EvaluationReturns
<1> HIDE DEF s
<1>3. HistoryOK' /\ Known' = Known /\ finished' = finished
  BY <1>1, HistoryKeep DEF IInv
<1>4. EntriesOK'
  BY <1>1, <1>2, <1>3, EntriesKeep, EntrySet DEF IInv, EntryStatus
<1>5. AgentsOK' /\ LoopsOK' /\ PassOK' /\ CallersOK'
  BY <1>1, <1>3, AgentsKeep, LoopsKeep, PassKeep, CallersKeep, Unmoved DEF IInv
<1>6. CountersOK'
  BY <1>1, <1>2 DEF IInv, CountersOK
<1> QED
  BY <1>3, <1>4, <1>5, <1>6 DEF IInv

(* Every step keeps the pipeline's invariant.                               *)
LEMMA SubPipelineStep ==
  IInv /\ EvaluationOK /\ ClientOK /\ IdleFirst /\ [SubNext]_<<vars, subVars>> => IInv'
<1> SUFFICES ASSUME IInv, EvaluationOK, ClientOK, IdleFirst, [SubNext]_<<vars, subVars>>
             PROVE  IInv'
  OBVIOUS
<1>1. CASE PipelineStep \/ RestartAll
  BY <1>1, PipelineIsNext, NextOK DEF RestartAll, Next, Fault
<1>2. CASE \E c \in Submissions : EvaluationStep(c)
  <2>1. PICK c \in Submissions : EvaluationStep(c)
    BY <1>2
  <2>2. CASE ResumeKills(c)
    <3>1. PICK a \in evaluation[c].kill : Killed(a)
      BY <2>2 DEF ResumeKills
    <3>2. commands' \in 0..MaxCommands
      BY <2>2 DEF ResumeKills, IInv, CountersOK
    <3>3. a \in Agents
      BY <3>1 DEF EvaluationOK, EvaluationRecord
    <3> QED
      BY <3>1, <3>2, <3>3, KilledOK
  <2> QED
    BY <2>1, <2>2, ResumeSpawnsOK, EvaluationStepOK DEF EvaluationStep
<1>3. CASE UNCHANGED vars
  BY <1>3, StutterOK
<1> QED
  BY <1>1, <1>2, <1>3
  DEF SubNext, ClientStep, Submit, ClientPolls, ClientGivesUp, ClientDies

-----------------------------------------------------------------------------
(* The eval locks, which both paths take.                                   *)

(* What a step that knows nothing of submissions does not touch.            *)
ForeignStay ==
  \A s \in Skills, c \in Submissions : evalLock'[s] = c <=> evalLock[s] = c
PathBStays ==
  \A c \in Submissions : evaluation'[c].pc = evaluation[c].pc /\ client'[c].skill = client[c].skill

(* A change of one lock that neither takes it from a submission nor gives   *)
(* it to one.                                                               *)
LEMMA OneLockChanges ==
  ASSUME HoldersOK, NEW s, NEW h \in Agents \cup {"none"},
         evalLock' = [evalLock EXCEPT ![s] = h], s \in Skills => evalLock[s] \notin Submissions
  PROVE  HoldersOK' /\ ForeignStay
BY NobodyIsNone DEF HoldersOK, ForeignStay

(* A cancelled task releases only what an agent held.                       *)
LEMMA CancelForeign ==
  ASSUME HoldersOK, NEW a \in Agents, TaskCancelled(a)
  PROVE  HoldersOK' /\ ForeignStay
<1> DEFINE s == agent[a].skill
<1>1. evalLock' = [evalLock EXCEPT ![s] = IF evalLock[s] = a THEN "none" ELSE evalLock[s]]
  BY DEF TaskCancelled
<1> HIDE DEF s
<1>2. CASE evalLock[s] = a
  BY <1>1, <1>2, OneLockChanges, NobodyIsNone
<1>3. CASE evalLock[s] # a
  <2>1. evalLock' = evalLock
    BY <1>1, <1>3 DEF HoldersOK
  <2> QED
    BY <2>1 DEF HoldersOK, ForeignStay
<1> QED
  BY <1>2, <1>3

(* No step of the pipeline but a restart touches a submission's lock.       *)
LEMMA PipelineForeign ==
  ASSUME IInv, HoldersOK, EvalLockOwned, PipelineStep
  PROVE  HoldersOK' /\ ForeignStay
<1>1. CASE evalLock' = evalLock
  BY <1>1 DEF HoldersOK, ForeignStay
<1>2. CASE \E a \in Agents : EvaluatorStarts(a)
  BY <1>2, OneLockChanges, NobodyIsNone, SubmissionAssumption DEF EvaluatorStarts, EvalLockFree
<1>3. CASE \E a \in Agents, verdict \in {"passed", "rejected"} : EvaluatorReturns(a, verdict)
  <2>1. PICK a \in Agents, verdict \in {"passed", "rejected"} : EvaluatorReturns(a, verdict)
    BY <1>3
  <2>2. /\ evalLock' = [evalLock EXCEPT ![agent[a].skill] = "none"]
        /\ agent[a].skill \in Skills => evalLock[agent[a].skill] = a
    BY <2>1 DEF EvaluatorReturns, EvalLockOwned
  <2> QED
    BY <2>2, OneLockChanges, NobodyIsNone
<1>4. CASE \E a \in Agents : AgentTimesOut(a) \/ KillAgent(a)
  BY <1>4, CancelForeign DEF AgentTimesOut, KillAgent, Killed
<1>5. CASE \E a \in Agents : RunnerStep(a) \/ RunnerFails(a)
  BY <1>1, <1>2, <1>3, <1>5
  DEF RunnerStep, TaskCreated, RunnerStarts, WorkEnds, EvaluationQueued, RejectionHandled,
      PassHandled, RunnerLeaves, RunnerFails
<1>6. CASE (\E o \in Callers : PassBegins(o)) \/ PassContinues \/ \E s \in Skills : ZombieEnds(s)
  BY <1>1, <1>6 DEF PassBegins, PassContinues, ZombieEnds
<1>7. CASE \E l \in Loops : LoopStep(l)
  BY <1>1, <1>7
  DEF LoopStep, TestReturns, LoopValidates, LoopRetries, LoopPicksDev, LoopResumes
<1>8. CASE Command
  BY <1>1, <1>4, <1>8 DEF Command, XbotStart, Confirm, PatchDone, Retry, StopAgent
<1> QED
  BY <1>4, <1>5, <1>6, <1>7, <1>8 DEF PipelineStep

(* Kill lists are shortened, nothing else happens to the evaluations.       *)
LEMMA KillListsShorten ==
  ASSUME EvaluationOK, KillListsFollow
  PROVE  EvaluationOK' /\ \A c \in Submissions : evaluation'[c].pc = evaluation[c].pc
<1>1. \A c \in Submissions : evaluation[c] \in EvaluationRecord
  BY DEF EvaluationOK
<1>2. \A c \in Submissions : \A K \in SUBSET evaluation[c].kill :
        LET q == [evaluation[c] EXCEPT !.kill = K]
        IN  q \in EvaluationRecord /\ q.pc = evaluation[c].pc
  BY <1>1 DEF EvaluationRecord
<1>3. \A c \in Submissions : \E K \in SUBSET evaluation[c].kill :
        evaluation'[c] = [evaluation[c] EXCEPT !.kill = K]
  BY DEF KillListsFollow
<1>4. evaluation' = [c \in Submissions |-> evaluation'[c]]
  BY DEF KillListsFollow
<1>5. ASSUME NEW c \in Submissions
      PROVE  evaluation'[c] \in EvaluationRecord /\ evaluation'[c].pc = evaluation[c].pc
  <2>1. PICK K \in SUBSET evaluation[c].kill : evaluation'[c] = [evaluation[c] EXCEPT !.kill = K]
    BY <1>3
  <2> QED
    BY <1>2, <2>1
<1> QED
  BY <1>4, <1>5 DEF EvaluationOK

(* A script that ends keeps its skill.  One that polls takes what it gives  *)
(* as its answer out of the table; the others leave the table alone.        *)
LEMMA ClientMoves ==
  ASSUME ResultOK, ClientOK, NEW c \in Submissions,
         ClientPolls(c) \/ ClientGivesUp(c) \/ ClientDies(c)
  PROVE  /\ client' \in [Submissions -> ClientRecord]
         /\ \A d \in Submissions \ {c} : client'[d] = client[d]
         /\ \A d \in Submissions : client'[d].skill = client[d].skill
         /\ client[c].pc = "polling" /\ client'[c].pc = "over" /\ client[c].skill \in Skills
         /\ \/ result' = result /\ client'[c].about = client[c].about
            \/ /\ result[client[c].skill].verdict # "pending"
               /\ result' = [result EXCEPT ![client[c].skill] = NoResult]
               /\ client'[c].about = result[client[c].skill].about
<1> DEFINE s == client[c].skill
           polled == [client[c] EXCEPT !.pc = "over", !.verdict = result[s].verdict,
                                       !.about = result[s].about]
           given  == [client[c] EXCEPT !.pc = "over", !.verdict = "passed"]
           died   == [client[c] EXCEPT !.pc = "over"]
<1>1. /\ client \in [Submissions -> ClientRecord] /\ client[c] \in ClientRecord
      /\ client[c].pc = "polling" /\ s \in Skills
  BY DEF ClientOK, ClientRecord, ClientPolls, ClientGivesUp, ClientDies
<1>2. ASSUME NEW q \in ClientRecord, client' = [client EXCEPT ![c] = q],
             q.skill = s, q.pc = "over"
      PROVE  /\ client' \in [Submissions -> ClientRecord]
             /\ \A d \in Submissions \ {c} : client'[d] = client[d]
             /\ \A d \in Submissions : client'[d].skill = client[d].skill
             /\ client'[c].pc = "over" /\ client'[c].about = q.about
  BY <1>1, <1>2
<1>3. CASE ClientPolls(c)
  <2>1. result[s].verdict # "pending" /\ result' = [result EXCEPT ![s] = NoResult]
        /\ client' = [client EXCEPT ![c] = polled]
    BY <1>3 DEF ClientPolls, Taken
  <2>2. result[s].verdict \in Verdicts \cup {"none"} /\ result[s].about \in Submissions \cup {"none"}
    BY <1>1, <2>1 DEF ResultOK, ResultRecord
  <2>3. /\ polled \in ClientRecord /\ polled.skill = s /\ polled.pc = "over"
        /\ polled.about = result[s].about
    BY <1>1, <2>2 DEF ClientRecord
  <2> HIDE DEF polled
  <2> QED
    BY <1>1, <1>2, <2>1, <2>3
<1>4. CASE ClientGivesUp(c)
  <2>1. result' = result /\ client' = [client EXCEPT ![c] = given]
    BY <1>4 DEF ClientGivesUp
  <2>2. /\ given \in ClientRecord /\ given.skill = s /\ given.pc = "over"
        /\ given.about = client[c].about
    BY <1>1 DEF ClientRecord, Verdicts
  <2> HIDE DEF given
  <2> QED
    BY <1>1, <1>2, <2>1, <2>2
<1>5. CASE ClientDies(c)
  <2>1. result' = result /\ client' = [client EXCEPT ![c] = died]
    BY <1>5 DEF ClientDies
  <2>2. /\ died \in ClientRecord /\ died.skill = s /\ died.pc = "over"
        /\ died.about = client[c].about
    BY <1>1 DEF ClientRecord
  <2> HIDE DEF died
  <2> QED
    BY <1>1, <1>2, <2>1, <2>2
<1> QED
  BY <1>3, <1>4, <1>5

(* Submissions keep their locks, so long as they go on evaluating.          *)
LEMMA ForeignKeeps == SubLockOwned /\ ForeignStay /\ PathBStays => SubLockOwned'
BY DEF SubLockOwned, ForeignStay, PathBStays

(* Every step keeps the locks held by those who evaluate.                   *)
LEMMA HeldStep ==
  IInv /\ SubInv /\ HeldInv /\ [SubNext]_<<vars, subVars>> => HeldInv'
<1> SUFFICES ASSUME IInv, ResultOK, EvaluationOK, ClientOK, IdleFirst, HeldInv,
                    [SubNext]_<<vars, subVars>>
             PROVE  HeldInv'
  BY DEF SubInv
<1> USE DEF HeldInv
<1>1. IInv /\ evalLock \in [Skills -> Agents \cup Submissions \cup {"none"}] /\ EvalLockOwned
        /\ [Next]_vars => EvalLockOwned'
  BY EvalLockStep
<1>2. Next => EvalLockOwned'
  BY <1>1 DEF HoldersOK
<1>3. CASE PipelineStep
  <2>1. PathBStays
    BY <1>3, KillListsShorten DEF PipelineStep, PathBStays
  <2> QED
    BY <1>2, <1>3, <2>1, PipelineIsNext, PipelineForeign, ForeignKeeps
<1>4. CASE RestartAll
  <2>1. Next
    BY <1>4 DEF RestartAll, Next, Fault
  <2>2. /\ evalLock' = [s \in Skills |-> "none"]
        /\ \A c \in Submissions : evaluation'[c].pc # "evaluating"
    BY <1>4 DEF RestartAll, Restart, NoEvaluation
  <2> QED
    BY <1>2, <2>1, <2>2, NobodyIsNone DEF HoldersOK, SubLockOwned
<1>5. CASE \E c \in Submissions : EvaluationBegins(c)
  <2>1. PICK c \in Submissions : EvaluationBegins(c)
    BY <1>5
  <2>2. /\ client[c].skill \in Skills /\ evalLock[client[c].skill] = "none"
        /\ evalLock' = [evalLock EXCEPT ![client[c].skill] = c]
        /\ evaluation' = [evaluation EXCEPT ![c].pc = "evaluating"]
        /\ evaluation[c].pc = "queued"
        /\ agent' = agent /\ client' = client
    BY <2>1 DEF EvaluationBegins, EvalLockFree, ClientOK, IdleFirst
  <2>3. HoldersOK' /\ EvalLockOwned'
    BY <2>2, NobodyIsNone DEF HoldersOK, EvalLockOwned
  <2>4. \A d \in Submissions : evaluation'[d].pc = IF d = c THEN "evaluating" ELSE evaluation[d].pc
    BY <2>2 DEF EvaluationOK, EvaluationRecord
  <2>5. SubLockOwned'
    BY <2>2, <2>4, NobodyIsNone DEF HoldersOK, SubLockOwned
  <2> QED
    BY <2>3, <2>5
<1>6. CASE \E c \in Submissions, verdict \in Verdicts : EvaluationReturns(c, verdict)
  <2>1. PICK c \in Submissions, verdict \in Verdicts : EvaluationReturns(c, verdict)
    BY <1>6
  <2>2. /\ evaluation[c].pc = "evaluating" /\ client[c].skill \in Skills
        /\ evalLock' = [evalLock EXCEPT ![client[c].skill] = "none"]
        /\ agent' = agent /\ client' = client
    BY <2>1 DEF EvaluationReturns, ClientOK, IdleFirst
  <2>3. \/ evaluation' = [evaluation EXCEPT ![c].pc = "over"]
        \/ \E K : evaluation' = [evaluation EXCEPT ![c] = [pc |-> "resuming", kill |-> K]]
    BY <2>1 DEF EvaluationReturns
  <2>4. \A d \in Submissions : IF d = c THEN evaluation'[d].pc # "evaluating"
                                        ELSE evaluation'[d] = evaluation[d]
    BY <2>3 DEF EvaluationOK, EvaluationRecord
  <2>5. evalLock[client[c].skill] = c
    BY <2>2 DEF SubLockOwned
  <2>6. HoldersOK' /\ EvalLockOwned'
    BY <2>2, <2>5, NobodyIsNone DEF HoldersOK, EvalLockOwned
  <2>7. SubLockOwned'
    BY <2>2, <2>4, <2>5, NobodyIsNone DEF HoldersOK, SubLockOwned
  <2> QED
    BY <2>6, <2>7
<1>7. CASE \E c \in Submissions : ResumeKills(c)
  <2>0. PICK c \in Submissions : ResumeKills(c)
    BY <1>7
  <2>1. PICK a \in evaluation[c].kill : Killed(a)
    BY <2>0 DEF ResumeKills
  <2>2. a \in Agents
    BY DEF EvaluationOK, EvaluationRecord
  <2>3. PathBStays
    BY <2>0, KillListsShorten DEF ResumeKills, PathBStays
  <2>4. HoldersOK' /\ ForeignStay
    BY <2>1, <2>2, CancelForeign DEF Killed
  <2>5. EvalLockOwned'
    BY <2>1, <2>2, KilledKeepsLocks DEF HoldersOK
  <2> QED
    BY <2>3, <2>4, <2>5, ForeignKeeps
<1>8. CASE \E c \in Submissions : ResumeSpawns(c)
  <2>1. PICK c \in Submissions : ResumeSpawns(c)
    BY <1>8
  <2> DEFINE s == client[c].skill
             x == Slot(s, Untargeted)
  <2>2. /\ evalLock' = evalLock /\ client' = client
        /\ agent' = WithSpawn(agent, x, s, Untargeted)
        /\ evaluation[c].pc = "resuming"
    BY <2>1 DEF ResumeSpawns
  <2>3. x \in Agents /\ agent[x].pc # "evaluating"
    BY <2>1, SlotOK DEF ResumeSpawns, Slots
  <2> HIDE DEF x
  <2>4. EvalsStay
    BY <2>2, <2>3, AgentType, SpawnNotEval DEF EvalsStay
  <2>5. \A d \in Submissions : evaluation'[d].pc = "evaluating" <=> evaluation[d].pc = "evaluating"
    <3>1. evaluation'[c].pc = "over"
      BY <2>1 DEF ResumeSpawns
    <3>2. ASSUME NEW d \in Submissions \ {c}
          PROVE  \E K : evaluation'[d] = [evaluation[d] EXCEPT !.kill = K]
      BY <2>1 DEF ResumeSpawns
    <3>3. \A d \in Submissions : \A K : [evaluation[d] EXCEPT !.kill = K].pc = evaluation[d].pc
      BY DEF EvaluationOK
    <3>4. ASSUME NEW d \in Submissions \ {c}
          PROVE  evaluation'[d].pc = evaluation[d].pc
      <4>1. PICK K : evaluation'[d] = [evaluation[d] EXCEPT !.kill = K]
        BY <3>2
      <4> QED
        BY <3>3, <4>1
    <3> HIDE DEF s
    <3> QED
      BY <2>2, <3>1, <3>4
  <2> QED
    BY <2>2, <2>4, <2>5, EvalsStayOK DEF HoldersOK, SubLockOwned
<1>9. CASE UNCHANGED <<vars, evaluation>> /\ client' = client
  BY <1>9 DEF vars, HoldersOK, EvalLockOwned, SubLockOwned
<1>10. CASE \E c \in Submissions : ClientPolls(c) \/ ClientGivesUp(c) \/ ClientDies(c)
  <2>1. PICK c \in Submissions : ClientPolls(c) \/ ClientGivesUp(c) \/ ClientDies(c)
    BY <1>10
  <2>2. UNCHANGED <<agent, evalLock, evaluation>>
    BY <2>1 DEF ClientPolls, ClientGivesUp, ClientDies, vars
  <2>3. \A d \in Submissions : client'[d].skill = client[d].skill
    BY <2>1, ClientMoves
  <2> QED
    BY <2>2, <2>3 DEF HoldersOK, EvalLockOwned, SubLockOwned
<1>11. CASE \E c \in Submissions, s \in Skills : Submit(c, s)
  <2>1. PICK c \in Submissions, s \in Skills : Submit(c, s)
    BY <1>11
  <2>2. /\ UNCHANGED <<agent, evalLock>> /\ evaluation[c].pc = "none"
        /\ evaluation' = [evaluation EXCEPT ![c].pc = "queued"]
        /\ \A d \in Submissions \ {c} : client'[d] = client[d]
    BY <2>1 DEF Submit, vars, IdleFirst, ClientOK
  <2>3. \A d \in Submissions : evaluation'[d].pc = IF d = c THEN "queued" ELSE evaluation[d].pc
    BY <2>2 DEF EvaluationOK
  <2> QED
    BY <2>2, <2>3 DEF HoldersOK, EvalLockOwned, SubLockOwned
<1> QED
  BY <1>3, <1>4, <1>5, <1>6, <1>7, <1>8, <1>9, <1>10, <1>11
  DEF SubNext, EvaluationStep, ClientStep, subVars

-----------------------------------------------------------------------------
(* The evaluators that outlive their tasks.                                 *)

(* Without openclaw a cancelled task takes its evaluator with it.           *)
LEMMA CancelTells ==
  ASSUME NEW a, TaskCancelled(a) PROVE zombie' = zombie \/ Harness = "openclaw"
BY DEF TaskCancelled

(* Every step keeps the evaluators told, where nothing cancels their tasks. *)
LEMMA OutliveStep ==
  EvaluationOK /\ OutliveInv /\ [SubNext]_<<vars, subVars>> => OutliveInv'
<1> SUFFICES ASSUME EvaluationOK, OutliveInv, [SubNext]_<<vars, subVars>>, ~MayOutlive
             PROVE  OutliveInv'
  BY DEF OutliveInv, MayOutlive
<1> DEFINE NoResume == Autonomous \/ \A c \in Submissions : evaluation[c].pc # "resuming"
<1>1. zombie = {} /\ NoResume
  BY DEF OutliveInv
<1>2. SUFFICES zombie' = {} /\ NoResume'
  BY DEF OutliveInv
<1>3. Harness # "openclaw" \/ (~Autonomous /\ "kill" \notin Env /\ "timeout" \notin Env
                              /\ "restart" \notin Env)
  BY DEF MayOutlive
<1>4. CASE PipelineStep
  <2>1. NoResume'
    BY <1>1, <1>4, KillListsShorten DEF PipelineStep
  <2>2. ASSUME NEW a \in Agents, AgentTimesOut(a) \/ KillAgent(a)
        PROVE  zombie' = zombie
    BY <1>3, <2>2, CancelTells DEF AgentTimesOut, KillAgent, Killed, Given
  <2>3. CASE \E a \in Agents : RunnerStep(a) \/ RunnerFails(a)
    BY <1>1, <2>1, <2>3
    DEF RunnerStep, TaskCreated, RunnerStarts, WorkEnds, EvaluationQueued, EvaluatorStarts,
        EvaluatorReturns, RejectionHandled, PassHandled, RunnerLeaves, RunnerFails
  <2>4. CASE (\E o \in Callers : PassBegins(o)) \/ PassContinues \/ \E s \in Skills : ZombieEnds(s)
    BY <1>1, <2>1, <2>4 DEF PassBegins, PassContinues, ZombieEnds
  <2>5. CASE \E l \in Loops : LoopStep(l)
    BY <1>1, <2>1, <2>5
    DEF LoopStep, TestReturns, LoopValidates, LoopRetries, LoopPicksDev, LoopResumes
  <2>6. CASE Command
    BY <1>1, <2>1, <2>2, <2>6 DEF Command, XbotStart, Confirm, PatchDone, Retry, StopAgent
  <2> QED
    BY <1>1, <1>4, <2>1, <2>2, <2>3, <2>4, <2>5, <2>6 DEF PipelineStep
<1>5. CASE RestartAll
  <2>1. zombie' = {}
    BY <1>1, <1>3, <1>5 DEF RestartAll, Restart
  <2>2. NoResume'
    BY <1>5 DEF RestartAll, NoEvaluation
  <2> QED
    BY <2>1, <2>2
<1>6. CASE \E c \in Submissions : EvaluationStep(c)
  <2>1. PICK c \in Submissions : EvaluationStep(c)
    BY <1>6
  <2>2. CASE EvaluationBegins(c)
    BY <1>1, <2>2 DEF EvaluationBegins, EvaluationOK
  <2>3. CASE \E verdict \in Verdicts : EvaluationReturns(c, verdict)
    <3>1. zombie' = {}
      BY <1>1, <2>3 DEF EvaluationReturns
    <3>2. ~Autonomous => evaluation' = [evaluation EXCEPT ![c].pc = "over"]
      BY <2>3 DEF EvaluationReturns, Resumable
    <3> QED
      BY <1>1, <3>1, <3>2 DEF EvaluationOK, EvaluationRecord
  <2>4. CASE ResumeKills(c)
    <3>1. Harness # "openclaw" /\ Autonomous
      BY <1>1, <1>3, <2>4 DEF ResumeKills
    <3> QED
      BY <1>1, <2>4, <3>1, CancelTells DEF ResumeKills, Killed
  <2>5. CASE ResumeSpawns(c)
    BY <1>1, <2>5 DEF ResumeSpawns
  <2> QED
    BY <2>1, <2>2, <2>3, <2>4, <2>5 DEF EvaluationStep
<1>7. CASE \E c \in Submissions : ClientStep(c)
  <2>1. /\ zombie' = zombie
        /\ \/ evaluation' = evaluation
           \/ \E c \in Submissions : evaluation' = [evaluation EXCEPT ![c].pc = "queued"]
    BY <1>7 DEF ClientStep, Submit, ClientPolls, ClientGivesUp, ClientDies, vars
  <2> QED
    BY <1>1, <2>1 DEF EvaluationOK, EvaluationRecord
<1>8. CASE UNCHANGED <<vars, subVars>>
  BY <1>1, <1>8 DEF vars, subVars
<1> QED
  BY <1>4, <1>5, <1>6, <1>7, <1>8 DEF SubNext

-----------------------------------------------------------------------------
(* Futures and verdicts.                                                    *)

(* The known skills only grow.                                              *)
LEMMA KnownGrows == IInv /\ [Next]_vars => Known \subseteq Known'
BY StepRefines
DEF Order!Next, Order!orderVars, Order!Start, Order!TakeOver, Order!Approve, Order!Promote, Known

(* Steps that leave the table and the scripts alone.                        *)
LEMMA TableKeeps ==
  ASSUME SubInv, result' = result, client' = client, Known \subseteq Known', EvaluationOK',
         \A d \in Submissions :
           /\ evaluation'[d].pc = "none" <=> evaluation[d].pc = "none"
           /\ evaluation[d].pc \in {"queued", "evaluating"} =>
                evaluation'[d].pc \in {"queued", "evaluating"}
           /\ Judged(d) => evaluation'[d].pc \in {"resuming", "over"}
  PROVE  SubInv'
<1>1. ResultOK' /\ ClientOK' /\ IdleFirst'
  BY DEF SubInv, ResultOK, ClientOK, IdleFirst
<1>2. FutureServed'
  BY DEF SubInv, FutureServed
<1>3. ASSUME NEW d \in Submissions, Judged(d)
      PROVE  Judged(d)'
  BY <1>3 DEF Judged
<1>4. \A s \in Skills : result[s].about \in Submissions \cup {"none"}
  BY DEF SubInv, ResultOK, ResultRecord
<1>5. \A c \in Submissions : client[c].about \in Submissions \cup {"none"}
  BY DEF SubInv, ClientOK, ClientRecord
<1>6. ResultsJudged' /\ ClientsJudged'
  BY <1>4, <1>5 DEF SubInv, VerdictInv, ResultsJudged, ClientsJudged, Judged
<1>7. ResultsApart' /\ VerdictGivenOnce'
  BY DEF SubInv, VerdictInv, ResultsApart, VerdictGivenOnce
<1> QED
  BY <1>1, <1>2, <1>6, <1>7 DEF SubInv, VerdictInv

(* The pipeline's steps.                                                    *)
LEMMA PipelineTable ==
  ASSUME IInv, SubInv, PipelineStep
  PROVE  SubInv'
<1>1. EvaluationOK' /\ \A c \in Submissions : evaluation'[c].pc = evaluation[c].pc
  BY KillListsShorten DEF PipelineStep, SubInv
<1>2. Known \subseteq Known'
  BY KnownGrows, PipelineIsNext
<1>3. result' = result /\ client' = client
  BY DEF PipelineStep
<1> QED
  BY <1>1, <1>2, <1>3, TableKeeps DEF Judged

(* A restart drops every future and every evaluation.                       *)
LEMMA RestartTable ==
  ASSUME IInv, SubInv, RestartAll
  PROVE  SubInv'
<1>1. client' = client /\ Known \subseteq Known'
  BY KnownGrows DEF RestartAll, Restart, Next, Fault, history, Known
<1>2. \A s \in Skills : result'[s] = NoResult
  BY DEF RestartAll
<1>3. result' \in [Skills -> ResultRecord]
  BY DEF RestartAll, NoResult, ResultRecord
<1>4. /\ evaluation' \in [Submissions -> EvaluationRecord]
      /\ \A c \in Submissions : evaluation'[c].pc = IF evaluation[c].pc = "none" THEN "none" ELSE "over"
  BY DEF RestartAll, NoEvaluation, EvaluationRecord
<1>5. NoResult.about = "none" /\ NoResult.verdict = "none"
  BY DEF NoResult
<1>6. ResultOK' /\ EvaluationOK' /\ ClientOK' /\ IdleFirst' /\ FutureServed'
  BY <1>1, <1>2, <1>3, <1>4, <1>5
  DEF SubInv, ResultOK, EvaluationOK, ClientOK, IdleFirst, FutureServed, Verdicts
<1>7. \A c \in Submissions : client[c].about \in Submissions \cup {"none"}
  BY DEF SubInv, ClientOK, ClientRecord
<1>8. ClientsJudged'
  BY <1>1, <1>4, <1>7 DEF SubInv, VerdictInv, ClientsJudged, Judged
<1>9. ResultsJudged' /\ ResultsApart' /\ VerdictGivenOnce'
  BY <1>1, <1>2, <1>5
  DEF SubInv, VerdictInv, ResultsJudged, ResultsApart, VerdictGivenOnce
<1> QED
  BY <1>6, <1>8, <1>9 DEF SubInv, VerdictInv

(* The steps of an evaluation but its end.                                  *)
LEMMA EvaluationTable ==
  ASSUME IInv, SubInv, NEW c \in Submissions,
         EvaluationBegins(c) \/ ResumeKills(c) \/ ResumeSpawns(c)
  PROVE  SubInv'
<1>1. result' = result /\ client' = client /\ Known \subseteq Known'
  BY DEF EvaluationBegins, ResumeKills, ResumeSpawns, Killed, history, Known
<1>2. CASE EvaluationBegins(c)
  <2>1. /\ EvaluationOK' /\ evaluation[c].pc = "queued"
        /\ \A d \in Submissions : evaluation'[d].pc = IF d = c THEN "evaluating" ELSE evaluation[d].pc
    BY <1>2 DEF EvaluationBegins, SubInv, EvaluationOK, EvaluationRecord
  <2> QED
    BY <1>1, <2>1, TableKeeps DEF Judged
<1>3. CASE ResumeKills(c)
  <2>1. EvaluationOK' /\ \A d \in Submissions : evaluation'[d].pc = evaluation[d].pc
    BY <1>3, KillListsShorten DEF ResumeKills, SubInv
  <2> QED
    BY <1>1, <2>1, TableKeeps DEF Judged
<1>4. CASE ResumeSpawns(c)
  <2> DEFINE ended == [pc |-> "over", kill |-> {}]
             other(d) == [evaluation[d] EXCEPT !.kill = {a \in evaluation[d].kill : SameAgent(a)}]
  <2>1. evaluation' = [d \in Submissions |-> IF d = c THEN ended ELSE other(d)]
    BY <1>4 DEF ResumeSpawns
  <2>2. ended \in EvaluationRecord /\ ended.pc = "over" /\ evaluation[c].pc = "resuming"
    BY <1>4 DEF ResumeSpawns, EvaluationRecord
  <2>3. \A d \in Submissions : other(d) \in EvaluationRecord /\ other(d).pc = evaluation[d].pc
    BY DEF SubInv, EvaluationOK, EvaluationRecord
  <2> HIDE DEF ended, other
  <2>4. /\ EvaluationOK'
        /\ \A d \in Submissions : evaluation'[d].pc = IF d = c THEN "over" ELSE evaluation[d].pc
    BY <2>1, <2>2, <2>3 DEF EvaluationOK
  <2> QED
    BY <1>1, <2>2, <2>4, TableKeeps DEF Judged
<1> QED
  BY <1>2, <1>3, <1>4

(* The end of an evaluation: its verdict goes to the future that stands for *)
(* the skill, if that one is pending, and to no other place.                *)
LEMMA ReturnTable ==
  ASSUME IInv, SubInv, NEW c \in Submissions, NEW verdict \in Verdicts,
         EvaluationReturns(c, verdict)
  PROVE  SubInv'
<1> DEFINE s == client[c].skill
           stored == [result[s] EXCEPT !.verdict = verdict, !.about = c]
<1>1. /\ s \in Skills /\ evaluation[c].pc = "evaluating"
      /\ client' = client /\ Known' = Known
      /\ result' = [result EXCEPT ![s] = Stored(s, c, verdict)]
  BY DEF EvaluationReturns, SubInv, ClientOK, IdleFirst, history, Known
<1>2. /\ result \in [Skills -> ResultRecord]
      /\ \A t \in Skills : result[t].about # "none" <=> result[t].verdict \in Verdicts
  BY DEF SubInv, ResultOK
<1>3. Judged(c)' /\ ~Judged(c) /\ EvaluationOK'
      /\ \A d \in Submissions \ {c} : evaluation'[d] = evaluation[d]
  <2>1. PICK q \in {[evaluation[c] EXCEPT !.pc = "over"], [pc |-> "resuming", kill |-> Paused(s)]} :
          evaluation' = [evaluation EXCEPT ![c] = q]
    BY DEF EvaluationReturns
  <2>2. q \in EvaluationRecord /\ q.pc \in {"resuming", "over"}
    BY <2>1 DEF SubInv, EvaluationOK, EvaluationRecord, Paused
  <2> QED
    BY <1>1, <2>1, <2>2 DEF SubInv, EvaluationOK, Judged
<1>4. /\ stored \in ResultRecord /\ stored.verdict = verdict /\ stored.about = c
      /\ c # "none" /\ verdict # "pending"
  BY <1>1, <1>2, NobodyIsNone DEF ResultRecord, Verdicts
<1>5. \A t \in Skills : result'[t] = IF t = s /\ result[s].verdict = "pending" THEN stored ELSE result[t]
  BY <1>1, <1>2 DEF Stored
<1>6. result' \in [Skills -> ResultRecord]
  BY <1>1, <1>2, <1>4, <1>5
<1> HIDE DEF stored, s
<1>7. ResultOK'
  BY <1>2, <1>4, <1>5, <1>6 DEF ResultOK
<1>8. ClientOK'
  BY <1>1 DEF SubInv, ClientOK
<1>9. IdleFirst'
  BY <1>1, <1>3 DEF SubInv, IdleFirst, Judged
<1>10. FutureServed'
  <2> SUFFICES ASSUME NEW t \in Skills, result'[t].verdict = "pending"
               PROVE  \E d \in Submissions : /\ client'[d].skill = t
                                             /\ evaluation'[d].pc \in {"queued", "evaluating"}
    BY DEF FutureServed
  <2>1. t # s /\ result[t].verdict = "pending"
    BY <1>4, <1>5
  <2>2. PICK d \in Submissions : client[d].skill = t /\ evaluation[d].pc \in {"queued", "evaluating"}
    BY <2>1 DEF SubInv, FutureServed
  <2> QED
    BY <1>1, <1>3, <2>1, <2>2 DEF s
<1>11. \A d \in Submissions : Judged(d) => d # c /\ evaluation'[d] = evaluation[d]
  BY <1>3 DEF Judged
<1>12. /\ \A t \in Skills : result[t].about # "none" =>
            result[t].about # c /\ evaluation'[result[t].about].pc \in {"resuming", "over"}
       /\ \A d \in Submissions : client[d].about # "none" =>
            client[d].about # c /\ evaluation'[client[d].about].pc \in {"resuming", "over"}
  <2>1. /\ \A t \in Skills : result[t].about \in Submissions \cup {"none"}
        /\ \A d \in Submissions : client[d].about \in Submissions \cup {"none"}
    BY <1>2 DEF ResultRecord, SubInv, ClientOK, ClientRecord
  <2> QED
    BY <1>11, <2>1 DEF SubInv, VerdictInv, ResultsJudged, ClientsJudged, Judged
<1>13. ResultsJudged' /\ ClientsJudged'
  BY <1>1, <1>3, <1>4, <1>5, <1>12 DEF ResultsJudged, ClientsJudged, Judged
<1>14. ResultsApart'
  BY <1>1, <1>4, <1>5, <1>12 DEF SubInv, VerdictInv, ResultsApart
<1>15. VerdictGivenOnce'
  BY <1>1 DEF SubInv, VerdictInv, VerdictGivenOnce
<1> QED
  BY <1>3, <1>7, <1>8, <1>9, <1>10, <1>13, <1>14, <1>15 DEF SubInv, VerdictInv

(* A script that ends.  What it gives as its answer leaves the table.       *)
LEMMA ClientTable ==
  ASSUME SubInv, NEW c \in Submissions, ClientPolls(c) \/ ClientGivesUp(c) \/ ClientDies(c)
  PROVE  SubInv'
<1> DEFINE s == client[c].skill
<1>1. /\ evaluation' = evaluation /\ Known' = Known
  BY DEF ClientPolls, ClientGivesUp, ClientDies, vars, history, Known
<1>2. /\ client' \in [Submissions -> ClientRecord]
      /\ \A d \in Submissions \ {c} : client'[d] = client[d]
      /\ \A d \in Submissions : client'[d].skill = client[d].skill
      /\ client[c].pc = "polling" /\ client'[c].pc = "over" /\ s \in Skills
      /\ \/ result' = result /\ client'[c].about = client[c].about
         \/ /\ result[s].verdict # "pending"
            /\ result' = [result EXCEPT ![s] = NoResult]
            /\ client'[c].about = result[s].about
  BY ClientMoves DEF SubInv
<1> HIDE DEF s
<1>3. /\ result \in [Skills -> ResultRecord]
      /\ NoResult \in ResultRecord /\ NoResult.about = "none" /\ NoResult.verdict = "none"
  BY DEF NoResult, ResultRecord, SubInv, ResultOK
<1>4. ResultOK'
  BY <1>2, <1>3 DEF SubInv, ResultOK, Verdicts
<1>5. EvaluationOK' /\ ClientOK' /\ IdleFirst'
  BY <1>1, <1>2 DEF SubInv, EvaluationOK, ClientOK, IdleFirst
<1>6. FutureServed'
  BY <1>1, <1>2, <1>3 DEF SubInv, FutureServed
<1>7. ResultsJudged' /\ ClientsJudged'
  BY <1>1, <1>2, <1>3 DEF SubInv, VerdictInv, ResultsJudged, ClientsJudged, Judged
<1>8. ResultsApart' /\ VerdictGivenOnce'
  BY <1>2, <1>3 DEF SubInv, VerdictInv, ResultsApart, VerdictGivenOnce
<1> QED
  BY <1>4, <1>5, <1>6, <1>7, <1>8 DEF SubInv, VerdictInv

(* A new future takes the place of the one that stood for the skill.        *)
LEMMA SubmitTable ==
  ASSUME IInv, SubInv, NEW c \in Submissions, NEW s \in Skills, Submit(c, s)
  PROVE  SubInv'
<1> DEFINE future == [of |-> c, verdict |-> "pending", about |-> "none"]
           polling == [NoClient EXCEPT !.skill = s, !.pc = "polling"]
<1>1. /\ Known' = Known /\ client[c].pc = "idle" /\ evaluation[c].pc = "none"
      /\ result' = [result EXCEPT ![s] = future]
      /\ client' = [client EXCEPT ![c] = polling]
      /\ evaluation' = [evaluation EXCEPT ![c].pc = "queued"]
  BY DEF Submit, vars, history, Known, SubInv, IdleFirst
<1>2. s \in Known
  BY DEF Submit, IInv, AgentsOK, AgentsFit
<1>3. /\ future \in ResultRecord /\ future.verdict = "pending" /\ future.about = "none"
      /\ polling \in ClientRecord /\ polling.skill = s /\ polling.pc = "polling"
      /\ polling.about = "none"
  <2>1. NoClient \in ClientRecord /\ NoClient.about = "none"
    BY ConfigAssumption DEF NoClient, ClientRecord
  <2>2. s \in 0..NumSkills
    BY ConfigAssumption DEF Skills
  <2>3. polling \in ClientRecord /\ polling.skill = s /\ polling.pc = "polling"
        /\ polling.about = "none"
    BY <2>1, <2>2 DEF ClientRecord
  <2> HIDE DEF polling
  <2> QED
    BY <2>3 DEF ResultRecord
<1> HIDE DEF future, polling
<1>4. /\ result \in [Skills -> ResultRecord] /\ client \in [Submissions -> ClientRecord]
  BY DEF SubInv, ResultOK, ClientOK
<1>5. EvaluationOK'
      /\ \A d \in Submissions : evaluation'[d].pc = IF d = c THEN "queued" ELSE evaluation[d].pc
  BY <1>1 DEF SubInv, EvaluationOK, EvaluationRecord
<1>6. ResultOK'
  BY <1>1, <1>3, <1>4 DEF SubInv, ResultOK, Verdicts
<1>7. ClientOK' /\ IdleFirst'
  BY <1>1, <1>2, <1>3, <1>4, <1>5 DEF SubInv, ClientOK, IdleFirst
<1>8. FutureServed'
  BY <1>1, <1>3, <1>4, <1>5 DEF SubInv, FutureServed
<1>9. ResultsJudged' /\ ClientsJudged'
  BY <1>1, <1>3, <1>4, <1>5 DEF SubInv, VerdictInv, ResultsJudged, ClientsJudged, Judged
<1>10. ResultsApart' /\ VerdictGivenOnce'
  BY <1>1, <1>3, <1>4 DEF SubInv, VerdictInv, ResultsApart, VerdictGivenOnce
<1> QED
  BY <1>5, <1>6, <1>7, <1>8, <1>9, <1>10 DEF SubInv, VerdictInv

(* Every step keeps it.                                                     *)
LEMMA SubInvStep == IInv /\ SubInv /\ [SubNext]_<<vars, subVars>> => SubInv'
<1> SUFFICES ASSUME IInv, SubInv, [SubNext]_<<vars, subVars>>
             PROVE  SubInv'
  OBVIOUS
<1>1. CASE PipelineStep \/ RestartAll
  BY <1>1, PipelineTable, RestartTable
<1>2. CASE \E c \in Submissions : EvaluationStep(c)
  BY <1>2, EvaluationTable, ReturnTable DEF EvaluationStep
<1>3. CASE \E c \in Submissions : ClientStep(c)
  BY <1>3, ClientTable, SubmitTable DEF ClientStep
<1>4. CASE UNCHANGED <<vars, subVars>>
  <2>1. UNCHANGED <<result, client, evaluation>> /\ Known' = Known
    BY <1>4 DEF vars, subVars, history, Known
  <2> QED
    BY <2>1, TableKeeps DEF SubInv, EvaluationOK, Judged
<1> QED
  BY <1>1, <1>2, <1>3, <1>4 DEF SubNext

(* Nothing is submitted at the start.                                       *)
LEMMA SubInitOK == SubInit => IInv /\ SubInv /\ HeldInv /\ OutliveInv
<1> SUFFICES ASSUME SubInit PROVE IInv /\ SubInv /\ HeldInv /\ OutliveInv
  OBVIOUS
<1>1. IInv
  BY InitOK DEF SubInit
<1>2. NoResult \in ResultRecord /\ NoEvaluation \in EvaluationRecord /\ NoClient \in ClientRecord
  BY ConfigAssumption DEF NoResult, ResultRecord, NoEvaluation, EvaluationRecord, NoClient,
                          ClientRecord
<1>3. NoResult.about = "none" /\ NoResult.verdict = "none" /\ NoEvaluation.pc = "none"
      /\ NoClient.pc = "idle" /\ NoClient.about = "none"
  BY DEF NoResult, NoEvaluation, NoClient
<1>4. /\ result = [s \in Skills |-> NoResult]
      /\ evaluation = [c \in Submissions |-> NoEvaluation]
      /\ client = [c \in Submissions |-> NoClient]
  BY DEF SubInit
<1>5. ResultOK /\ EvaluationOK /\ ClientOK /\ IdleFirst /\ FutureServed
  BY <1>2, <1>3, <1>4
  DEF ResultOK, EvaluationOK, ClientOK, IdleFirst, FutureServed, Verdicts
<1>6. VerdictInv
  BY <1>3, <1>4
  DEF VerdictInv, ResultsJudged, ClientsJudged, ResultsApart, VerdictGivenOnce
<1>7. evalLock = [s \in Skills |-> "none"] /\ EvalLockOwned
  BY ConfigAssumption DEF SubInit, Init, EvalLockOwned, NoAgent
<1>8. HeldInv
  BY <1>3, <1>4, <1>7, NobodyIsNone DEF HeldInv, HoldersOK, SubLockOwned
<1>9. OutliveInv
  BY <1>3, <1>4 DEF SubInit, Init, OutliveInv
<1> QED
  BY <1>1, <1>5, <1>6, <1>8, <1>9 DEF SubInv

(* The invariant of the pipeline and of path B together is inductive.       *)
LEMMA SubInvHolds == SubSpec => [](IInv /\ SubInv /\ HeldInv /\ OutliveInv)
<1>1. IInv /\ SubInv /\ HeldInv /\ OutliveInv /\ [SubNext]_<<vars, subVars>>
        => (IInv /\ SubInv /\ HeldInv /\ OutliveInv)'
  BY SubPipelineStep, SubInvStep, HeldStep, OutliveStep DEF SubInv
<1> QED
  BY <1>1, SubInitOK, PTL DEF SubSpec

(* The variables of path B keep to the values the code stores in them.      *)
THEOREM SubTypeHolds == SubSpec => []SubTypeOK
<1>1. SubInv /\ HeldInv => SubTypeOK
  BY SubEnough DEF SubInv, HeldInv
<1> QED
  BY <1>1, SubInvHolds, PTL

(* The two evaluation paths evaluate a skill in turn, under the lock of the *)
(* one that does, whoever is killed or restarted; beside it there is only   *)
(* the subprocess of an openclaw evaluation whose task was cancelled, and   *)
(* none under SDK, or where nothing cancels a task.                         *)
THEOREM EvaluationsSerializedHolds == SubSpec => []EvaluationsSerialized
<1>1. HeldInv /\ OutliveInv => EvaluationsSerialized
  BY SubEnough
<1> QED
  BY <1>1, SubInvHolds, PTL

(* A future that is pending has a task under way that will resolve it.      *)
THEOREM FutureServedHolds == SubSpec => []FutureServed
<1>1. SubInv => FutureServed
  BY DEF SubInv
<1> QED
  BY <1>1, SubInvHolds, PTL

(* Two scripts never answer with one evaluation's verdict.                  *)
THEOREM VerdictGivenOnceHolds == SubSpec => []VerdictGivenOnce
<1>1. SubInv => VerdictGivenOnce
  BY DEF SubInv, VerdictInv
<1> QED
  BY <1>1, SubInvHolds, PTL

(* What is promised of the pipeline alone, it keeps beside the submissions: *)
(* the dependency and review gates, and the spawn lock.                     *)
THEOREM SubGatesHold == SubSpec => [](GateInv /\ ReviewGate /\ SpawnLockOwned)
<1>1. IInv => GateInv /\ ReviewGate /\ SpawnLockOwned
  BY DEF IInv, EntriesOK, AgentsOK, LoopsOK, PassOK, HistoryOK, CallersOK, AgentsFit, LoopsFit,
         Known, DoneSkills, GateInv, AgentsKnown, LoopsKnown, ReviewGate
<1> QED
  BY <1>1, SubInvHolds, PTL

(* Path B starts and finishes no skill: the two paths together still start  *)
(* and finish skills only as DependencyOrder allows.                        *)
THEOREM SubImplements == SubSpec => ImplementsOrder
<1>1. SubInit => Order!Init
  BY DEF SubInit, Init, Order!Init
<1>2. IInv /\ [SubNext]_<<vars, subVars>> => [Order!Next]_(Order!orderVars)
  <2> SUFFICES ASSUME IInv, [SubNext]_<<vars, subVars>>
               PROVE  [Order!Next]_(Order!orderVars)
    OBVIOUS
  <2>1. CASE PipelineStep \/ RestartAll
    BY <2>1, StepRefines, PipelineIsNext DEF RestartAll, Next, Fault
  <2>2. CASE UNCHANGED history
    BY <2>2 DEF history, Order!orderVars
  <2>3. CASE \E c \in Submissions : EvaluationStep(c)
    BY <2>2, <2>3
    DEF EvaluationStep, EvaluationBegins, EvaluationReturns, ResumeKills, ResumeSpawns, Killed
  <2>4. CASE (\E c \in Submissions : ClientStep(c)) \/ UNCHANGED vars
    BY <2>2, <2>4
    DEF ClientStep, Submit, ClientPolls, ClientGivesUp, ClientDies, vars, history
  <2> QED
    BY <2>1, <2>3, <2>4 DEF SubNext
<1> QED
  BY <1>1, <1>2, SubInvHolds, PTL DEF ImplementsOrder, SubSpec, Order!Spec

=============================================================================
