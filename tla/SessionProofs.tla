---------------------------- MODULE SessionProofs ----------------------------
(***************************************************************************)
(* Proofs about the agents of AgentSession, for any number of agents, tasks *)
(* and commands, under both harnesses: a turn that was stopped is not taken *)
(* for an answer, no subprocess is left that nobody told to end, and while  *)
(* nothing overlaps one agent develops the skill.                           *)
(***************************************************************************)
EXTENDS AgentSession, FiniteSetTheorems, SequenceTheorems, WellFoundedInduction, TLAPS

Statuses == {"none", "starting", "running", "paused", "stopped", "done", "confirmed_done", "error", "failed"}

AgentRec == [status : Statuses, listed : BOOLEAN, exit : BOOLEAN, task : {0} \cup Tasks,
             proc : {0} \cup Tasks, client : {"none", "made", "open", "closed"}, hinted : BOOLEAN]

TaskRec == [of : {0} \cup Agents, kind : {"none", "runner", "hint", "retry"},
            pc : {"none", "new", "launch", "telling", "turn", "judge", "rest", "reaping", "over"},
            cancel : {"no", "kill", "again", "timeout"}, proc : {"none", "live", "signalled", "dead"},
            interrupted : BOOLEAN]

CommandRec == [op : {"none", "over", "stop", "spawn", "hint", "kill", "confirm"},
               pc : {"over", "stopping", "clearing", "inserted", "sent", "hinting", "killing", "waiting",
                     "cancelled", "telling"},
               of : {0} \cup Agents, todo : SUBSET Agents,
               task : {0} \cup Tasks, proc : {0} \cup Tasks]

Typed ==
  /\ agent \in [Agents -> AgentRec]
  /\ task \in [Tasks -> TaskRec]
  /\ command \in [Commands -> CommandRec]
  /\ work \in [Agents -> Seq(BOOLEAN)] /\ results \in [Agents -> Seq(BOOLEAN)]

(* What was not used yet is blank: agents and commands are used in order.   *)
Blank ==
  /\ \E n \in Nat : Made = 1..n
  /\ \E n \in Nat : {c \in Commands : command[c].op # "none"} = 1..n
  /\ \A a \in Agents \ Made : agent[a] = NoAgent /\ work[a] = <<>> /\ results[a] = <<>>
  /\ \A c \in Commands : command[c].op = "none" => command[c] = NoCommand
  /\ \A t \in Tasks : IF task[t].pc = "none" THEN task[t] = NoTask ELSE task[t].of \in Made

Hinted(t) == agent[task[t].of].hinted

(* What the harnesses allow of tasks and subprocesses.                      *)
Modes ==
  \A t \in Tasks :
    /\ task[t].kind = "hint" => Hinted(t)
    /\ SDK => task[t].proc = "none" /\ task[t].pc \notin {"telling", "reaping"}
    /\ ~SDK => /\ task[t].pc # "rest" /\ task[t].kind # "retry"
               /\ task[t].pc \in {"none", "new", "launch"} => task[t].proc = "none"
               /\ task[t].pc = "judge" => task[t].proc = "dead"
               /\ task[t].pc = "reaping" => task[t].proc # "live"

(* A spawn that has put its agent in the table owns it: nobody else is      *)
(* about to start it, and only a hint can have come before.                 *)
Inserted(c) == command[c].pc = "inserted"

(* What a command works on was made, and is hinted once it is interrupted.  *)
Sound(com, M, A) ==
  /\ com.todo \subseteq M
  /\ com.op = "spawn" /\ com.pc = "stopping" => com.todo # {}
  /\ com.op \in {"hint", "kill"} => com.of \in M
  /\ com.pc = "hinting" => com.of \in M /\ A[com.of].hinted

SpawnsOwn ==
  /\ \A c \in Commands : Inserted(c) =>
       /\ command[c].of \in Made
       /\ ~agent[command[c].of].hinted =>
            /\ \A t \in Tasks : task[t].of # command[c].of
            /\ work[command[c].of] = <<>> /\ results[command[c].of] = <<>>
  /\ \A c, d \in Commands : Inserted(c) /\ Inserted(d) /\ command[c].of = command[d].of => c = d
  /\ \A c \in Commands : Sound(command[c], Made, agent)

-----------------------------------------------------------------------------
(* The openclaw harness: an agent that was not hinted has one task at most. *)
OneTask ==
  ~SDK => \A t, u \in Tasks :
            task[t].of # 0 /\ task[t].of = task[u].of /\ ~Hinted(t) => t = u

(* An AgentState knows a task and a subprocess of its own.                  *)
ProcKnown ==
  /\ \A a \in Agents : agent[a].task # 0 => task[agent[a].task].of = a
  /\ \A a \in Agents : agent[a].proc # 0 => ~SDK /\ task[agent[a].proc].of = a
  /\ \A t \in Tasks : task[t].proc = "live" /\ ~Hinted(t) => agent[task[t].of].proc = t

(* Who cancelled a task before its turn is a kill that waits for its end,   *)
(* and that kill owes the signal.                                           *)
Kills(c, t, pcs) == command[c].op = "kill" /\ command[c].of = task[t].of /\ command[c].pc \in pcs

CancelOwned ==
  \A t \in Tasks :
    task[t].pc \in {"new", "launch", "telling"} /\ task[t].cancel # "no" =>
      \E c \in Commands : Kills(c, t, {"waiting"}) /\ command[c].task = t

OrphanOwned ==
  \A t \in Tasks :
    task[t].proc = "live" /\ ~Alive(t) /\ agent[task[t].of].proc = t =>
      \E c \in Commands : Kills(c, t, {"waiting", "cancelled"})

(* A subprocess that was interrupted belongs to an agent that does not run. *)
ProcInterrupted ==
  ~SDK => \A t \in Tasks :
            task[t].interrupted /\ ~Hinted(t) =>
              task[t].pc \in {"telling", "turn", "reaping", "over"}
              /\ (task[t].pc # "over" => agent[task[t].of].status # "running")

-----------------------------------------------------------------------------
(* The SDK harness: an agent that was not hinted has one task at work, and  *)
(* its client one query or result; an interrupted one finds it not running. *)
AtTurn(t) == task[t].pc = "turn" \/ (task[t].pc = "new" /\ ~Runner(t))
Active(t) == task[t].pc \in {"new", "launch", "turn", "judge"}
Idle(a) == work[a] = <<>> /\ results[a] = <<>>

Marked(q) == \E i \in 1..Len(q) : q[i]

TurnFits(t, a) ==
  /\ task[t].pc \in {"new", "launch"} /\ Runner(t) => Idle(a)
  /\ task[t].pc = "launch" => Runner(t)
  /\ AtTurn(t) /\ agent[a].client # "closed" => Len(work[a]) + Len(results[a]) <= 1
  /\ AtTurn(t) /\ (Marked(work[a]) \/ Marked(results[a])) => agent[a].status # "running"
  /\ task[t].pc = "judge" /\ agent[a].client # "closed" => Idle(a)

OneAtWork(t, a) ==
  /\ \A u \in Tasks : Active(u) /\ task[u].of = a => u = t
  /\ TurnFits(t, a)

OneQuery ==
  SDK => \A t \in Tasks : Active(t) /\ ~Hinted(t) => OneAtWork(t, task[t].of)

ResultInterrupted ==
  SDK => \A t \in Tasks : task[t].interrupted => task[t].pc = "judge" /\ Hinted(t)

SInv ==
  /\ Typed /\ Blank /\ Modes /\ SpawnsOwn
  /\ OneTask /\ ProcKnown /\ CancelOwned /\ OrphanOwned /\ ProcInterrupted
  /\ OneQuery /\ ResultInterrupted

-----------------------------------------------------------------------------
(* The first of a non-empty set of numbers exists.                          *)
LEMMA FirstIn ==
  ASSUME NEW S \in SUBSET Nat, S # {}
  PROVE  First(S) \in S
<1> DEFINE R == OpToRel(<, Nat)
<1>1. IsWellFoundedOn(R, Nat)
  BY NatLessThanWellFounded
<1>2. \A x, y \in Nat : y < x => <<y, x>> \in R
  BY DEF OpToRel
<1> HIDE DEF R
<1>3. PICK x \in S : \A y \in S : ~ (<<y, x>> \in R)
  BY <1>1, WFMin
<1>4. \A y \in S : y \in Nat /\ ~ (y < x)
  BY <1>2, <1>3
<1>5. \A y \in S : x <= y
  BY <1>4
<1> QED
  BY <1>5 DEF First

LEMMA NextTaskUnused ==
  ASSUME Unused # {}
  PROVE  NextTask \in Tasks /\ task[NextTask].pc = "none"
BY FirstIn DEF NextTask, Unused, Tasks

(* A command gets the number after the last.                                *)
LEMMA CalledNext ==
  ASSUME Typed, Blank, NEW com \in CommandRec, com.op # "none", NEW S, NEW lost, Called(com, S, lost)
  PROVE  \E c \in Commands : /\ command[c] = NoCommand
                             /\ command' = [command EXCEPT ![c] = com]
                             /\ \E n \in Nat : {d \in Commands : command'[d].op # "none"} = 1..n
<1> DEFINE started == {d \in Commands : command[d].op # "none"}
           c == Cardinality(started) + 1
<1>1. PICK n \in Nat : started = 1..n
  BY DEF Blank
<1>2. Cardinality(1..n) = n
  BY FS_Interval
<1>3. c \in Commands /\ c = n + 1 /\ command' = [command EXCEPT ![c] = com]
  BY <1>1, <1>2 DEF Called
<1> HIDE DEF c
<1>4. command[c] = NoCommand
  BY <1>1, <1>3 DEF Blank
<1>5. {d \in Commands : command'[d].op # "none"} = started \cup {c}
  BY <1>3 DEF Typed
<1> HIDE DEF started
<1>6. {d \in Commands : command'[d].op # "none"} = 1..(n + 1)
  BY <1>1, <1>3, <1>5
<1>7. \E m \in Nat : {d \in Commands : command'[d].op # "none"} = 1..m
  BY <1>1, <1>6
<1> QED
  BY <1>3, <1>4, <1>7

(* What an interruption touches.                                            *)
LEMMA InterruptFacts ==
  ASSUME Typed, NEW a \in Agents, Interrupt(a)
  PROVE  /\ work' \in [Agents -> Seq(BOOLEAN)]
         /\ \A b \in Agents : /\ Len(work'[b]) = Len(work[b])
                              /\ work'[b] = work[b] \/ (SDK /\ b = a)
         /\ task' \in [Tasks -> TaskRec]
         /\ \A t \in Tasks : /\ task'[t] = task[t]
                                \/ /\ t = agent[a].proc /\ task[t].proc = "live"
                                   /\ task'[t] = [task[t] EXCEPT !.proc = "signalled", !.interrupted = TRUE]
<1>1. work' = work \/ (SDK /\ work[a] # <<>> /\ work' = [work EXCEPT ![a] = [@ EXCEPT ![1] = TRUE]])
  BY DEF Interrupt
<1>2. /\ work' \in [Agents -> Seq(BOOLEAN)]
      /\ \A b \in Agents : Len(work'[b]) = Len(work[b]) /\ (work'[b] = work[b] \/ (SDK /\ b = a))
  <2>1. CASE work' = work
    BY <2>1 DEF Typed
  <2>2. CASE SDK /\ work[a] # <<>> /\ work' = [work EXCEPT ![a] = [@ EXCEPT ![1] = TRUE]]
    <3>1. work[a] \in Seq(BOOLEAN) /\ work[a] # <<>>
      BY <2>2 DEF Typed
    <3>2. [work[a] EXCEPT ![1] = TRUE] \in Seq(BOOLEAN) /\ Len([work[a] EXCEPT ![1] = TRUE]) = Len(work[a])
      BY <3>1
    <3> QED
      BY <2>2, <3>2 DEF Typed
  <2> QED
    BY <1>1, <2>1, <2>2
<1>3. agent[a].proc \in {0} \cup Tasks
  BY DEF Typed, AgentRec
<1>4. \A t \in Tasks : \/ task'[t] = task[t]
                      \/ /\ t = agent[a].proc /\ task[t].proc = "live"
                         /\ task'[t] = [task[t] EXCEPT !.proc = "signalled", !.interrupted = TRUE]
  BY <1>3 DEF Interrupt, Typed
<1>5. task' \in [Tasks -> TaskRec]
  <2>1. \A t \in Tasks : [task[t] EXCEPT !.proc = "signalled", !.interrupted = TRUE] \in TaskRec
    BY DEF Typed, TaskRec
  <2> QED
    BY <1>3, <1>4, <2>1 DEF Interrupt, Typed
<1> QED
  BY <1>2, <1>4, <1>5

LEMMA InitSession == Init => SInv
<1> SUFFICES ASSUME Init PROVE SInv
  OBVIOUS
<1>1. /\ \A a \in Agents : agent[a] = NoAgent /\ work[a] = <<>> /\ results[a] = <<>>
      /\ \A t \in Tasks : task[t] = NoTask
      /\ \A c \in Commands : command[c] = NoCommand
  BY DEF Init
<1>2. NoAgent \in AgentRec /\ NoTask \in TaskRec /\ NoCommand \in CommandRec /\ <<>> \in Seq(BOOLEAN)
  <2>1. NoAgent \in AgentRec
    BY DEF NoAgent, AgentRec, Statuses
  <2>2. NoTask \in TaskRec
    BY DEF NoTask, TaskRec
  <2>3. NoCommand \in CommandRec
    BY DEF NoCommand, CommandRec
  <2> QED
    BY <2>1, <2>2, <2>3
<1>3. Typed
  BY <1>2 DEF Init, Typed
<1>4. Blank
  <2>1. Made = 1..0 /\ {c \in Commands : command[c].op # "none"} = 1..0
    BY <1>1 DEF Made, NoAgent, NoCommand
  <2> QED
    BY <1>1, <2>1 DEF Blank, NoTask
<1>5. Modes /\ SpawnsOwn
  BY <1>1 DEF Modes, SpawnsOwn, Inserted, Sound, NoTask, NoCommand
<1>6. OneTask /\ ProcKnown /\ CancelOwned /\ OrphanOwned /\ ProcInterrupted
  BY <1>1 DEF OneTask, ProcKnown, CancelOwned, OrphanOwned, ProcInterrupted, NoTask, NoAgent
<1>7. OneQuery /\ ResultInterrupted
  <2>1. \A t \in Tasks : ~Active(t) /\ ~task[t].interrupted
    BY <1>1 DEF Active, NoTask
  <2> QED
    BY <2>1 DEF OneQuery, ResultInterrupted
<1> QED
  BY <1>3, <1>4, <1>5, <1>6, <1>7 DEF SInv

-----------------------------------------------------------------------------
(* Commands that come, go on or end, but put no agent in the table and give *)
(* up no kill.                                                              *)
CommandsFit ==
  /\ command' \in [Commands -> CommandRec]
  /\ \E n \in Nat : {c \in Commands : command'[c].op # "none"} = 1..n
  /\ \A c \in Commands :
       /\ command'[c].op = "none" => command'[c] = NoCommand
       /\ \/ command'[c] = command[c]
          \/ /\ command'[c].pc # "inserted" /\ Sound(command'[c], Made, agent')
             /\ ~(command[c].op = "kill" /\ command[c].pc \in {"waiting", "cancelled"})

(* An agent whose turn may be interrupted without being taken for done.     *)
Spared(a) == agent'[a].status # "running" \/ agent'[a].hinted

AgentsFit ==
  /\ agent' \in [Agents -> AgentRec]
  /\ \A a \in Agents :
       /\ agent[a].hinted => agent'[a].hinted
       /\ agent'[a].proc = agent[a].proc /\ agent'[a].client = agent[a].client
       /\ agent'[a].task = agent[a].task
       /\ agent'[a].status = "running" => agent[a].status = "running"
       /\ agent'[a].status = "none" <=> agent[a].status = "none"
       /\ a \notin Made => agent'[a] = agent[a]

WorkFits ==
  /\ work' \in [Agents -> Seq(BOOLEAN)]
  /\ \A a \in Agents : /\ Len(work'[a]) = Len(work[a])
                       /\ work'[a] = work[a] \/ (a \in Made /\ Spared(a))

TasksFit ==
  /\ task' \in [Tasks -> TaskRec]
  /\ \A t \in Tasks : \/ task'[t] = task[t]
                      \/ /\ task[t].proc = "live" /\ Spared(task[t].of)
                         /\ task'[t] = [task[t] EXCEPT !.proc = "signalled", !.interrupted = TRUE]

(* Commands that touch agents and interrupt those that do not run.          *)
LEMMA TouchKeeps ==
  ASSUME SInv, UNCHANGED <<harness, results>>, CommandsFit, AgentsFit, WorkFits, TasksFit
  PROVE  SInv'
<1>1. Made' = Made
  BY DEF AgentsFit, Made
<1>2. \A t \in Tasks :
        /\ task'[t].of = task[t].of /\ task'[t].kind = task[t].kind /\ task'[t].pc = task[t].pc
        /\ task'[t].cancel = task[t].cancel
        /\ task'[t].proc = task[t].proc \/ (task[t].proc = "live" /\ task'[t].proc = "signalled")
        /\ task'[t].interrupted => task[t].interrupted \/ (Spared(task[t].of) /\ task[t].proc = "live")
        /\ task[t].pc = "none" => task'[t] = task[t]
  <2> TAKE t \in Tasks
  <2>1. task[t] \in TaskRec /\ (task[t].pc = "none" => task[t].proc = "none")
    BY DEF SInv, Typed, Blank, NoTask
  <2>2. CASE task'[t] = task[t]
    BY <2>2
  <2>3. CASE /\ task[t].proc = "live" /\ Spared(task[t].of)
             /\ task'[t] = [task[t] EXCEPT !.proc = "signalled", !.interrupted = TRUE]
    BY <2>1, <2>3 DEF TaskRec
  <2> QED
    BY <2>2, <2>3 DEF TasksFit
<1>3. \A t \in Tasks : task[t].pc # "none" => task[t].of \in Agents
  BY DEF SInv, Blank, Made
<1>4. \A t \in Tasks : Hinted(t) => task[t].pc = "none" \/ agent'[task[t].of].hinted
  BY <1>3 DEF AgentsFit, Hinted
<1>5. Typed'
  BY DEF CommandsFit, AgentsFit, WorkFits, TasksFit, SInv, Typed
<1>6. Blank'
  <2>1. \A a \in Agents \ Made : agent'[a] = NoAgent /\ work'[a] = <<>> /\ results'[a] = <<>>
    BY DEF AgentsFit, WorkFits, SInv, Blank
  <2>2. \A t \in Tasks : IF task'[t].pc = "none" THEN task'[t] = NoTask ELSE task'[t].of \in Made
    BY <1>2 DEF SInv, Blank
  <2>3. \A c \in Commands : command'[c].op = "none" => command'[c] = NoCommand
    BY DEF CommandsFit
  <2> QED
    BY <1>1, <2>1, <2>2, <2>3 DEF CommandsFit, SInv, Blank
<1>7. Modes'
  BY <1>2, <1>4 DEF SInv, Modes, Hinted, SDK, Blank, NoTask
<1>8. \A a \in Agents : Idle(a) => Idle(a)'
  BY DEF WorkFits, Idle, SInv, Typed
<1>9. SpawnsOwn'
  <2>1. ASSUME NEW c \in Commands, Inserted(c)'
        PROVE  command'[c] = command[c] /\ Inserted(c)
    BY <2>1 DEF CommandsFit, Inserted
  <2>2. \A c \in Commands : Inserted(c)' =>
           /\ command'[c].of \in Made
           /\ ~agent'[command'[c].of].hinted =>
                /\ \A t \in Tasks : task'[t].of # command'[c].of
                /\ work'[command'[c].of] = <<>> /\ results'[command'[c].of] = <<>>
    BY <1>2, <1>8, <2>1 DEF SInv, SpawnsOwn, AgentsFit, Idle, Made
  <2>3. \A c \in Commands : Sound(command'[c], Made, agent')
    BY DEF CommandsFit, SInv, SpawnsOwn, AgentsFit, Sound, Made
  <2>4. \A c, d \in Commands : Inserted(c)' /\ Inserted(d)' /\ command'[c].of = command'[d].of => c = d
    BY <2>1 DEF SInv, SpawnsOwn
  <2> QED
    BY <1>1, <2>2, <2>3, <2>4 DEF SpawnsOwn
<1>10. OneTask' /\ ProcKnown'
  <2>1. OneTask'
    BY <1>2, <1>4 DEF SInv, OneTask, Hinted, SDK, Blank, NoTask
  <2>2. \A a \in Agents : agent'[a].proc # 0 => ~SDK' /\ task'[agent'[a].proc].of = a
    <3>1. \A a \in Agents : agent[a].proc \in {0} \cup Tasks
      BY DEF SInv, Typed, AgentRec
    <3> QED
      BY <1>2, <3>1 DEF SInv, ProcKnown, AgentsFit, SDK
  <2>3. \A t \in Tasks : task'[t].proc = "live" /\ ~Hinted(t)' => agent'[task'[t].of].proc = t
    BY <1>2, <1>3, <1>4 DEF SInv, ProcKnown, AgentsFit, Hinted, Blank, NoTask
  <2>4. \A a \in Agents : agent'[a].task # 0 => task'[agent'[a].task].of = a
    <3>1. \A a \in Agents : agent[a].task \in {0} \cup Tasks
      BY DEF SInv, Typed, AgentRec
    <3> QED
      BY <1>2, <3>1 DEF SInv, ProcKnown, AgentsFit
  <2> QED
    BY <2>1, <2>2, <2>3, <2>4 DEF ProcKnown
<1>11. \A t \in Tasks : ~Hinted(t)' => ~Hinted(t) \/ task[t].pc = "none"
  BY <1>2, <1>4 DEF Hinted
<1>12. \A c \in Commands, t \in Tasks, pcs \in SUBSET {"waiting", "cancelled"} :
         Kills(c, t, pcs) => Kills(c, t, pcs)' /\ command'[c] = command[c]
  BY <1>2 DEF CommandsFit, Kills
<1>13. CancelOwned' /\ OrphanOwned'
  <2>1. \A t \in Tasks : Alive(t)' = Alive(t)
    BY <1>2 DEF Alive
  <2>2. \A t \in Tasks : task[t].pc = "none" => task[t].proc = "none" /\ task'[t] = task[t]
    BY <1>2 DEF SInv, Blank, NoTask
  <2> QED
    BY <1>2, <1>3, <1>12, <2>1, <2>2 DEF SInv, CancelOwned, OrphanOwned, AgentsFit
<1>14. ProcInterrupted'
  <2> SUFFICES ASSUME ~SDK, NEW t \in Tasks, task'[t].interrupted, ~Hinted(t)'
               PROVE  /\ task[t].pc \in {"telling", "turn", "reaping", "over"}
                      /\ task[t].pc # "over" => agent'[task[t].of].status # "running"
    BY <1>2 DEF ProcInterrupted, SDK
  <2>1. task[t].pc # "none"
    BY <1>2 DEF SInv, Blank, NoTask
  <2>2. ~Hinted(t) /\ task[t].of \in Agents
    BY <1>3, <1>11, <2>1
  <2>3. CASE task[t].interrupted
    BY <2>2, <2>3 DEF SInv, ProcInterrupted, AgentsFit
  <2>4. CASE Spared(task[t].of) /\ task[t].proc = "live"
    <3>1. agent'[task[t].of].status # "running"
      BY <1>2, <2>4 DEF Spared, Hinted
    <3>2. task[t].pc \in {"telling", "turn", "reaping", "over"}
      BY <2>1, <2>4 DEF SInv, Modes, Typed, TaskRec
    <3> QED
      BY <3>1, <3>2
  <2> QED
    BY <1>2, <2>3, <2>4
<1>15. ResultInterrupted'
  BY <1>2, <1>4 DEF SInv, ResultInterrupted, SDK, Modes, Hinted
<1>16. OneQuery'
  <2> SUFFICES ASSUME SDK, NEW t \in Tasks, Active(t)', ~Hinted(t)'
               PROVE  OneAtWork(t, task[t].of)'
    BY DEF OneQuery, SDK
  <2>1. Active(t) /\ ~Hinted(t) /\ task[t].of \in Agents /\ task'[t].of = task[t].of
    BY <1>2, <1>3, <1>11 DEF Active
  <2>2. PICK a \in Agents : a = task[t].of
    BY <2>1
  <2>3. OneAtWork(t, a)
    BY <2>1, <2>2 DEF SInv, OneQuery
  <2>4. /\ agent'[a].client = agent[a].client /\ Len(work'[a]) = Len(work[a]) /\ results'[a] = results[a]
        /\ agent'[a].status = "running" => agent[a].status = "running" /\ work'[a] = work[a]
        /\ Idle(a) => Idle(a)'
    BY <1>2, <1>8, <2>1, <2>2 DEF AgentsFit, WorkFits, Spared, Hinted
  <2>5. OneAtWork(t, a)'
    <3>1. /\ \A u \in Tasks : Active(u)' /\ task'[u].of = a => u = t
          /\ task'[t].pc = task[t].pc /\ Runner(t)' = Runner(t) /\ AtTurn(t)' = AtTurn(t)
      BY <1>2, <2>3 DEF OneAtWork, Active, Runner, AtTurn
    <3>2. AtTurn(t) /\ (Marked(work'[a]) \/ Marked(results'[a])) => agent'[a].status # "running"
      BY <2>3, <2>4 DEF OneAtWork, TurnFits
    <3> QED
      BY <2>3, <2>4, <3>1, <3>2 DEF OneAtWork, TurnFits
  <2> QED
    BY <2>1, <2>2, <2>5
<1> QED
  BY <1>5, <1>6, <1>7, <1>9, <1>10, <1>13, <1>14, <1>15, <1>16 DEF SInv

LEMMA InterruptFits ==
  ASSUME SInv, NEW a \in Made, Interrupt(a), Spared(a)
  PROVE  WorkFits /\ TasksFit
<1>1. a \in Agents /\ Typed /\ (agent[a].proc # 0 => task[agent[a].proc].of = a)
  BY DEF Made, SInv, ProcKnown
<1>2. WorkFits
  BY <1>1, InterruptFacts DEF WorkFits
<1>3. \A t \in Tasks : t # 0
  BY DEF Tasks
<1>4. TasksFit
  BY <1>1, <1>3, InterruptFacts DEF TasksFit
<1> QED
  BY <1>2, <1>4

LEMMA NothingInterrupted ==
  ASSUME SInv, UNCHANGED <<work, task>>
  PROVE  WorkFits /\ TasksFit
BY DEF SInv, Typed, WorkFits, TasksFit

(* A command that is called, and one that goes on.                          *)
LEMMA CallFits ==
  ASSUME SInv, NEW com \in CommandRec, com.op # "none", com.pc # "inserted",
         Sound(com, Made, agent'), NEW S, NEW lost, Called(com, S, lost)
  PROVE  CommandsFit
<1>1. PICK c \in Commands :
        /\ command[c] = NoCommand /\ command' = [command EXCEPT ![c] = com]
        /\ \E n \in Nat : {d \in Commands : command'[d].op # "none"} = 1..n
  BY CalledNext DEF SInv
<1>2. command[c].op # "kill"
  BY <1>1 DEF NoCommand
<1>3. \A d \in Commands : command'[d] = IF d = c THEN com ELSE command[d]
  BY <1>1 DEF SInv, Typed
<1>4. \A d \in Commands : command[d].op = "none" => command[d] = NoCommand
  BY DEF SInv, Blank
<1> QED
  BY <1>1, <1>2, <1>3, <1>4 DEF CommandsFit, SInv, Typed

LEMMA GoFits ==
  ASSUME SInv, NEW c \in Commands, command[c].op # "none",
         ~(command[c].op = "kill" /\ command[c].pc \in {"waiting", "cancelled"}),
         NEW com \in CommandRec, com.op # "none", com.pc # "inserted", Sound(com, Made, agent'),
         command' = [command EXCEPT ![c] = com]
  PROVE  CommandsFit
<1>1. \A d \in Commands : command'[d] = IF d = c THEN com ELSE command[d]
  BY DEF SInv, Typed
<1>2. {d \in Commands : command'[d].op # "none"} = {d \in Commands : command[d].op # "none"}
  BY <1>1
<1>3. \A d \in Commands : command[d].op = "none" => command[d] = NoCommand
  BY DEF SInv, Blank
<1>4. \E n \in Nat : {d \in Commands : command'[d].op # "none"} = 1..n
  BY <1>2 DEF SInv, Blank
<1> QED
  BY <1>1, <1>3, <1>4 DEF CommandsFit, SInv, Typed

(* An agent that is listed was made.                                        *)
LEMMA ListedMade ==
  ASSUME SInv
  PROVE  Listed \subseteq Made /\ Made \subseteq Agents /\ Agents \subseteq Nat
BY DEF SInv, Blank, Listed, Made, NoAgent, Agents

(* A command that ends gives up nothing but a kill's duty.                  *)
LEMMA EndFits ==
  ASSUME SInv, NEW c \in Commands, Ends(c), command[c].op # "none",
         ~(command[c].op = "kill" /\ command[c].pc \in {"waiting", "cancelled"})
  PROVE  CommandsFit
<1> DEFINE com == [NoCommand EXCEPT !.op = "over"]
<1>1. com \in CommandRec /\ com.op = "over" /\ com.pc = "over" /\ com.todo = {}
  BY DEF NoCommand, CommandRec
<1>2. Sound(com, Made, agent')
  BY <1>1 DEF Sound
<1>3. command' = [command EXCEPT ![c] = com]
  BY DEF Ends
<1> HIDE DEF com
<1> QED
  BY <1>1, <1>2, <1>3, GoFits

LEMMA StopCalledKeeps ==
  ASSUME SInv, StopCalled
  PROVE  SInv'
<1>1. PICK a \in Listed, lost \in BOOLEAN :
        /\ Called([NoCommand EXCEPT !.op = "stop", !.pc = "stopping", !.proc = LiveProc(a)], {a}, lost)
        /\ agent' = [agent EXCEPT ![a].status = "paused"]
        /\ Interrupt(a) \/ UNCHANGED <<task, work>>
        /\ UNCHANGED <<harness, results, done>>
  BY DEF StopCalled, InterruptFails
<1>2. a \in Made /\ a \in Agents /\ agent[a].status # "none"
  BY ListedMade DEF Made
<1>3. LiveProc(a) \in {0} \cup Tasks
  BY <1>2 DEF LiveProc, SInv, Typed, AgentRec
<1>4. CommandsFit
  <2> DEFINE com == [NoCommand EXCEPT !.op = "stop", !.pc = "stopping", !.proc = LiveProc(a)]
  <2>1. com \in CommandRec /\ com.op = "stop" /\ com.pc = "stopping" /\ com.todo = {}
    BY <1>3 DEF NoCommand, CommandRec
  <2>2. Sound(com, Made, agent')
    BY <2>1 DEF Sound
  <2> HIDE DEF com
  <2> QED
    BY <1>1, <2>1, <2>2, CallFits DEF com
<1>5. AgentsFit
  BY <1>1, <1>2 DEF AgentsFit, SInv, Typed, AgentRec, Statuses, Made
<1>6. Spared(a)
  BY <1>1, <1>2 DEF Spared, SInv, Typed
<1> QED
  BY <1>1, <1>2, <1>4, <1>5, <1>6, InterruptFits, NothingInterrupted, TouchKeeps

LEMMA StopReturnsKeeps ==
  ASSUME SInv, NEW c \in Commands, StopReturns(c)
  PROVE  SInv'
<1>1. CommandsFit
  BY EndFits DEF StopReturns, At
<1>2. AgentsFit
  BY DEF StopReturns, AgentsFit, SInv, Typed
<1> QED
  BY <1>1, <1>2, NothingInterrupted, TouchKeeps DEF StopReturns

LEMMA SpawnCalledKeeps ==
  ASSUME SInv, SpawnCalled
  PROVE  SInv'
<1>1. CommandsFit
  <2> DEFINE com == [NoCommand EXCEPT !.op = "spawn", !.pc = "clearing", !.todo = Listed]
  <2>1. com \in CommandRec /\ com.op = "spawn" /\ com.pc = "clearing" /\ com.todo \subseteq Made
    BY ListedMade DEF NoCommand, CommandRec
  <2>2. Sound(com, Made, agent')
    BY <2>1 DEF Sound
  <2>3. Called(com, Listed, FALSE)
    BY DEF SpawnCalled
  <2> HIDE DEF com
  <2> QED
    BY <2>1, <2>2, <2>3, CallFits
<1>2. AgentsFit
  BY DEF SpawnCalled, AgentsFit, SInv, Typed
<1> QED
  BY <1>1, <1>2, NothingInterrupted, TouchKeeps DEF SpawnCalled

(* Taking an agent out of the table leaves its turn alone.                  *)
LEMMA PoppedFits ==
  ASSUME SInv, NEW a \in Made, agent' = Popped(a)
  PROVE  AgentsFit
BY DEF Popped, AgentsFit, SInv, Typed, AgentRec, Made

LEMMA SpawnClearsKeeps ==
  ASSUME SInv, NEW c \in Commands, SpawnClears(c)
  PROVE  SInv'
<1> DEFINE a == First(command[c].todo)
<1>1. /\ At(c, "spawn", "clearing") /\ command[c].todo # {} /\ UNCHANGED <<harness, results>>
      /\ command[c] \in CommandRec /\ command[c].todo \subseteq Made
  BY DEF SpawnClears, SInv, Typed, SpawnsOwn, Sound
<1>2. a \in Made /\ a \in Agents /\ agent[a].status # "none"
  BY <1>1, ListedMade, FirstIn DEF Made
<1>3. LiveProc(a) \in {0} \cup Tasks
  BY <1>2 DEF LiveProc, SInv, Typed, AgentRec
<1> HIDE DEF a
<1>4. CASE /\ command' = [command EXCEPT ![c].pc = "stopping", ![c].proc = LiveProc(a)]
           /\ agent' = [agent EXCEPT ![a].status = "paused"]
           /\ Interrupt(a) \/ UNCHANGED <<task, work>>
  <2> DEFINE com == [command[c] EXCEPT !.pc = "stopping", !.proc = LiveProc(a)]
  <2>1. /\ com \in CommandRec /\ com.op = "spawn" /\ com.pc = "stopping" /\ com.todo = command[c].todo
    BY <1>1, <1>3 DEF CommandRec, At
  <2>2. command' = [command EXCEPT ![c] = com]
    BY <1>4 DEF SInv, Typed
  <2> HIDE DEF com
  <2>3. CommandsFit
    BY <1>1, <2>1, <2>2, GoFits DEF At, Sound
  <2>4. AgentsFit
    BY <1>2, <1>4 DEF AgentsFit, SInv, Typed, AgentRec, Statuses, Made
  <2>5. Spared(a)
    BY <1>2, <1>4 DEF Spared, SInv, Typed
  <2> QED
    BY <1>1, <1>2, <1>4, <2>3, <2>4, <2>5, InterruptFits, NothingInterrupted, TouchKeeps
<1>5. CASE /\ command' = [command EXCEPT ![c].todo = @ \ {a}]
           /\ agent' = Popped(a) /\ UNCHANGED <<task, work>>
  <2> DEFINE com == [command[c] EXCEPT !.todo = @ \ {a}]
  <2>1. /\ com \in CommandRec /\ com.op = "spawn" /\ com.pc = "clearing" /\ com.todo \subseteq Made
    BY <1>1 DEF CommandRec, At
  <2>2. command' = [command EXCEPT ![c] = com]
    BY <1>5 DEF SInv, Typed
  <2> HIDE DEF com
  <2>3. CommandsFit
    BY <1>1, <2>1, <2>2, GoFits DEF At, Sound
  <2> QED
    BY <1>1, <1>2, <1>5, <2>3, PoppedFits, NothingInterrupted, TouchKeeps
<1> QED
  BY <1>4, <1>5 DEF SpawnClears, InterruptFails, a

LEMMA SpawnStoppedKeeps ==
  ASSUME SInv, NEW c \in Commands, SpawnStopped(c)
  PROVE  SInv'
<1> DEFINE a == First(command[c].todo)
           com == [command[c] EXCEPT !.pc = "clearing", !.todo = @ \ {a}, !.proc = 0]
<1>1. At(c, "spawn", "stopping") /\ UNCHANGED <<harness, results, task, work>> /\ agent' = Popped(a)
  BY DEF SpawnStopped
<1>2. command[c] \in CommandRec /\ command[c].todo \subseteq Made /\ command[c].todo # {}
  BY <1>1 DEF SInv, Typed, SpawnsOwn, Sound, At
<1>3. com \in CommandRec /\ com.op = "spawn" /\ com.pc = "clearing" /\ com.todo \subseteq Made
  BY <1>1, <1>2 DEF CommandRec, At
<1>4. command' = [command EXCEPT ![c] = com]
  BY DEF SpawnStopped, SInv, Typed
<1>5. a \in Made
  BY <1>2, ListedMade, FirstIn
<1> HIDE DEF a, com
<1>6. CommandsFit
  BY <1>1, <1>3, <1>4, GoFits DEF At, Sound
<1> QED
  BY <1>1, <1>5, <1>6, PoppedFits, NothingInterrupted, TouchKeeps

LEMMA HintCalledKeeps ==
  ASSUME SInv, HintCalled
  PROVE  SInv'
<1>1. PICK a \in Listed :
        /\ Called([NoCommand EXCEPT !.op = "hint", !.pc = "sent", !.of = a], {a}, FALSE)
        /\ UNCHANGED <<harness, agent, task, work, results>>
  BY DEF HintCalled
<1>2. CommandsFit
  <2> DEFINE com == [NoCommand EXCEPT !.op = "hint", !.pc = "sent", !.of = a]
  <2>1. com \in CommandRec /\ com.op = "hint" /\ com.pc = "sent" /\ com.todo = {} /\ com.of \in Made
    BY ListedMade DEF NoCommand, CommandRec
  <2>2. Sound(com, Made, agent')
    BY <2>1 DEF Sound
  <2> HIDE DEF com
  <2> QED
    BY <1>1, <2>1, <2>2, CallFits DEF com
<1>3. AgentsFit
  BY <1>1 DEF AgentsFit, SInv, Typed
<1> QED
  BY <1>1, <1>2, <1>3, NothingInterrupted, TouchKeeps

(* What a hint or a kill works on.                                          *)
LEMMA WorksOn ==
  ASSUME SInv, NEW c \in Commands, command[c].op \in {"hint", "kill"}
  PROVE  command[c].of \in Made /\ command[c].of \in Agents /\ agent[command[c].of].status # "none"
BY DEF SInv, SpawnsOwn, Sound, Made

LEMMA LiveProcIn ==
  ASSUME SInv, NEW a \in Agents
  PROVE  /\ LiveProc(a) \in {0} \cup Tasks
         /\ LiveProc(a) # 0 => LiveProc(a) = agent[a].proc /\ task[LiveProc(a)].proc = "live"
BY DEF LiveProc, SInv, Typed, AgentRec, Tasks

LEMMA HintInterruptsKeeps ==
  ASSUME SInv, NEW c \in Commands, HintInterrupts(c)
  PROVE  SInv'
<1>1. PICK a : a = command[c].of
  OBVIOUS
<1>2. At(c, "hint", "sent") /\ UNCHANGED <<harness, results>> /\ command[c] \in CommandRec
  BY DEF HintInterrupts, SInv, Typed
<1>3. a \in Made /\ a \in Agents /\ agent[a].status # "none"
  BY <1>1, <1>2, WorksOn DEF At
<1>4. CASE Ends(c) /\ UNCHANGED <<agent, task, work>>
  <2>1. CommandsFit
    BY <1>2, <1>4, EndFits DEF At
  <2>2. AgentsFit
    BY <1>4 DEF AgentsFit, SInv, Typed
  <2> QED
    BY <1>2, <1>4, <2>1, <2>2, NothingInterrupted, TouchKeeps
<1>5. CASE /\ command' = [command EXCEPT ![c].pc = "hinting", ![c].proc = LiveProc(a)]
           /\ agent' = [agent EXCEPT ![a].hinted = TRUE]
           /\ Interrupt(a) \/ UNCHANGED <<task, work>>
  <2> DEFINE com == [command[c] EXCEPT !.pc = "hinting", !.proc = LiveProc(a)]
  <2>1. com \in CommandRec /\ com.op = "hint" /\ com.pc = "hinting" /\ com.todo = command[c].todo /\ com.of = a
    BY <1>1, <1>2, <1>3, LiveProcIn DEF CommandRec, At
  <2>2. command' = [command EXCEPT ![c] = com]
    BY <1>5 DEF SInv, Typed
  <2>3. agent'[a].hinted
    BY <1>3, <1>5 DEF SInv, Typed
  <2>4. Sound(com, Made, agent')
    BY <1>3, <2>1, <2>3 DEF Sound, SInv, SpawnsOwn
  <2> HIDE DEF com
  <2>5. CommandsFit
    BY <1>2, <2>1, <2>2, <2>4, GoFits DEF At
  <2>6. AgentsFit
    BY <1>3, <1>5 DEF AgentsFit, SInv, Typed, AgentRec, Made
  <2>7. Spared(a)
    BY <2>3 DEF Spared
  <2> QED
    BY <1>2, <1>3, <1>5, <2>5, <2>6, <2>7, InterruptFits, NothingInterrupted, TouchKeeps
<1>6. CASE Ends(c) /\ agent' = [agent EXCEPT ![a].hinted = TRUE] /\ Interrupt(a)
  <2>1. CommandsFit
    BY <1>2, <1>6, EndFits DEF At
  <2>2. AgentsFit
    BY <1>3, <1>6 DEF AgentsFit, SInv, Typed, AgentRec, Made
  <2>3. Spared(a)
    BY <1>3, <1>6 DEF Spared, SInv, Typed
  <2> QED
    BY <1>2, <1>3, <1>6, <2>1, <2>2, <2>3, InterruptFits, TouchKeeps
<1> QED
  BY <1>1, <1>4, <1>5, <1>6 DEF HintInterrupts

LEMMA KillCalledKeeps ==
  ASSUME SInv, KillCalled
  PROVE  SInv'
<1>1. PICK a \in Listed, lost \in BOOLEAN :
        /\ Called([NoCommand EXCEPT !.op = "kill", !.pc = "killing", !.of = a], {a}, lost)
        /\ agent' = [agent EXCEPT ![a].status = "stopped", ![a].exit = TRUE]
        /\ Interrupt(a) \/ UNCHANGED <<task, work>>
        /\ UNCHANGED <<harness, results>>
  BY DEF KillCalled, InterruptFails
<1>2. a \in Made /\ a \in Agents /\ agent[a].status # "none"
  BY ListedMade DEF Made
<1>3. CommandsFit
  <2> DEFINE com == [NoCommand EXCEPT !.op = "kill", !.pc = "killing", !.of = a]
  <2>1. com \in CommandRec /\ com.op = "kill" /\ com.pc = "killing" /\ com.todo = {} /\ com.of \in Made
    BY <1>2 DEF NoCommand, CommandRec
  <2>2. Sound(com, Made, agent')
    BY <2>1 DEF Sound
  <2> HIDE DEF com
  <2> QED
    BY <1>1, <2>1, <2>2, CallFits DEF com
<1>4. AgentsFit
  BY <1>1, <1>2 DEF AgentsFit, SInv, Typed, AgentRec, Statuses, Made
<1>5. Spared(a)
  BY <1>1, <1>2 DEF Spared, SInv, Typed
<1> QED
  BY <1>1, <1>2, <1>3, <1>4, <1>5, InterruptFits, NothingInterrupted, TouchKeeps

LEMMA KillPopsKeeps ==
  ASSUME SInv, NEW c \in Commands, KillPops(c)
  PROVE  SInv'
<1>1. At(c, "kill", "telling")
  BY DEF KillPops
<1>2. CommandsFit
  BY <1>1, EndFits DEF KillPops, At
<1>3. command[c].of \in Made /\ command[c].of \in Agents
  BY <1>1, WorksOn DEF At
<1>4. AgentsFit
  <2> DEFINE x == command[c].of
             r == [agent[x] EXCEPT !.listed = FALSE]
  <2>1. agent' = [agent EXCEPT ![x] = r] /\ agent \in [Agents -> AgentRec]
    BY DEF KillPops, SInv, Typed
  <2>2. /\ r \in AgentRec /\ r.hinted = agent[x].hinted /\ r.proc = agent[x].proc
        /\ r.client = agent[x].client /\ r.task = agent[x].task /\ r.status = agent[x].status
    BY <1>3, <2>1 DEF AgentRec
  <2>3. x \in Made /\ x \in Agents
    BY <1>3
  <2> HIDE DEF x, r
  <2> QED
    BY <2>1, <2>2, <2>3 DEF AgentsFit, Made
<1> QED
  BY <1>2, <1>4, NothingInterrupted, TouchKeeps DEF KillPops

LEMMA ConfirmCalledKeeps ==
  ASSUME SInv, ConfirmCalled
  PROVE  SInv'
<1>1. PICK a \in Listed :
        /\ Called([NoCommand EXCEPT !.op = "confirm"], {a}, FALSE)
        /\ agent' = [Released(Listed) EXCEPT ![a].status = "confirmed_done"]
        /\ UNCHANGED <<harness, task, work, results>>
  BY DEF ConfirmCalled
<1>2. CommandsFit
  <2> DEFINE com == [NoCommand EXCEPT !.op = "confirm"]
  <2>1. com \in CommandRec /\ com.op = "confirm" /\ com.pc = "over" /\ com.todo = {}
    BY DEF NoCommand, CommandRec
  <2>2. Sound(com, Made, agent')
    BY <2>1 DEF Sound
  <2> HIDE DEF com
  <2> QED
    BY <1>1, <2>1, <2>2, CallFits DEF com
<1>3. a \in Agents /\ a \in Made /\ Listed \subseteq Made
  BY ListedMade
<1>4. AgentsFit
  <2>1. \A b \in Agents : agent[b] \in AgentRec
    BY DEF SInv, Typed
  <2>2. \A b \in Agents : [agent[b] EXCEPT !.exit = TRUE] \in AgentRec
    BY <2>1 DEF AgentRec
  <2>3. Released(Listed) \in [Agents -> AgentRec]
    BY <2>1, <2>2 DEF Released
  <2> QED
    BY <1>1, <1>3, <2>1, <2>3 DEF AgentsFit, AgentRec, Statuses, Released, Made
<1> QED
  BY <1>1, <1>2, <1>4, NothingInterrupted, TouchKeeps

-----------------------------------------------------------------------------
(* The invariant, agent by agent.                                           *)
SettledTask(t, a) ==
  /\ task[t].kind = "hint" => agent[a].hinted
  /\ SDK => /\ task[t].proc = "none" /\ task[t].pc \notin {"telling", "reaping"}
            /\ task[t].interrupted => task[t].pc = "judge" /\ agent[a].hinted
  /\ ~SDK => /\ task[t].pc # "rest" /\ task[t].kind # "retry"
             /\ task[t].pc \in {"none", "new", "launch"} => task[t].proc = "none"
             /\ task[t].pc = "judge" => task[t].proc = "dead"
             /\ task[t].pc = "reaping" => task[t].proc # "live"
  /\ task[t].pc \in {"new", "launch", "telling"} /\ task[t].cancel # "no" =>
       \E c \in Commands : Kills(c, t, {"waiting"}) /\ command[c].task = t
  /\ task[t].proc = "live" /\ ~Alive(t) /\ agent[a].proc = t =>
       \E c \in Commands : Kills(c, t, {"waiting", "cancelled"})
  /\ ~agent[a].hinted =>
       /\ task[t].proc = "live" => agent[a].proc = t
       /\ ~SDK /\ task[t].interrupted =>
            /\ task[t].pc \in {"telling", "turn", "reaping", "over"}
            /\ task[t].pc # "over" => agent[a].status # "running"
       /\ ~SDK => \A u \in Tasks : task[u].of = a => u = t
       /\ SDK /\ Active(t) => OneAtWork(t, a)

Settled(a) ==
  /\ agent[a].task # 0 => task[agent[a].task].of = a
  /\ agent[a].proc # 0 => ~SDK /\ task[agent[a].proc].of = a
  /\ \A t \in Tasks : task[t].of = a => SettledTask(t, a)

LEMMA AgentsSettled ==
  ASSUME SInv, NEW a \in Made
  PROVE  Settled(a)
<1>1. a \in Agents /\ a # 0
  BY DEF Made, Agents
<1>2. /\ agent[a].task # 0 => task[agent[a].task].of = a
      /\ agent[a].proc # 0 => ~SDK /\ task[agent[a].proc].of = a
  BY <1>1 DEF SInv, ProcKnown
<1>3. ASSUME NEW t \in Tasks, task[t].of = a
      PROVE  SettledTask(t, a)
  <2>1. Hinted(t) <=> agent[a].hinted
    BY <1>3 DEF Hinted
  <2>2. /\ task[t].kind = "hint" => agent[a].hinted
        /\ SDK => task[t].proc = "none" /\ task[t].pc \notin {"telling", "reaping"}
        /\ ~SDK => /\ task[t].pc # "rest" /\ task[t].kind # "retry"
                   /\ task[t].pc \in {"none", "new", "launch"} => task[t].proc = "none"
                   /\ task[t].pc = "judge" => task[t].proc = "dead"
                   /\ task[t].pc = "reaping" => task[t].proc # "live"
    BY <2>1 DEF SInv, Modes
  <2>3. SDK /\ task[t].interrupted => task[t].pc = "judge" /\ agent[a].hinted
    BY <2>1 DEF SInv, ResultInterrupted
  <2>4. /\ task[t].pc \in {"new", "launch", "telling"} /\ task[t].cancel # "no" =>
             \E c \in Commands : Kills(c, t, {"waiting"}) /\ command[c].task = t
        /\ task[t].proc = "live" /\ ~Alive(t) /\ agent[a].proc = t =>
             \E c \in Commands : Kills(c, t, {"waiting", "cancelled"})
        /\ ~agent[a].hinted /\ task[t].proc = "live" => agent[a].proc = t
    BY <1>3, <2>1 DEF SInv, CancelOwned, OrphanOwned, ProcKnown
  <2>5. ~agent[a].hinted /\ ~SDK =>
          /\ task[t].interrupted => /\ task[t].pc \in {"telling", "turn", "reaping", "over"}
                                    /\ task[t].pc # "over" => agent[a].status # "running"
          /\ \A u \in Tasks : task[u].of = a => u = t
    BY <1>1, <1>3, <2>1 DEF SInv, ProcInterrupted, OneTask
  <2>6. ~agent[a].hinted /\ SDK /\ Active(t) => OneAtWork(t, a)
    BY <1>3, <2>1 DEF SInv, OneQuery
  <2> QED
    BY <2>2, <2>3, <2>4, <2>5, <2>6 DEF SettledTask
<1> QED
  BY <1>2, <1>3 DEF Settled

AllSettled == \A a \in Made : Settled(a)

LEMMA SettledSuffices == Typed /\ Blank /\ SpawnsOwn /\ AllSettled => SInv
<1> SUFFICES ASSUME Typed, Blank, SpawnsOwn, \A a \in Made : Settled(a)
             PROVE  SInv
  BY DEF AllSettled
<1>1. \A a \in Agents \ Made : agent[a].task = 0 /\ agent[a].proc = 0
  BY DEF Blank, NoAgent
<1>2. ASSUME NEW t \in Tasks
      PROVE  \/ task[t] = NoTask
             \/ task[t].of \in Made /\ SettledTask(t, task[t].of)
  BY DEF Blank, Settled
<1>3. /\ NoTask.pc = "none" /\ NoTask.kind = "none" /\ NoTask.proc = "none" /\ NoTask.of = 0
      /\ NoTask.cancel = "no" /\ ~NoTask.interrupted
  BY DEF NoTask
<1>4. Modes
  BY <1>2, <1>3 DEF Modes, SettledTask, Hinted
<1>5. OneTask
  <2>1. ASSUME ~SDK, NEW t \in Tasks, NEW u \in Tasks, task[t].of # 0, task[t].of = task[u].of, ~Hinted(t)
        PROVE  t = u
    <3>1. task[t].of \in Made /\ SettledTask(t, task[t].of)
      BY <1>2, <1>3, <2>1
    <3>2. \A v \in Tasks : task[v].of = task[t].of => v = t
      BY <2>1, <3>1 DEF SettledTask, Hinted
    <3> QED
      BY <2>1, <3>2
  <2> QED
    BY <2>1 DEF OneTask
<1>6. ProcKnown
  <2>1. \A t \in Tasks : task[t].proc = "live" /\ ~Hinted(t) => agent[task[t].of].proc = t
    BY <1>2, <1>3 DEF SettledTask, Hinted
  <2> QED
    BY <1>1, <2>1 DEF ProcKnown, Settled
<1>7. CancelOwned /\ OrphanOwned
  BY <1>2, <1>3 DEF CancelOwned, OrphanOwned, SettledTask, Hinted
<1>8. ProcInterrupted
  BY <1>2, <1>3 DEF ProcInterrupted, SettledTask, Hinted
<1>9. OneQuery
  BY <1>2, <1>3 DEF OneQuery, SettledTask, Hinted, Active
<1>10. ResultInterrupted
  BY <1>2, <1>3 DEF ResultInterrupted, SettledTask, Hinted
<1> QED
  BY <1>4, <1>5, <1>6, <1>7, <1>8, <1>9, <1>10 DEF SInv

-----------------------------------------------------------------------------
(* A step that is about the agent a: the others at most learn that they     *)
(* need not rest any more.                                                  *)
Apart(a) ==
  /\ agent' \in [Agents -> AgentRec] /\ task' \in [Tasks -> TaskRec]
  /\ work' \in [Agents -> Seq(BOOLEAN)] /\ results' \in [Agents -> Seq(BOOLEAN)]
  /\ \A b \in Agents \ {a} :
       /\ agent'[b] = agent[b] \/ (b \in Made /\ agent'[b] = [agent[b] EXCEPT !.exit = TRUE])
       /\ work'[b] = work[b] /\ results'[b] = results[b]
  /\ \A t \in Tasks : \/ task'[t] = task[t]
                      \/ task'[t].of = a /\ task[t].of \in {0, a} /\ task'[t].pc # "none"
  /\ agent'[a].status # "none" /\ agent'[a].hinted = agent[a].hinted
  /\ ~agent[a].hinted => \A c \in Commands : command'[c].pc = "inserted" => command'[c].of # a

LEMMA ApartKeeps ==
  ASSUME SInv, NEW a \in Made, harness' = harness, CommandsFit, Apart(a), Settled(a)'
  PROVE  SInv'
<1>1. /\ \A b \in Agents \ {a} : /\ agent'[b].status = agent[b].status /\ agent'[b].client = agent[b].client
                                /\ agent'[b].task = agent[b].task /\ agent'[b].proc = agent[b].proc
                                /\ agent'[b].hinted = agent[b].hinted
      /\ a \in Agents /\ a # 0 /\ (SDK' <=> SDK)
  <2>1. ASSUME NEW b \in Agents
        PROVE  LET r == [agent[b] EXCEPT !.exit = TRUE] IN
               /\ r.status = agent[b].status /\ r.client = agent[b].client /\ r.task = agent[b].task
               /\ r.proc = agent[b].proc /\ r.hinted = agent[b].hinted
    <3>1. agent[b] \in AgentRec
      BY DEF SInv, Typed
    <3> QED
      BY <3>1 DEF AgentRec
  <2>2. \A b \in Agents \ {a} : agent'[b] = agent[b] \/ agent'[b] = [agent[b] EXCEPT !.exit = TRUE]
    BY DEF Apart
  <2>3. a \in Agents /\ a # 0 /\ (SDK' <=> SDK)
    BY DEF Made, Agents, SDK
  <2> QED
    BY <2>1, <2>2, <2>3
<1>2. Made' = Made
  BY <1>1 DEF Apart, Made
<1>3. Typed'
  BY DEF Apart, CommandsFit, Typed
<1>4. \A t \in Tasks : task[t].pc = "none" => task[t] = NoTask /\ task[t].of = 0
  BY DEF SInv, Blank, NoTask
<1>5. \A t \in Tasks : task'[t].of # a => task'[t] = task[t]
  BY DEF Apart
<1>6. Blank'
  <2>1. \A t \in Tasks : IF task'[t].pc = "none" THEN task'[t] = NoTask ELSE task'[t].of \in Made
    BY DEF Apart, SInv, Blank
  <2>2. \A b \in Agents \ Made : agent'[b] = NoAgent /\ work'[b] = <<>> /\ results'[b] = <<>>
    BY DEF Apart, SInv, Blank
  <2>3. \A c \in Commands : command'[c].op = "none" => command'[c] = NoCommand
    BY DEF CommandsFit
  <2> QED
    BY <1>2, <2>1, <2>2, <2>3 DEF Blank, CommandsFit, SInv
<1>7. SpawnsOwn'
  <2>1. ASSUME NEW c \in Commands, Inserted(c)'
        PROVE  command'[c] = command[c] /\ Inserted(c)
    BY <2>1 DEF CommandsFit, Inserted
  <2>2. ASSUME NEW c \in Commands, Inserted(c)'
        PROVE  /\ command'[c].of \in Made
               /\ ~agent'[command'[c].of].hinted =>
                    /\ \A t \in Tasks : task'[t].of # command'[c].of
                    /\ work'[command'[c].of] = <<>> /\ results'[command'[c].of] = <<>>
    <3>1. PICK b \in Made : b = command[c].of /\ b = command'[c].of
      BY <2>1, <2>2 DEF SInv, SpawnsOwn
    <3>2. b \in Agents /\ (~agent[b].hinted => /\ \A t \in Tasks : task[t].of # b
                                               /\ work[b] = <<>> /\ results[b] = <<>>)
      BY <2>1, <2>2, <3>1 DEF SInv, SpawnsOwn, Made
    <3>3. CASE b = a
      BY <2>2, <3>1, <3>3 DEF Apart, Inserted
    <3>4. CASE b # a
      <4>1. agent'[b].hinted = agent[b].hinted /\ work'[b] = work[b] /\ results'[b] = results[b]
        BY <1>1, <3>2, <3>4 DEF Apart
      <4>2. \A t \in Tasks : task'[t].of = b => task[t].of = b
        BY <1>5, <3>4
      <4> QED
        BY <3>1, <3>2, <4>1, <4>2
    <3> QED
      BY <3>3, <3>4
  <2>3. \A c \in Commands : Sound(command'[c], Made, agent')
    <3>1. \A b \in Agents : agent'[b].hinted = agent[b].hinted
      BY <1>1 DEF Apart
    <3> QED
      BY <3>1 DEF CommandsFit, SInv, SpawnsOwn, Sound, Made
  <2>4. \A c, d \in Commands : Inserted(c)' /\ Inserted(d)' /\ command'[c].of = command'[d].of => c = d
    BY <2>1 DEF SInv, SpawnsOwn
  <2> QED
    BY <1>2, <2>2, <2>3, <2>4 DEF SpawnsOwn
<1>8. ASSUME NEW b \in Made, b # a
      PROVE  Settled(b)'
  <2>1. b \in Agents /\ b # 0 /\ Settled(b)
    BY AgentsSettled DEF Made, Agents
  <2>2. /\ agent'[b].status = agent[b].status /\ agent'[b].client = agent[b].client
        /\ agent'[b].task = agent[b].task /\ agent'[b].proc = agent[b].proc
        /\ agent'[b].hinted = agent[b].hinted /\ work'[b] = work[b] /\ results'[b] = results[b]
    BY <1>1, <1>8, <2>1 DEF Apart
  <2>3. \A t \in Tasks : (task[t].of = b <=> task'[t].of = b) /\ (task[t].of = b => task'[t] = task[t])
    BY <1>8, <2>1 DEF Apart
  <2>4. ASSUME NEW t \in Tasks, task[t].of = b
        PROVE  SettledTask(t, b)'
    <3>1. SettledTask(t, b) /\ task'[t] = task[t]
      BY <2>1, <2>3, <2>4 DEF Settled
    <3>2. \A c \in Commands, pcs \in SUBSET {"waiting", "cancelled"} :
            Kills(c, t, pcs) => Kills(c, t, pcs)' /\ command'[c] = command[c]
      BY <3>1 DEF CommandsFit, Kills
    <3>3. Active(t)' = Active(t) /\ Alive(t)' = Alive(t)
      BY <3>1 DEF Active, Alive
    <3>4. OneAtWork(t, b) => OneAtWork(t, b)'
      <4>1. TurnFits(t, b) => TurnFits(t, b)'
        BY <2>2, <3>1 DEF TurnFits, Runner, Idle, AtTurn
      <4>2. (\A u \in Tasks : Active(u) /\ task[u].of = b => u = t)
              => (\A u \in Tasks : Active(u)' /\ task'[u].of = b => u = t)
        BY <2>3 DEF Active
      <4> QED
        BY <4>1, <4>2 DEF OneAtWork
    <3>5. ~SDK /\ (\A u \in Tasks : task[u].of = b => u = t) => \A u \in Tasks : task'[u].of = b => u = t
      BY <2>3
    <3>6. /\ task'[t].kind = "hint" => agent'[b].hinted
          /\ SDK' => /\ task'[t].proc = "none" /\ task'[t].pc \notin {"telling", "reaping"}
                     /\ task'[t].interrupted => task'[t].pc = "judge" /\ agent'[b].hinted
          /\ ~SDK' => /\ task'[t].pc # "rest" /\ task'[t].kind # "retry"
                      /\ task'[t].pc \in {"none", "new", "launch"} => task'[t].proc = "none"
                      /\ task'[t].pc = "judge" => task'[t].proc = "dead"
                      /\ task'[t].pc = "reaping" => task'[t].proc # "live"
      BY <1>1, <2>2, <3>1 DEF SettledTask
    <3>7. /\ task'[t].pc \in {"new", "launch", "telling"} /\ task'[t].cancel # "no" =>
               \E c \in Commands : Kills(c, t, {"waiting"})' /\ command'[c].task = t
          /\ task'[t].proc = "live" /\ ~Alive(t)' /\ agent'[b].proc = t =>
               \E c \in Commands : Kills(c, t, {"waiting", "cancelled"})'
      BY <1>1, <2>2, <3>1, <3>2, <3>3 DEF SettledTask
    <3>9. ASSUME ~agent'[b].hinted
          PROVE  /\ task'[t].proc = "live" => agent'[b].proc = t
                 /\ ~SDK' /\ task'[t].interrupted =>
                      /\ task'[t].pc \in {"telling", "turn", "reaping", "over"}
                      /\ task'[t].pc # "over" => agent'[b].status # "running"
      BY <1>1, <2>2, <3>1, <3>3, <3>9 DEF SettledTask
    <3>8. ~agent'[b].hinted => /\ ~SDK' => \A u \in Tasks : task'[u].of = b => u = t
                               /\ SDK' /\ Active(t)' => OneAtWork(t, b)'
      BY <1>1, <2>2, <3>1, <3>3, <3>4, <3>5 DEF SettledTask
    <3> QED
      BY <3>6, <3>7, <3>8, <3>9 DEF SettledTask
  <2>5. agent'[b].task \in {0} \cup Tasks /\ agent'[b].proc \in {0} \cup Tasks
    BY <2>1 DEF Apart, AgentRec
  <2>6. /\ agent'[b].task # 0 => task'[agent'[b].task].of = b
        /\ agent'[b].proc # 0 => ~SDK' /\ task'[agent'[b].proc].of = b
    BY <1>1, <2>1, <2>2, <2>3, <2>5 DEF Settled
  <2> QED
    BY <2>3, <2>4, <2>6 DEF Settled
<1>9. AllSettled'
  BY <1>2, <1>8 DEF AllSettled
<1> QED
  BY <1>3, <1>6, <1>7, <1>9, SettledSuffices, PTL

(* A task t of agent a goes on, as T.                                       *)
AgentsKept(a) ==
  /\ agent' \in [Agents -> AgentRec]
  /\ \A b \in Agents \ {a} : agent'[b] = agent[b] \/ (b \in Made /\ agent'[b] = [agent[b] EXCEPT !.exit = TRUE])
  /\ agent'[a].status # "none" /\ agent'[a].hinted = agent[a].hinted /\ agent'[a].task = agent[a].task

WorkKept(a) ==
  /\ work' \in [Agents -> Seq(BOOLEAN)] /\ results' \in [Agents -> Seq(BOOLEAN)]
  /\ \A b \in Agents \ {a} : work'[b] = work[b] /\ results'[b] = results[b]

Turns(t, a, T) ==
  /\ task[t].of = a /\ task[t].pc # "none" /\ UNCHANGED <<harness, command>>
  /\ task' = [task EXCEPT ![t] = T] /\ T.of = a /\ T.kind \in {task[t].kind, "none"} /\ T.pc # "none"
  /\ AgentsKept(a) /\ WorkKept(a)
  /\ T.pc \in {"new", "launch", "telling"} /\ T.cancel # "no" =>
       task[t].pc \in {"new", "launch", "telling"} /\ task[t].cancel # "no"

(* What an openclaw turn must look like, and one of the SDK.                *)
CliFits(t, a, T) ==
  /\ T.pc # "rest"
  /\ T.pc \in {"new", "launch"} => T.proc = "none"
  /\ T.pc = "judge" => T.proc = "dead"
  /\ T.pc = "reaping" => T.proc # "live"
  /\ agent'[a].proc \in {agent[a].proc, t}
  /\ T.proc = "live" /\ T.pc = "over" /\ agent'[a].proc = t =>
       \E c \in Commands : Kills(c, t, {"waiting", "cancelled"})
  /\ ~agent[a].hinted =>
       /\ T.proc = "live" => agent'[a].proc = t
       /\ T.interrupted => /\ T.pc \in {"telling", "turn", "reaping", "over"}
                           /\ T.pc # "over" => agent'[a].status # "running"

SdkFits(t, a, T) ==
  /\ T.proc = "none" /\ T.pc \notin {"telling", "reaping"}
  /\ T.interrupted => T.pc = "judge" /\ agent[a].hinted
  /\ agent'[a].proc = agent[a].proc
  /\ ~agent[a].hinted =>
       IF T.pc \in {"new", "launch", "turn", "judge"} THEN Active(t) /\ TurnFits(t, a)'
       ELSE \/ Active(t)
            \/ /\ work'[a] = work[a] /\ results'[a] = results[a]
               /\ agent'[a].client \in {agent[a].client, "closed"}
               /\ agent'[a].status = "running" => agent[a].status = "running"

LEMMA TurnApart ==
  ASSUME SInv, NEW t \in Tasks, NEW a, NEW T \in TaskRec, Turns(t, a, T)
  PROVE  a \in Made /\ a \in Agents /\ a # 0 /\ CommandsFit /\ Apart(a)
<1>1. a \in Made /\ a \in Agents /\ a # 0
  BY DEF Turns, SInv, Blank, Made, Agents
<1>2. \A u \in Tasks : task'[u] = IF u = t THEN T ELSE task[u]
  BY DEF Turns, SInv, Typed
<1>3. CommandsFit
  BY DEF Turns, CommandsFit, SInv, Typed, Blank
<1>4. task' \in [Tasks -> TaskRec]
  BY DEF Turns, SInv, Typed
<1>5. ~agent[a].hinted => \A c \in Commands : command'[c].pc = "inserted" => command'[c].of # a
  BY DEF Turns, SInv, SpawnsOwn, Inserted
<1>6. Apart(a)
  BY <1>2, <1>4, <1>5 DEF Turns, AgentsKept, WorkKept, Apart
<1> QED
  BY <1>1, <1>3, <1>6

(* The other tasks of the agent, when the turn goes on.                     *)
LEMMA CliTurn ==
  ASSUME SInv, ~SDK, NEW t \in Tasks, NEW a, NEW T \in TaskRec, Turns(t, a, T), CliFits(t, a, T)
  PROVE  SInv'
<1>1. a \in Made /\ a \in Agents /\ a # 0 /\ CommandsFit /\ Apart(a) /\ Settled(a)
  BY TurnApart, AgentsSettled
<1>2. \A u \in Tasks : task'[u] = IF u = t THEN T ELSE task[u]
  BY DEF Turns, SInv, Typed
<1>3. ~SDK' /\ task[t].of = a /\ T.of = a /\ agent'[a].hinted = agent[a].hinted /\ agent'[a].task = agent[a].task
  BY DEF Turns, AgentsKept, SDK
<1>4. \A c \in Commands, u \in Tasks, pcs \in SUBSET {"waiting", "cancelled"} : Kills(c, u, pcs) => Kills(c, u, pcs)'
  BY <1>2, <1>3 DEF Turns, Kills
<1>5. ASSUME NEW u \in Tasks, task'[u].of = a
      PROVE  SettledTask(u, a)'
  <2>1. task[u].of = a /\ SettledTask(u, a)
    BY <1>1, <1>2, <1>3, <1>5 DEF Settled
  <2>2. ~agent[a].hinted => \A v \in Tasks : task'[v].of = a => v = u
    BY <1>2, <1>3, <2>1 DEF SettledTask
  <2>3. CASE u # t
    <3>1. task'[u] = task[u] /\ agent[a].hinted /\ Alive(u)' = Alive(u)
      BY <1>2, <1>3, <2>1, <2>3 DEF SettledTask, Alive
    <3>2. agent'[a].proc = u => agent[a].proc = u
      BY <2>3 DEF CliFits
    <3>3. /\ task'[u].pc \in {"new", "launch", "telling"} /\ task'[u].cancel # "no" =>
               \E c \in Commands : Kills(c, u, {"waiting"})' /\ command'[c].task = u
          /\ task'[u].proc = "live" /\ ~Alive(u)' /\ agent'[a].proc = u =>
               \E c \in Commands : Kills(c, u, {"waiting", "cancelled"})'
      BY <1>4, <2>1, <3>1, <3>2 DEF SettledTask, Turns
    <3> QED
      BY <1>3, <2>1, <3>1, <3>3 DEF SettledTask
  <2>4. CASE u = t
    <3>1. task'[t] = T /\ SettledTask(t, a)
      BY <1>2, <2>1, <2>4
    <3>2. T.kind \in {task[t].kind, "none"} /\ T.pc # "none"
      BY DEF Turns
    <3>3. /\ T.kind = "hint" => agent'[a].hinted
          /\ T.pc # "rest" /\ T.kind # "retry"
          /\ T.pc \in {"none", "new", "launch"} => T.proc = "none"
          /\ T.pc = "judge" => T.proc = "dead"
          /\ T.pc = "reaping" => T.proc # "live"
      BY <1>3, <3>1, <3>2 DEF CliFits, SettledTask
    <3>4. /\ T.pc \in {"new", "launch", "telling"} /\ T.cancel # "no" =>
               \E c \in Commands : Kills(c, t, {"waiting"})' /\ command'[c].task = t
          /\ T.proc = "live" /\ T.pc = "over" /\ agent'[a].proc = t =>
               \E c \in Commands : Kills(c, t, {"waiting", "cancelled"})'
          /\ ~agent[a].hinted =>
               /\ T.proc = "live" => agent'[a].proc = t
               /\ T.interrupted => /\ T.pc \in {"telling", "turn", "reaping", "over"}
                                   /\ T.pc # "over" => agent'[a].status # "running"
      BY <1>4, <3>1 DEF CliFits, Turns, SettledTask
    <3>5. Alive(t)' <=> T.pc # "over"
      BY <3>1, <3>2 DEF Alive
    <3> QED
      BY <1>3, <2>2, <2>4, <3>1, <3>3, <3>4, <3>5 DEF SettledTask
  <2> QED
    BY <2>3, <2>4
<1>6. Settled(a)'
  <2>1. agent[a].task \in {0} \cup Tasks /\ agent[a].proc \in {0} \cup Tasks
    BY <1>1 DEF SInv, Typed, AgentRec
  <2>2. \A u \in Tasks : task[u].of = a => task'[u].of = a
    BY <1>2, <1>3
  <2>3. agent'[a].task # 0 => task'[agent'[a].task].of = a
    BY <1>1, <1>3, <2>1, <2>2 DEF Settled
  <2>4. agent'[a].proc # 0 => task'[agent'[a].proc].of = a
    BY <1>1, <1>3, <2>1, <2>2 DEF Settled, CliFits
  <2> QED
    BY <1>3, <1>5, <2>3, <2>4 DEF Settled
<1> QED
  BY <1>1, <1>6, ApartKeeps DEF Turns

LEMMA SdkTurn ==
  ASSUME SInv, SDK, NEW t \in Tasks, NEW a, NEW T \in TaskRec, Turns(t, a, T), SdkFits(t, a, T)
  PROVE  SInv'
<1>1. a \in Made /\ a \in Agents /\ a # 0 /\ CommandsFit /\ Apart(a) /\ Settled(a)
  BY TurnApart, AgentsSettled
<1>2. \A u \in Tasks : task'[u] = IF u = t THEN T ELSE task[u]
  BY DEF Turns, SInv, Typed
<1>3. SDK' /\ task[t].of = a /\ T.of = a /\ agent'[a].hinted = agent[a].hinted /\ agent'[a].task = agent[a].task
  BY DEF Turns, AgentsKept, SDK
<1>4. \A c \in Commands, u \in Tasks, pcs \in SUBSET {"waiting", "cancelled"} : Kills(c, u, pcs) => Kills(c, u, pcs)'
  BY <1>2, <1>3 DEF Turns, Kills
<1>5. SettledTask(t, a)
  BY <1>1, <1>3 DEF Settled
<1>6. SettledTask(t, a)'
  <2>1. task'[t] = T /\ T.kind \in {task[t].kind, "none"}
    BY <1>2 DEF Turns
  <2>2. Active(t)' /\ ~agent[a].hinted => OneAtWork(t, a)'
    <3>1. Active(t)' /\ ~agent[a].hinted => Active(t) /\ TurnFits(t, a)'
      BY <2>1 DEF SdkFits, Active
    <3>2. Active(t) /\ ~agent[a].hinted => \A u \in Tasks : Active(u)' /\ task'[u].of = a => u = t
      BY <1>2, <1>3, <1>5 DEF SettledTask, OneAtWork, Active
    <3> QED
      BY <3>1, <3>2 DEF OneAtWork
  <2>3. T.pc \in {"new", "launch", "telling"} /\ T.cancel # "no" =>
          \E c \in Commands : Kills(c, t, {"waiting"})' /\ command'[c].task = t
    BY <1>4, <1>5 DEF Turns, SettledTask
  <2>4. /\ T.kind = "hint" => agent'[a].hinted
        /\ T.proc = "none" /\ T.pc \notin {"telling", "reaping"}
        /\ T.interrupted => T.pc = "judge" /\ agent'[a].hinted
    BY <1>3, <1>5, <2>1 DEF SdkFits, SettledTask
  <2> QED
    BY <1>3, <2>1, <2>2, <2>3, <2>4 DEF SettledTask
<1>7. ASSUME NEW u \in Tasks, task'[u].of = a, u # t
      PROVE  SettledTask(u, a)'
  <2>1. task[u].of = a /\ SettledTask(u, a) /\ task'[u] = task[u]
    BY <1>1, <1>2, <1>7 DEF Settled
  <2>2. ASSUME Active(u)', ~agent[a].hinted
        PROVE  OneAtWork(u, a)'
    <3>1. Active(u) /\ OneAtWork(u, a)
      BY <1>3, <2>1, <2>2 DEF Active, SettledTask
    <3>2. ~Active(t)
      BY <1>3, <1>7, <3>1 DEF OneAtWork
    <3>3. /\ ~(T.pc \in {"new", "launch", "turn", "judge"})
          /\ work'[a] = work[a] /\ results'[a] = results[a]
          /\ agent'[a].client \in {agent[a].client, "closed"}
          /\ agent'[a].status = "running" => agent[a].status = "running"
      BY <2>2, <3>2 DEF SdkFits
    <3>4. TurnFits(u, a)'
      <4>1. TurnFits(u, a)
        BY <3>1 DEF OneAtWork
      <4> QED
        BY <2>1, <3>3, <4>1 DEF TurnFits, Runner, Idle, AtTurn
    <3>5. \A v \in Tasks : Active(v)' /\ task'[v].of = a => v = u
      BY <1>2, <1>3, <3>1, <3>3 DEF OneAtWork, Active
    <3> QED
      BY <3>4, <3>5 DEF OneAtWork
  <2>3. task'[u].pc \in {"new", "launch", "telling"} /\ task'[u].cancel # "no" =>
          \E c \in Commands : Kills(c, u, {"waiting"})' /\ command'[c].task = u
    <3>1. command' = command
      BY DEF Turns
    <3> QED
      BY <1>4, <2>1, <3>1 DEF SettledTask
  <2>4. /\ task'[u].kind = "hint" => agent'[a].hinted
        /\ task'[u].proc = "none" /\ task'[u].pc \notin {"telling", "reaping"}
        /\ task'[u].interrupted => task'[u].pc = "judge" /\ agent'[a].hinted
    BY <1>3, <2>1 DEF SettledTask
  <2> QED
    BY <1>3, <2>2, <2>3, <2>4 DEF SettledTask
<1>8. Settled(a)'
  <2>1. agent[a].task \in {0} \cup Tasks
    BY <1>1 DEF SInv, Typed, AgentRec
  <2>2. agent'[a].task # 0 => task'[agent'[a].task].of = a
    BY <1>1, <1>2, <1>3, <2>1 DEF Settled
  <2>3. agent'[a].proc = 0
    BY <1>1 DEF Settled, SdkFits
  <2> QED
    BY <1>6, <1>7, <2>2, <2>3 DEF Settled
<1> QED
  BY <1>1, <1>8, ApartKeeps DEF Turns

-----------------------------------------------------------------------------
(* The steps of a task.                                                     *)
LEMMA TaskFacts ==
  ASSUME SInv, NEW t \in Tasks, task[t].pc # "none"
  PROVE  /\ task[t].of \in Made /\ task[t].of \in Agents /\ task[t] \in TaskRec
         /\ agent[task[t].of] \in AgentRec /\ agent[task[t].of].status # "none"
         /\ SettledTask(t, task[t].of) /\ Settled(task[t].of)
<1>1. task[t].of \in Made /\ task[t].of \in Agents
  BY DEF SInv, Blank, Made
<1>2. Settled(task[t].of)
  BY <1>1, AgentsSettled
<1> QED
  BY <1>1, <1>2 DEF Settled, Made, SInv, Typed

LEMMA OverFacts ==
  ASSUME NEW T0, NEW t \in Tasks, T0[t] \in TaskRec
  PROVE  \E R \in TaskRec :
           /\ Over(T0, t) = [T0 EXCEPT ![t] = R]
           /\ R.of = T0[t].of /\ R.proc = T0[t].proc /\ R.pc = "over" /\ R.kind = "none"
           /\ R.cancel = "no" /\ ~R.interrupted
<1> DEFINE R == [NoTask EXCEPT !.of = T0[t].of, !.proc = T0[t].proc, !.pc = "over"]
<1>1. R \in TaskRec /\ R.of = T0[t].of /\ R.proc = T0[t].proc /\ R.pc = "over" /\ R.kind = "none"
      /\ R.cancel = "no" /\ ~R.interrupted
  BY DEF NoTask, TaskRec
<1>2. Over(T0, t) = [T0 EXCEPT ![t] = R]
  BY DEF Over
<1> QED
  BY <1>1, <1>2

LEMMA NothingKept ==
  ASSUME SInv, NEW a \in Made
  PROVE  /\ UNCHANGED agent => AgentsKept(a)
         /\ UNCHANGED <<work, results>> => WorkKept(a)
BY DEF SInv, Typed, Made, AgentsKept, WorkKept

(* A query is added.                                                        *)
LEMMA Queried ==
  ASSUME SInv, NEW a \in Agents, work' = [work EXCEPT ![a] = Append(@, FALSE)], results' = results
  PROVE  WorkKept(a) /\ work'[a] = Append(work[a], FALSE) /\ work'[a] # <<>>
<1>1. work[a] \in Seq(BOOLEAN) /\ work \in [Agents -> Seq(BOOLEAN)] /\ results \in [Agents -> Seq(BOOLEAN)]
  BY DEF SInv, Typed
<1>2. Append(work[a], FALSE) \in Seq(BOOLEAN) /\ Append(work[a], FALSE) # <<>>
  <2>1. Append(work[a], FALSE) \in Seq(BOOLEAN)
    BY <1>1
  <2>2. Len(Append(work[a], FALSE)) = Len(work[a]) + 1 /\ Len(work[a]) \in Nat /\ Len(<<>>) = 0
    BY <1>1
  <2>3. Len(work[a]) + 1 # 0
    BY <2>2
  <2> QED
    BY <2>1, <2>2, <2>3, Zenon
<1> QED
  BY <1>1, <1>2 DEF WorkKept

LEMMA OneQueryIsOne ==
  /\ Append(<<>>, FALSE) = <<FALSE>>
  /\ Len(<<FALSE>>) = 1 /\ Len(<<>>) = 0 /\ ~Marked(<<FALSE>>) /\ ~Marked(<<>>)
<1>1. Append(<<>>, FALSE) = <<FALSE>> /\ Len(<<FALSE>>) = 1 /\ <<FALSE>>[1] = FALSE
  OBVIOUS
<1>2. Len(<<>>) = 0
  OBVIOUS
<1>3. ~Marked(<<>>)
  BY <1>2 DEF Marked
<1>4. ASSUME NEW q, Len(q) = 1, q[1] = FALSE
      PROVE  ~Marked(q)
  BY <1>4 DEF Marked
<1> QED
  BY <1>1, <1>2, <1>3, <1>4

LEMMA TaskBeginsKeeps ==
  ASSUME SInv, NEW t \in Tasks, TaskBegins(t)
  PROVE  SInv'
<1>1. PICK a : a = task[t].of
  OBVIOUS
<1>2. /\ task[t].pc = "new" /\ task[t].cancel = "no"
      /\ UNCHANGED <<harness, work, results, command>>
  BY DEF TaskBegins, Is
<1>3. /\ a \in Made /\ a \in Agents /\ task[t] \in TaskRec
      /\ agent[a] \in AgentRec /\ agent[a].status # "none" /\ SettledTask(t, a)
  BY <1>1, <1>2, TaskFacts
<1> DEFINE T == [task[t] EXCEPT !.pc = IF SDK /\ ~Runner(t) THEN "turn" ELSE "launch"]
<1>4. /\ T \in TaskRec /\ T.of = a /\ T.kind = task[t].kind /\ T.cancel = "no"
      /\ T.proc = task[t].proc /\ T.interrupted = task[t].interrupted
      /\ T.pc = IF SDK /\ ~Runner(t) THEN "turn" ELSE "launch"
  BY <1>1, <1>2, <1>3 DEF TaskRec
<1>5. task' = [task EXCEPT ![t] = T]
  BY DEF TaskBegins, SInv, Typed
<1> HIDE DEF T
<1>6. AgentsKept(a)
  BY <1>1, <1>3 DEF TaskBegins, AgentsKept, AgentRec, SInv, Typed
<1>7. Turns(t, a, T)
  BY <1>1, <1>2, <1>3, <1>4, <1>5, <1>6, NothingKept DEF Turns
<1>8. CASE SDK
  <2>1. \/ /\ agent'[a].proc = agent[a].proc /\ agent'[a].status = agent[a].status
           /\ agent'[a].client # "closed"
        \/ UNCHANGED agent
    BY <1>1, <1>3 DEF TaskBegins, AgentRec, SInv, Typed
  <2>2. ~agent[a].hinted => OneAtWork(t, a)
    BY <1>2, <1>3, <1>8 DEF SettledTask, Active
  <2>3. task'[t] = T
    BY <1>5 DEF SInv, Typed
  <2>4. ~agent[a].hinted => TurnFits(t, a)'
    <3>1. CASE ~Runner(t)
      <4>1. UNCHANGED agent
        BY <1>8, <3>1 DEF TaskBegins
      <4>2. T.pc = "turn" /\ AtTurn(t)
        BY <1>2, <1>4, <1>8, <3>1 DEF AtTurn
      <4> QED
        BY <1>2, <1>4, <2>2, <2>3, <3>1, <4>1, <4>2 DEF OneAtWork, TurnFits, AtTurn, Runner, Idle
    <3>2. CASE Runner(t)
      BY <1>2, <1>4, <2>2, <2>3, <3>2 DEF OneAtWork, TurnFits, AtTurn, Runner, Idle
    <3> QED
      BY <3>1, <3>2
  <2>5. SdkFits(t, a, T)
    BY <1>2, <1>3, <1>4, <1>8, <2>1, <2>4 DEF SdkFits, SettledTask, Active
  <2> QED
    BY <1>4, <1>7, <1>8, <2>5, SdkTurn
<1>9. CASE ~SDK
  <2>1. UNCHANGED agent
    BY <1>9 DEF TaskBegins
  <2>2. CliFits(t, a, T)
    BY <1>2, <1>3, <1>4, <1>9, <2>1 DEF CliFits, SettledTask
  <2> QED
    BY <1>4, <1>7, <1>9, <2>2, CliTurn
<1> QED
  BY <1>8, <1>9

LEMMA LaunchedKeeps ==
  ASSUME SInv, NEW t \in Tasks, Launched(t)
  PROVE  SInv'
<1>1. PICK a : a = task[t].of
  OBVIOUS
<1>2. /\ task[t].pc = "launch" /\ task[t].cancel = "no"
      /\ UNCHANGED <<harness, results, command>>
  BY DEF Launched, Is
<1>3. /\ a \in Made /\ a \in Agents /\ task[t] \in TaskRec
      /\ agent[a] \in AgentRec /\ agent[a].status # "none" /\ SettledTask(t, a)
  BY <1>1, <1>2, TaskFacts
<1> DEFINE T == [task[t] EXCEPT !.pc = IF SDK THEN "turn" ELSE "telling", !.proc = IF SDK THEN "none" ELSE "live"]
<1>4. /\ T \in TaskRec /\ T.of = a /\ T.kind = task[t].kind /\ T.cancel = "no"
      /\ T.proc = (IF SDK THEN "none" ELSE "live") /\ T.interrupted = task[t].interrupted
      /\ T.pc = IF SDK THEN "turn" ELSE "telling"
  BY <1>1, <1>2, <1>3 DEF TaskRec
<1>5. task' = [task EXCEPT ![t] = T]
  BY DEF Launched, SInv, Typed
<1> HIDE DEF T
<1>6. /\ AgentsKept(a)
      /\ agent'[a].proc = IF SDK THEN 0 ELSE t
      /\ agent'[a].client = IF SDK THEN "open" ELSE agent[a].client
  BY <1>1, <1>3 DEF Launched, AgentsKept, AgentRec, Statuses, SInv, Typed
<1>7. WorkKept(a) /\ (SDK => work'[a] = Append(work[a], FALSE))
  <2>1. CASE SDK
    <3>1. work' = [work EXCEPT ![a] = Append(@, FALSE)]
      BY <1>1, <2>1 DEF Launched
    <3> QED
      BY <1>2, <1>3, <3>1, Queried
  <2>2. CASE ~SDK
    BY <1>2, <1>3, <2>2, NothingKept DEF Launched
  <2> QED
    BY <2>1, <2>2
<1>8. Turns(t, a, T)
  BY <1>1, <1>2, <1>3, <1>4, <1>5, <1>6, <1>7 DEF Turns
<1>9. CASE SDK
  <2>1. ~agent[a].hinted => OneAtWork(t, a)
    BY <1>2, <1>3, <1>9 DEF SettledTask, Active
  <2>2. task'[t] = T
    BY <1>5 DEF SInv, Typed
  <2>3. ~agent[a].hinted => work'[a] = <<FALSE>> /\ results'[a] = <<>>
    <3>1. ~agent[a].hinted => Idle(a)
      BY <1>2, <2>1 DEF OneAtWork, TurnFits
    <3> QED
      BY <1>2, <1>7, <1>9, <3>1, OneQueryIsOne DEF Idle
  <2>4. ~agent[a].hinted => TurnFits(t, a)'
    <3>1. ~agent[a].hinted =>
            Len(work'[a]) + Len(results'[a]) <= 1 /\ ~Marked(work'[a]) /\ ~Marked(results'[a])
      <4>1. Len(<<FALSE>>) + Len(<<>>) <= 1
        BY OneQueryIsOne
      <4> QED
        BY <2>3, <4>1, OneQueryIsOne
    <3> QED
      BY <1>4, <1>9, <2>2, <3>1 DEF TurnFits, AtTurn
  <2>5. agent[a].proc = 0
    BY <1>1, <1>2, <1>9, TaskFacts DEF Settled
  <2>6. SdkFits(t, a, T)
    BY <1>2, <1>3, <1>4, <1>6, <1>9, <2>4, <2>5 DEF SdkFits, SettledTask, Active
  <2> QED
    BY <1>4, <1>8, <1>9, <2>6, SdkTurn
<1>10. CASE ~SDK
  <2>1. ~agent[a].hinted => ~task[t].interrupted
    BY <1>2, <1>3, <1>10 DEF SettledTask
  <2>2. CliFits(t, a, T)
    BY <1>2, <1>3, <1>4, <1>6, <1>10, <2>1 DEF CliFits
  <2> QED
    BY <1>4, <1>8, <1>10, <2>2, CliTurn
<1> QED
  BY <1>9, <1>10

LEMMA LaunchFailsKeeps ==
  ASSUME SInv, NEW t \in Tasks, LaunchFails(t)
  PROVE  SInv'
<1>1. PICK a : a = task[t].of
  OBVIOUS
<1>2. /\ task[t].pc = "launch" /\ task[t].cancel = "no" /\ task' = Over(task, t)
      /\ UNCHANGED <<harness, work, results, command>>
  BY DEF LaunchFails, Is
<1>3. /\ a \in Made /\ a \in Agents /\ task[t] \in TaskRec
      /\ agent[a] \in AgentRec /\ agent[a].status # "none" /\ SettledTask(t, a)
  BY <1>1, <1>2, TaskFacts
<1>4. PICK T \in TaskRec :
        /\ task' = [task EXCEPT ![t] = T] /\ T.of = a /\ T.proc = task[t].proc /\ T.pc = "over"
        /\ T.kind = "none" /\ T.cancel = "no" /\ ~T.interrupted
  BY <1>1, <1>2, <1>3, OverFacts
<1>5. AgentsKept(a) /\ agent'[a].proc = agent[a].proc
  BY <1>1, <1>3 DEF LaunchFails, AgentsKept, AgentRec, Statuses, SInv, Typed
<1>6. Turns(t, a, T)
  BY <1>1, <1>2, <1>3, <1>4, <1>5, NothingKept DEF Turns
<1>7. SDK => SdkFits(t, a, T)
  BY <1>2, <1>3, <1>4, <1>5 DEF SdkFits, SettledTask, Active
<1>8. ~SDK => CliFits(t, a, T)
  BY <1>2, <1>3, <1>4, <1>5 DEF CliFits, SettledTask
<1> QED
  BY <1>6, <1>7, <1>8, CliTurn, SdkTurn

LEMMA ToldKeeps ==
  ASSUME SInv, NEW t \in Tasks, Told(t)
  PROVE  SInv'
<1>1. PICK a : a = task[t].of
  OBVIOUS
<1>2. /\ task[t].pc = "telling" /\ task[t].cancel = "no"
      /\ UNCHANGED <<harness, agent, work, results, command>>
  BY DEF Told, Is
<1>3. a \in Made /\ task[t] \in TaskRec /\ SettledTask(t, a)
  BY <1>1, <1>2, TaskFacts
<1> DEFINE T == [task[t] EXCEPT !.pc = "turn"]
<1>4. /\ T \in TaskRec /\ T.of = a /\ T.kind = task[t].kind /\ T.cancel = "no"
      /\ T.proc = task[t].proc /\ T.interrupted = task[t].interrupted /\ T.pc = "turn"
  BY <1>1, <1>2, <1>3 DEF TaskRec
<1>5. task' = [task EXCEPT ![t] = T]
  BY DEF Told, SInv, Typed
<1> HIDE DEF T
<1>6. Turns(t, a, T)
  BY <1>1, <1>2, <1>3, <1>4, <1>5, NothingKept DEF Turns
<1>7. ~SDK
  BY <1>2, <1>3 DEF SettledTask
<1>8. CliFits(t, a, T)
  BY <1>2, <1>3, <1>4, <1>7 DEF CliFits, SettledTask
<1> QED
  BY <1>4, <1>6, <1>7, <1>8, CliTurn

LEMMA ProcExitsKeeps ==
  ASSUME SInv, NEW t \in Tasks, ProcExits(t)
  PROVE  SInv'
<1>1. PICK a : a = task[t].of
  OBVIOUS
<1>2. /\ task[t].proc \in {"live", "signalled"} /\ task[t].pc # "none"
      /\ UNCHANGED <<harness, agent, work, results, command>>
  BY DEF ProcExits, SInv, Blank, NoTask
<1>3. a \in Made /\ task[t] \in TaskRec /\ SettledTask(t, a)
  BY <1>1, <1>2, TaskFacts
<1> DEFINE T == [task[t] EXCEPT !.proc = "dead"]
<1>4. /\ T \in TaskRec /\ T.of = a /\ T.kind = task[t].kind /\ T.cancel = task[t].cancel
      /\ T.proc = "dead" /\ T.interrupted = task[t].interrupted /\ T.pc = task[t].pc
  BY <1>1, <1>2, <1>3 DEF TaskRec
<1>5. task' = [task EXCEPT ![t] = T]
  BY DEF ProcExits, SInv, Typed
<1> HIDE DEF T
<1>6. Turns(t, a, T)
  BY <1>1, <1>2, <1>3, <1>4, <1>5, NothingKept DEF Turns
<1>7. ~SDK
  BY <1>2, <1>3 DEF SettledTask
<1>8. CliFits(t, a, T)
  BY <1>2, <1>3, <1>4, <1>7 DEF CliFits, SettledTask
<1> QED
  BY <1>4, <1>6, <1>7, <1>8, CliTurn

LEMMA FourHoursKeeps ==
  ASSUME SInv, NEW t \in Tasks, FourHours(t)
  PROVE  SInv'
<1>1. PICK a : a = task[t].of
  OBVIOUS
<1>2. /\ task[t].pc \in {"turn", "judge", "rest"}
      /\ UNCHANGED <<harness, agent, work, results, command>>
  BY DEF FourHours
<1>3. a \in Made /\ task[t] \in TaskRec /\ SettledTask(t, a)
  BY <1>1, <1>2, TaskFacts
<1> DEFINE T == [task[t] EXCEPT !.cancel = "timeout"]
<1>4. /\ T \in TaskRec /\ T.of = a /\ T.kind = task[t].kind /\ T.cancel = "timeout"
      /\ T.proc = task[t].proc /\ T.interrupted = task[t].interrupted /\ T.pc = task[t].pc
  BY <1>1, <1>2, <1>3 DEF TaskRec
<1>5. task' = [task EXCEPT ![t] = T] /\ task'[t] = T
  BY DEF FourHours, SInv, Typed
<1> HIDE DEF T
<1>6. Turns(t, a, T)
  BY <1>1, <1>2, <1>3, <1>4, <1>5, NothingKept DEF Turns
<1>7. SDK => SdkFits(t, a, T)
  <2>1. SDK /\ Active(t) /\ ~agent[a].hinted => TurnFits(t, a)
    BY <1>3 DEF SettledTask, OneAtWork
  <2>2. TurnFits(t, a) => TurnFits(t, a)'
    BY <1>2, <1>4, <1>5 DEF TurnFits, Runner, AtTurn, Idle
  <2> QED
    BY <1>2, <1>3, <1>4, <2>1, <2>2 DEF SdkFits, SettledTask, Active
<1>8. ~SDK => CliFits(t, a, T)
  BY <1>2, <1>3, <1>4 DEF CliFits, SettledTask
<1> QED
  BY <1>4, <1>6, <1>7, <1>8, CliTurn, SdkTurn

LEMMA RestEndsKeeps ==
  ASSUME SInv, NEW t \in Tasks, RestEnds(t)
  PROVE  SInv'
<1>1. PICK a : a = task[t].of
  OBVIOUS
<1>2. /\ task[t].pc = "rest" /\ task' = Over(task, t)
      /\ UNCHANGED <<harness, work, results, command>>
  BY DEF RestEnds, Is
<1>3. /\ a \in Made /\ a \in Agents /\ task[t] \in TaskRec
      /\ agent[a] \in AgentRec /\ agent[a].status # "none" /\ SettledTask(t, a)
  BY <1>1, <1>2, TaskFacts
<1>4. PICK T \in TaskRec :
        /\ task' = [task EXCEPT ![t] = T] /\ T.of = a /\ T.proc = task[t].proc /\ T.pc = "over"
        /\ T.kind = "none" /\ T.cancel = "no" /\ ~T.interrupted
  BY <1>1, <1>2, <1>3, OverFacts
<1>5. /\ AgentsKept(a) /\ agent'[a].proc = agent[a].proc
      /\ agent'[a].client = "closed" /\ agent'[a].status = agent[a].status
  BY <1>1, <1>3 DEF RestEnds, AgentsKept, AgentRec, Statuses, SInv, Typed
<1>6. Turns(t, a, T)
  BY <1>1, <1>2, <1>3, <1>4, <1>5, NothingKept DEF Turns
<1>7. SDK
  BY <1>2, <1>3 DEF SettledTask
<1>8. SdkFits(t, a, T)
  BY <1>2, <1>3, <1>4, <1>5, <1>7 DEF SdkFits, SettledTask, Active
<1> QED
  BY <1>6, <1>7, <1>8, SdkTurn

(* The end of a turn: T0 is the tasks once its result is known.             *)
Ended(t, T0) ==
  /\ T0 \in [Tasks -> TaskRec] /\ \A u \in Tasks \ {t} : T0[u] = task[u]
  /\ T0[t].of = task[t].of /\ T0[t].kind = task[t].kind /\ T0[t].pc = task[t].pc
  /\ T0[t].cancel = task[t].cancel /\ T0[t].proc = task[t].proc

Resting(A) ==
  /\ A \in [Agents -> AgentRec]
  /\ \A b \in Agents : A[b] = agent[b] \/ (b \in Made /\ A[b] = [agent[b] EXCEPT !.exit = TRUE])

LEMMA AgentsRest ==
  ASSUME SInv
  PROVE  Resting(agent) /\ \A S \in SUBSET Made : Resting(Released(S))
<1>1. \A b \in Agents : agent[b] \in AgentRec
  BY DEF SInv, Typed
<1>2. \A b \in Agents : [agent[b] EXCEPT !.exit = TRUE] \in AgentRec
  BY <1>1 DEF AgentRec
<1>3. Resting(agent)
  BY DEF Resting, SInv, Typed
<1>4. ASSUME NEW S \in SUBSET Made
      PROVE  Resting(Released(S))
  <2>1. \A b \in Agents : Released(S)[b] = IF b \in S THEN [agent[b] EXCEPT !.exit = TRUE] ELSE agent[b]
    BY DEF Released
  <2>2. Released(S) \in [Agents -> AgentRec]
    BY <1>1, <1>2 DEF Released
  <2> QED
    BY <2>1, <2>2 DEF Resting
<1> QED
  BY <1>3, <1>4

LEMMA LeavesKeeps ==
  ASSUME SInv, NEW t \in Tasks, task[t].pc \in {"turn", "judge"}, task[t].proc # "live",
         NEW T0, Ended(t, T0), NEW A, Resting(A), NEW st \in Statuses \ {"none"},
         Leaves(t, T0, A, st), UNCHANGED <<harness, command>>, WorkKept(task[t].of)
  PROVE  SInv'
<1>1. PICK a : a = task[t].of
  OBVIOUS
<1>2. /\ a \in Made /\ a \in Agents /\ task[t] \in TaskRec
      /\ agent[a] \in AgentRec /\ agent[a].status # "none" /\ SettledTask(t, a)
  BY <1>1, TaskFacts
<1>3. T0[t] \in TaskRec
  BY DEF Ended
<1>4. PICK T \in TaskRec :
        /\ task' = [task EXCEPT ![t] = T] /\ T.of = a /\ T.proc = task[t].proc
        /\ T.pc = "over" \/ (T.pc = "rest" /\ SDK)
        /\ T.kind \in {task[t].kind, "none"} /\ ~T.interrupted
  <2>1. \A X : [T0 EXCEPT ![t] = X] = [task EXCEPT ![t] = X]
    BY DEF Ended, SInv, Typed
  <2>2. CASE task' = Over(T0, t)
    <3>1. PICK R \in TaskRec :
            /\ Over(T0, t) = [T0 EXCEPT ![t] = R]
            /\ R.of = T0[t].of /\ R.proc = T0[t].proc /\ R.pc = "over" /\ R.kind = "none"
            /\ R.cancel = "no" /\ ~R.interrupted
      BY <1>3, OverFacts
    <3>2. task' = [task EXCEPT ![t] = R]
      BY <2>1, <2>2, <3>1
    <3>3. T0[t].of = a /\ T0[t].proc = task[t].proc
      BY <1>1 DEF Ended
    <3> QED
      BY <3>1, <3>2, <3>3
  <2>3. CASE task' = [T0 EXCEPT ![t].pc = "rest", ![t].interrupted = FALSE] /\ SDK
    <3> DEFINE T == [T0[t] EXCEPT !.pc = "rest", !.interrupted = FALSE]
    <3>1. /\ T \in TaskRec /\ T.of = T0[t].of /\ T.proc = T0[t].proc /\ T.pc = "rest"
          /\ T.kind = T0[t].kind /\ ~T.interrupted
      BY <1>3 DEF TaskRec
    <3>2. task' = [T0 EXCEPT ![t] = T]
      BY <2>3 DEF Ended
    <3> HIDE DEF T
    <3> QED
      BY <1>1, <2>1, <2>3, <3>1, <3>2 DEF Ended
  <2> QED
    BY <2>2, <2>3 DEF Leaves
<1>5. AgentsKept(a) /\ agent'[a].proc = agent[a].proc
  <2>1. /\ A[a] \in AgentRec /\ A[a].proc = agent[a].proc /\ A[a].hinted = agent[a].hinted
        /\ A[a].task = agent[a].task
    <3>1. A[a] \in AgentRec /\ (A[a] = agent[a] \/ A[a] = [agent[a] EXCEPT !.exit = TRUE])
      BY <1>2 DEF Resting
    <3> QED
      BY <1>2, <3>1 DEF AgentRec
  <2>2. PICK cl \in {A[a].client, "closed"} : agent' = [A EXCEPT ![a].status = st, ![a].client = cl]
    BY <1>1 DEF Leaves
  <2>3. cl \in {"none", "made", "open", "closed"}
    BY <2>1, <2>2 DEF AgentRec
  <2>4. agent' \in [Agents -> AgentRec]
    BY <1>2, <2>2, <2>3 DEF Resting, AgentRec
  <2>5. /\ agent'[a].status = st /\ agent'[a].hinted = A[a].hinted
        /\ agent'[a].task = A[a].task /\ agent'[a].proc = A[a].proc
    BY <1>2, <2>1, <2>2 DEF Resting, AgentRec
  <2>6. \A b \in Agents \ {a} : agent'[b] = A[b]
    BY <2>2 DEF Resting
  <2> QED
    BY <2>1, <2>4, <2>5, <2>6 DEF AgentsKept, Resting
<1>6. Turns(t, a, T)
  BY <1>1, <1>2, <1>4, <1>5 DEF Turns
<1>7. SDK => SdkFits(t, a, T)
  BY <1>2, <1>4, <1>5 DEF SdkFits, SettledTask, Active
<1>8. ~SDK => CliFits(t, a, T)
  BY <1>2, <1>4, <1>5 DEF CliFits, SettledTask
<1> QED
  BY <1>6, <1>7, <1>8, CliTurn, SdkTurn

(* The turn is over and evaluated.                                          *)
LEMMA JudgeKeeps ==
  ASSUME SInv, NEW t \in Tasks, task[t].pc = "turn", NEW a, a = task[t].of,
         NEW T0, Ended(t, T0), task' = [T0 EXCEPT ![t].pc = "judge"],
         agent' = [agent EXCEPT ![a].status = "done"],
         UNCHANGED <<harness, command>>, WorkKept(a),
         ~SDK => task[t].proc = "dead",
         T0[t].interrupted => agent[a].hinted,
         SDK /\ ~agent[a].hinted /\ agent[a].client # "closed" => work'[a] = <<>> /\ results'[a] = <<>>
  PROVE  SInv'
<1>1. /\ a \in Made /\ a \in Agents /\ task[t] \in TaskRec
      /\ agent[a] \in AgentRec /\ agent[a].status # "none" /\ SettledTask(t, a)
  BY TaskFacts
<1>2. T0[t] \in TaskRec
  BY DEF Ended
<1> DEFINE T == [T0[t] EXCEPT !.pc = "judge"]
<1>3. /\ T \in TaskRec /\ T.of = a /\ T.kind = task[t].kind /\ T.cancel = task[t].cancel
      /\ T.proc = task[t].proc /\ T.interrupted = T0[t].interrupted /\ T.pc = "judge"
  BY <1>2 DEF TaskRec, Ended
<1>4. task' = [task EXCEPT ![t] = T] /\ task'[t] = T
  BY DEF Ended, SInv, Typed
<1> HIDE DEF T
<1>5. /\ AgentsKept(a) /\ agent'[a].proc = agent[a].proc /\ agent'[a].client = agent[a].client
  BY <1>1 DEF AgentsKept, AgentRec, Statuses, SInv, Typed
<1>6. Turns(t, a, T)
  BY <1>1, <1>3, <1>4, <1>5 DEF Turns
<1>7. SDK => SdkFits(t, a, T)
  <2>1. SDK /\ ~agent[a].hinted => TurnFits(t, a)'
    BY <1>3, <1>4, <1>5 DEF TurnFits, AtTurn, Idle
  <2> QED
    BY <1>1, <1>3, <1>5, <2>1 DEF SdkFits, SettledTask, Active
<1>8. ~SDK => CliFits(t, a, T)
  BY <1>1, <1>3, <1>5 DEF CliFits, SettledTask
<1> QED
  BY <1>3, <1>6, <1>7, <1>8, CliTurn, SdkTurn

LEMMA ResolveKeeps ==
  ASSUME SInv, NEW t \in Tasks, task[t].pc = "turn", NEW a, a = task[t].of,
         NEW T0, Ended(t, T0), Resolve(t, T0, agent[a].status),
         UNCHANGED <<harness, command>>, WorkKept(a), task[t].proc # "live",
         ~SDK => task[t].proc = "dead",
         agent[a].status = "running" /\ T0[t].interrupted => agent[a].hinted,
         SDK /\ ~agent[a].hinted /\ agent[a].client # "closed" => work'[a] = <<>> /\ results'[a] = <<>>
  PROVE  SInv'
<1>1. agent[a] \in AgentRec /\ agent[a].status # "none"
  BY TaskFacts
<1>2. agent[a].status \in Statuses \ {"none"} /\ "confirmed_done" \in Statuses \ {"none"}
  BY <1>1 DEF AgentRec, Statuses
<1>3. CASE Leaves(t, T0, agent, agent[a].status) \/ Leaves(t, T0, agent, "confirmed_done")
  BY <1>2, <1>3, AgentsRest, LeavesKeeps
<1>4. CASE agent[a].status = "running" /\ task' = [T0 EXCEPT ![t].pc = "judge"]
           /\ agent' = [agent EXCEPT ![a].status = "done"]
  BY <1>4, JudgeKeeps
<1> QED
  BY <1>3, <1>4 DEF Resolve

LEMMA HeadAndTail ==
  ASSUME NEW q \in Seq(BOOLEAN), q # <<>>
  PROVE  /\ Head(q) \in BOOLEAN /\ Tail(q) \in Seq(BOOLEAN)
         /\ Len(Tail(q)) = Len(q) - 1 /\ Len(q) >= 1
         /\ Head(q) = q[1]
<1>1. Head(q) \in BOOLEAN /\ Tail(q) \in Seq(BOOLEAN) /\ Len(Tail(q)) = Len(q) - 1
  BY HeadTailProperties
<1>2. Len(q) \in Nat /\ Len(q) # 0
  BY EmptySeq
<1> QED
  BY <1>1, <1>2

LEMMA AppendAt ==
  ASSUME NEW q \in Seq(BOOLEAN), NEW x \in BOOLEAN
  PROVE  /\ Append(q, x) \in Seq(BOOLEAN) /\ Len(Append(q, x)) = Len(q) + 1
         /\ \A i \in 1..(Len(q) + 1) : Append(q, x)[i] = IF i \in 1..Len(q) THEN q[i] ELSE x
<1>1. Append(q, x) \in Seq(BOOLEAN) /\ Len(Append(q, x)) = Len(q) + 1 /\ Len(q) \in Nat
  OBVIOUS
<1>2. \A i \in 1..Len(q) : Append(q, x)[i] = q[i]
  BY AppendProperties
<1>3. Append(q, x)[Len(q) + 1] = x
  BY AppendProperties
<1> QED
  BY <1>1, <1>2, <1>3

LEMMA ResultReceivedKeeps ==
  ASSUME SInv, NEW t \in Tasks, ResultReceived(t)
  PROVE  SInv'
<1>1. PICK a : a = task[t].of
  OBVIOUS
<1> DEFINE T0 == [task EXCEPT ![t].interrupted = Head(results[a])]
<1>2. /\ SDK /\ task[t].pc = "turn" /\ results[a] # <<>> /\ UNCHANGED <<harness, work, command>>
      /\ results' = [results EXCEPT ![a] = Tail(@)]
  BY <1>1 DEF ResultReceived, Is
<1>3. /\ a \in Made /\ a \in Agents /\ task[t] \in TaskRec
      /\ agent[a] \in AgentRec /\ agent[a].status # "none" /\ SettledTask(t, a)
  BY <1>1, <1>2, TaskFacts
<1>4. results[a] \in Seq(BOOLEAN) /\ work[a] \in Seq(BOOLEAN)
  BY <1>3 DEF SInv, Typed
<1>5. /\ Head(results[a]) \in BOOLEAN /\ Tail(results[a]) \in Seq(BOOLEAN)
      /\ Len(Tail(results[a])) = Len(results[a]) - 1 /\ Len(results[a]) >= 1
      /\ Head(results[a]) = results[a][1]
  BY <1>2, <1>4, HeadAndTail
<1>6. Ended(t, T0) /\ T0[t].interrupted = Head(results[a])
  BY <1>3, <1>5 DEF Ended, TaskRec, SInv, Typed
<1>7. WorkKept(a) /\ results'[a] = Tail(results[a]) /\ work'[a] = work[a]
  BY <1>2, <1>3, <1>5 DEF WorkKept, SInv, Typed
<1>8. task[t].proc = "none"
  BY <1>2, <1>3 DEF SettledTask
<1>9. CASE Leaves(t, T0, agent, "stopped") \/ Leaves(t, T0, agent, "error")
  <2>1. "stopped" \in Statuses \ {"none"} /\ "error" \in Statuses \ {"none"}
    BY DEF Statuses
  <2> HIDE DEF T0
  <2> QED
    BY <1>1, <1>2, <1>6, <1>7, <1>8, <1>9, <2>1, AgentsRest, LeavesKeeps
<1>10. CASE Resolve(t, T0, agent[a].status)
  <2>1. ~agent[a].hinted => TurnFits(t, a)
    BY <1>2, <1>3 DEF SettledTask, OneAtWork, Active
  <2>2. agent[a].status = "running" /\ T0[t].interrupted => agent[a].hinted
    <3>1. T0[t].interrupted => Marked(results[a])
      BY <1>4, <1>5, <1>6 DEF Marked
    <3> HIDE DEF T0
    <3> QED
      BY <1>2, <2>1, <3>1 DEF TurnFits, AtTurn
  <2>3. ~agent[a].hinted /\ agent[a].client # "closed" => work'[a] = <<>> /\ results'[a] = <<>>
    <3>1. ~agent[a].hinted /\ agent[a].client # "closed" => Len(work[a]) + Len(results[a]) <= 1
      BY <1>2, <2>1 DEF TurnFits, AtTurn
    <3>2. Len(work[a]) \in Nat /\ Len(results[a]) \in Nat
      BY <1>4
    <3>3. ~agent[a].hinted /\ agent[a].client # "closed" => Len(work[a]) = 0 /\ Len(Tail(results[a])) = 0
      <4>1. \A m, n, k \in Nat : m + n <= 1 /\ n >= 1 /\ k = n - 1 => m = 0 /\ k = 0
        OBVIOUS
      <4>2. Len(Tail(results[a])) \in Nat
        BY <1>5
      <4> QED
        BY <1>5, <3>1, <3>2, <4>1, <4>2
    <3>4. \A q \in Seq(BOOLEAN) : Len(q) = 0 => q = <<>>
      OBVIOUS
    <3> QED
      BY <1>4, <1>5, <1>7, <3>3, <3>4
  <2> HIDE DEF T0
  <2> QED
    BY <1>1, <1>2, <1>6, <1>7, <1>8, <1>10, <2>2, <2>3, ResolveKeeps
<1> QED
  BY <1>1, <1>9, <1>10 DEF ResultReceived

LEMMA NothingEnded ==
  ASSUME SInv, NEW t \in Tasks
  PROVE  Ended(t, task)
BY DEF Ended, SInv, Typed

LEMMA NoResultKeeps ==
  ASSUME SInv, NEW t \in Tasks, NoResult(t)
  PROVE  SInv'
<1>1. PICK a : a = task[t].of
  OBVIOUS
<1>2. /\ SDK /\ task[t].pc = "turn" /\ UNCHANGED <<harness, work, results, command>>
  BY <1>1 DEF NoResult, Is
<1>3. /\ a \in Made /\ agent[a] \in AgentRec /\ agent[a].status # "none" /\ SettledTask(t, a)
  BY <1>1, <1>2, TaskFacts
<1>4. task[t].proc = "none" /\ ~task[t].interrupted
  BY <1>2, <1>3 DEF SettledTask
<1>5. WorkKept(a) /\ Ended(t, task)
  BY <1>2, <1>3, NothingKept, NothingEnded
<1>6. CASE \E st \in {"error", "stopped", agent[a].status} : Leaves(t, task, agent, st)
  <2>1. {"error", "stopped", agent[a].status} \subseteq Statuses \ {"none"}
    BY <1>3 DEF Statuses, AgentRec
  <2> QED
    BY <1>1, <1>2, <1>4, <1>5, <1>6, <2>1, AgentsRest, LeavesKeeps
<1>7. CASE agent[a].client = "closed" /\ Resolve(t, task, agent[a].status)
  BY <1>1, <1>2, <1>4, <1>5, <1>7, ResolveKeeps
<1> QED
  BY <1>1, <1>6, <1>7 DEF NoResult

LEMMA SubprocessOverKeeps ==
  ASSUME SInv, NEW t \in Tasks, SubprocessOver(t)
  PROVE  SInv'
<1>1. PICK a : a = task[t].of
  OBVIOUS
<1>2. /\ task[t].pc = "turn" /\ task[t].proc = "dead" /\ UNCHANGED <<harness, work, results, command>>
  BY <1>1 DEF SubprocessOver, Is
<1>3. /\ a \in Made /\ agent[a] \in AgentRec /\ agent[a].status # "none" /\ SettledTask(t, a)
  BY <1>1, <1>2, TaskFacts
<1>4. ~SDK /\ (task[t].interrupted /\ ~agent[a].hinted => agent[a].status # "running")
  BY <1>2, <1>3 DEF SettledTask
<1>5. WorkKept(a) /\ Ended(t, task)
  BY <1>2, <1>3, NothingKept, NothingEnded
<1>6. CASE Leaves(t, task, agent, "error")
  <2>1. "error" \in Statuses \ {"none"}
    BY DEF Statuses
  <2> QED
    BY <1>1, <1>2, <1>5, <1>6, <2>1, AgentsRest, LeavesKeeps
<1>7. CASE Resolve(t, task, agent[a].status)
  BY <1>1, <1>2, <1>4, <1>5, <1>7, ResolveKeeps
<1> QED
  BY <1>1, <1>6, <1>7 DEF SubprocessOver

LEMMA WorkEndsKeeps ==
  ASSUME SInv, NEW a \in Agents, WorkEnds(a)
  PROVE  SInv'
<1>1. /\ agent[a].client = "open" /\ work[a] # <<>> /\ UNCHANGED <<harness, agent, task, command>>
      /\ results' = [results EXCEPT ![a] = Append(@, Head(work[a]))]
      /\ work' = [work EXCEPT ![a] = Tail(@)]
  BY DEF WorkEnds
<1>2. a \in Made
  BY <1>1 DEF SInv, Blank
<1>3. results[a] \in Seq(BOOLEAN) /\ work[a] \in Seq(BOOLEAN)
  BY DEF SInv, Typed
<1>4. /\ Head(work[a]) \in BOOLEAN /\ Tail(work[a]) \in Seq(BOOLEAN)
      /\ Len(Tail(work[a])) = Len(work[a]) - 1 /\ Len(work[a]) >= 1
      /\ Head(work[a]) = work[a][1]
  BY <1>1, <1>3, HeadAndTail
<1>5. /\ Append(results[a], Head(work[a])) \in Seq(BOOLEAN)
      /\ Len(Append(results[a], Head(work[a]))) = Len(results[a]) + 1
  BY <1>3, <1>4
<1>6. /\ work'[a] = Tail(work[a]) /\ results'[a] = Append(results[a], Head(work[a]))
      /\ work' \in [Agents -> Seq(BOOLEAN)] /\ results' \in [Agents -> Seq(BOOLEAN)]
      /\ \A b \in Agents \ {a} : work'[b] = work[b] /\ results'[b] = results[b]
  BY <1>1, <1>4, <1>5 DEF SInv, Typed
<1>7. /\ Marked(work'[a]) => Marked(work[a])
      /\ Marked(results'[a]) => Marked(results[a]) \/ Marked(work[a])
  <2>1. \A i \in 1..Len(Tail(work[a])) : Tail(work[a])[i] = work[a][i + 1] /\ i + 1 \in 1..Len(work[a])
    BY <1>3, <1>4
  <2>2. Marked(work'[a]) => Marked(work[a])
    BY <1>6, <2>1 DEF Marked
  <2>3. \A i \in 1..(Len(results[a]) + 1) :
          Append(results[a], Head(work[a]))[i] = IF i \in 1..Len(results[a]) THEN results[a][i] ELSE work[a][1]
    BY <1>3, <1>4, AppendAt
  <2>4. 1 \in 1..Len(work[a])
    BY <1>3, <1>4
  <2>5. Marked(results'[a]) => Marked(results[a]) \/ Marked(work[a])
    BY <1>5, <1>6, <2>3, <2>4 DEF Marked
  <2> QED
    BY <2>2, <2>5
<1>8. Apart(a) /\ CommandsFit
  <2>1. ~agent[a].hinted => \A c \in Commands : command'[c].pc = "inserted" => command'[c].of # a
    BY <1>1 DEF SInv, SpawnsOwn, Inserted
  <2>2. Apart(a)
    BY <1>1, <1>2, <1>6, <2>1 DEF Apart, SInv, Typed, Made
  <2>3. CommandsFit
    BY <1>1 DEF CommandsFit, SInv, Typed, Blank
  <2> QED
    BY <2>2, <2>3
<1>9. ASSUME NEW t \in Tasks, task[t].of = a
      PROVE  SettledTask(t, a)'
  <2>1. SettledTask(t, a)
    BY <1>2, <1>9, AgentsSettled DEF Settled
  <2>2. /\ UNCHANGED <<agent, task, command, harness>>
    BY <1>1
  <2>3. ~agent[a].hinted /\ SDK /\ Active(t) => OneAtWork(t, a)'
    <3> SUFFICES ASSUME ~agent[a].hinted, SDK, Active(t) PROVE OneAtWork(t, a)'
      OBVIOUS
    <3>1. OneAtWork(t, a)
      BY <2>1 DEF SettledTask
    <3>2. Len(work'[a]) + Len(results'[a]) = Len(work[a]) + Len(results[a])
      <4>1. \A m, n \in Nat : (m - 1) + (n + 1) = m + n
        OBVIOUS
      <4>2. Len(work[a]) \in Nat /\ Len(results[a]) \in Nat
        BY <1>3
      <4>3. Len(work'[a]) = Len(work[a]) - 1 /\ Len(results'[a]) = Len(results[a]) + 1
        BY <1>4, <1>5, <1>6
      <4> QED
        BY <4>1, <4>2, <4>3
    <3>3. AtTurn(t)
      BY <1>1, <3>1 DEF OneAtWork, TurnFits, Active, AtTurn, Idle
    <3>4. task[t].pc # "launch" /\ task[t].pc # "judge" /\ ~(task[t].pc = "new" /\ Runner(t))
      BY <1>1, <3>1 DEF OneAtWork, TurnFits, Idle
    <3>5. TurnFits(t, a)'
      BY <1>7, <2>2, <3>1, <3>2, <3>3, <3>4 DEF OneAtWork, TurnFits, AtTurn, Runner
    <3> QED
      BY <2>2, <3>1, <3>5 DEF OneAtWork, Active
  <2> QED
    BY <2>1, <2>2, <2>3 DEF SettledTask, Kills, Alive, SDK, Active
<1>10. Settled(a)'
  BY <1>1, <1>2, <1>9, AgentsSettled DEF Settled, SDK
<1> QED
  BY <1>1, <1>2, <1>8, <1>10, ApartKeeps

-----------------------------------------------------------------------------
(* Tasks that are created.                                                  *)
LEMMA CreatedFacts ==
  ASSUME SInv, Unused # {}, NEW a \in Agents, NEW kind \in {"runner", "hint", "retry"}
  PROVE  \E N \in TaskRec :
           /\ Created(task, a, kind) = [task EXCEPT ![NextTask] = N]
           /\ N.of = a /\ N.kind = kind /\ N.pc = "new" /\ N.cancel = "no" /\ N.proc = "none"
           /\ ~N.interrupted
<1> DEFINE N == [NoTask EXCEPT !.of = a, !.kind = kind, !.pc = "new"]
<1>1. /\ N \in TaskRec /\ N.of = a /\ N.kind = kind /\ N.pc = "new" /\ N.cancel = "no" /\ N.proc = "none"
      /\ ~N.interrupted
  BY DEF NoTask, TaskRec
<1>2. Created(task, a, kind) = [task EXCEPT ![NextTask] = N]
  BY DEF Created
<1> HIDE DEF N
<1> QED
  BY <1>1, <1>2

(* N is created as task n, in the tasks T0: those of task, one of them      *)
(* perhaps over.                                                            *)
LEMMA CreationKeeps ==
  ASSUME SInv, NEW a \in Made, NEW n \in Tasks, task[n].pc = "none",
         NEW N \in TaskRec, N.of = a, N.pc = "new", N.cancel = "no", N.proc = "none", ~N.interrupted,
         N.kind = "hint" => agent[a].hinted, ~SDK => N.kind # "retry",
         NEW T0 \in [Tasks -> TaskRec], task' = [T0 EXCEPT ![n] = N],
         \A u \in Tasks : \/ T0[u] = task[u]
                          \/ /\ SDK /\ task[u].of = a /\ T0[u].of = a /\ T0[u].pc = "over" /\ T0[u].kind = "none"
                             /\ T0[u].proc = "none" /\ ~T0[u].interrupted,
         harness' = harness, CommandsFit, Apart(a),
         agent'[a].task \in {agent[a].task, n}, agent'[a].proc = agent[a].proc,
         ~agent[a].hinted => IF SDK THEN /\ \A u \in Tasks : T0[u].of = a =>
                                              T0[u].pc \notin {"new", "launch", "turn", "judge"}
                                         /\ TurnFits(n, a)'
                             ELSE \A u \in Tasks : task[u].of # a
  PROVE  SInv'
<1>1. a \in Agents /\ a # 0 /\ Settled(a) /\ SDK' = SDK /\ agent'[a].hinted = agent[a].hinted
  BY AgentsSettled DEF Made, Agents, SDK, Apart
<1>2. \A u \in Tasks : task'[u] = IF u = n THEN N ELSE T0[u]
  OBVIOUS
<1>3. task[n].of = 0
  BY DEF SInv, Blank, NoTask
<1>4. SettledTask(n, a)'
  <2>1. task'[n] = N
    BY <1>2
  <2>2. ~agent[a].hinted /\ SDK => OneAtWork(n, a)'
    <3>1. ~agent[a].hinted /\ SDK => \A u \in Tasks : Active(u)' /\ task'[u].of = a => u = n
      BY <1>2 DEF Active
    <3> QED
      BY <3>1 DEF OneAtWork
  <2>3. ~agent[a].hinted /\ ~SDK => \A u \in Tasks : task'[u].of = a => u = n
    BY <1>2
  <2>4. /\ task'[n].kind = "hint" => agent'[a].hinted
        /\ task'[n].proc = "none" /\ task'[n].pc = "new" /\ ~task'[n].interrupted /\ task'[n].cancel = "no"
        /\ ~SDK' => task'[n].kind # "retry"
    BY <1>1, <2>1
  <2> QED
    BY <1>1, <2>2, <2>3, <2>4 DEF SettledTask
<1>5. ASSUME NEW u \in Tasks, u # n, task'[u].of = a
      PROVE  SettledTask(u, a)'
  <2>1. CASE T0[u] = task[u]
    <3>1. task'[u] = task[u] /\ SettledTask(u, a)
      BY <1>1, <1>2, <1>5, <2>1 DEF Settled
    <3>2. ~agent[a].hinted => SDK /\ ~Active(u)
      BY <1>2, <1>5, <2>1, <3>1 DEF Active
    <3>3. \A c \in Commands, pcs \in SUBSET {"waiting", "cancelled"} :
            Kills(c, u, pcs) => Kills(c, u, pcs)' /\ command'[c] = command[c]
      BY <3>1 DEF CommandsFit, Kills
    <3>4. /\ task'[u].kind = "hint" => agent'[a].hinted
          /\ SDK => /\ task'[u].proc = "none" /\ task'[u].pc \notin {"telling", "reaping"}
                    /\ task'[u].interrupted => task'[u].pc = "judge" /\ agent'[a].hinted
          /\ ~SDK => /\ task'[u].pc # "rest" /\ task'[u].kind # "retry"
                     /\ task'[u].pc \in {"none", "new", "launch"} => task'[u].proc = "none"
                     /\ task'[u].pc = "judge" => task'[u].proc = "dead"
                     /\ task'[u].pc = "reaping" => task'[u].proc # "live"
      BY <1>1, <3>1 DEF SettledTask
    <3>5. /\ task'[u].pc \in {"new", "launch", "telling"} /\ task'[u].cancel # "no" =>
               \E c \in Commands : Kills(c, u, {"waiting"})' /\ command'[c].task = u
          /\ task'[u].proc = "live" /\ ~Alive(u)' /\ agent'[a].proc = u =>
               \E c \in Commands : Kills(c, u, {"waiting", "cancelled"})'
      BY <3>1, <3>3 DEF SettledTask, Alive
    <3>6. ~agent[a].hinted => ~Active(u)'
      BY <3>1, <3>2 DEF Active
    <3>7. SDK => task'[u].proc = "none"
      BY <3>4
    <3> QED
      BY <1>1, <3>2, <3>4, <3>5, <3>6, <3>7 DEF SettledTask
  <2>2. CASE /\ SDK /\ T0[u].pc = "over" /\ T0[u].kind = "none"
             /\ T0[u].proc = "none" /\ ~T0[u].interrupted
    BY <1>1, <1>2, <1>5, <2>2 DEF SettledTask, Active
  <2> QED
    BY <2>1, <2>2
<1>6. Settled(a)'
  <2>1. agent[a].task \in {0} \cup Tasks /\ agent[a].proc \in {0} \cup Tasks
    BY <1>1 DEF SInv, Typed, AgentRec
  <2>2. \A u \in Tasks : task[u].of = a => task'[u].of = a
    BY <1>1, <1>2, <1>3
  <2>3. agent'[a].task # 0 => task'[agent'[a].task].of = a
    <3>1. CASE agent'[a].task = n
      BY <1>2, <3>1
    <3>2. CASE agent'[a].task = agent[a].task
      BY <1>1, <2>1, <2>2, <3>2 DEF Settled
    <3> QED
      BY <3>1, <3>2
  <2>4. agent'[a].proc # 0 => ~SDK' /\ task'[agent'[a].proc].of = a
    BY <1>1, <2>1, <2>2 DEF Settled
  <2> QED
    BY <1>4, <1>5, <2>3, <2>4 DEF Settled
<1> QED
  BY <1>6, ApartKeeps

LEMMA JudgedKeeps ==
  ASSUME SInv, NEW t \in Tasks, Judged(t)
  PROVE  SInv'
<1>1. PICK a : a = task[t].of
  OBVIOUS
<1>2. task[t].pc = "judge" /\ task[t].cancel = "no" /\ UNCHANGED <<harness, results, command>>
  BY DEF Judged, Is
<1>3. /\ a \in Made /\ a \in Agents /\ task[t] \in TaskRec
      /\ agent[a] \in AgentRec /\ agent[a].status # "none" /\ SettledTask(t, a)
  BY <1>1, <1>2, TaskFacts
<1>4. task[t].proc # "live" /\ (SDK => task[t].proc = "none") /\ Ended(t, task)
  BY <1>2, <1>3, NothingEnded DEF SettledTask
<1>5. CASE /\ work' = work
           /\ \E rest \in {agent[a].status, "paused", "running"}, A \in {agent, Released({a}), Released(Listed)} :
                Leaves(t, task, A, rest)
  <2>1. {agent[a].status, "paused", "running"} \subseteq Statuses \ {"none"}
    BY <1>3 DEF Statuses, AgentRec
  <2>2. Resting(agent) /\ Resting(Released({a})) /\ Resting(Released(Listed))
    BY <1>3, AgentsRest, ListedMade
  <2>3. WorkKept(a)
    BY <1>2, <1>3, <1>5, NothingKept
  <2> QED
    BY <1>1, <1>2, <1>4, <1>5, <2>1, <2>2, <2>3, LeavesKeeps
<1>6. CASE /\ SDK /\ agent[a].client = "open" /\ Unused # {}
           /\ work' = [work EXCEPT ![a] = Append(@, FALSE)]
           /\ task' = Over(Created(task, a, "retry"), t)
           /\ agent' = [agent EXCEPT ![a].status = "running", ![a].task = NextTask,
                                     ![a].client = IF Runner(t) THEN "closed" ELSE @]
  <2>1. PICK n \in Tasks : n = NextTask /\ task[n].pc = "none" /\ n # t
    BY <1>2, <1>6, NextTaskUnused
  <2>2. PICK N \in TaskRec :
          /\ Created(task, a, "retry") = [task EXCEPT ![n] = N]
          /\ N.of = a /\ N.kind = "retry" /\ N.pc = "new" /\ N.cancel = "no" /\ N.proc = "none"
          /\ ~N.interrupted
    BY <1>3, <1>6, <2>1, CreatedFacts
  <2>3. PICK R \in TaskRec :
          /\ R = [NoTask EXCEPT !.of = task[t].of, !.proc = task[t].proc, !.pc = "over"]
          /\ Over(task, t) = [task EXCEPT ![t] = R]
          /\ R.of = task[t].of /\ R.proc = task[t].proc /\ R.pc = "over" /\ R.kind = "none"
          /\ R.cancel = "no" /\ ~R.interrupted
    <3> DEFINE R == [NoTask EXCEPT !.of = task[t].of, !.proc = task[t].proc, !.pc = "over"]
    <3>1. R \in TaskRec /\ R.of = task[t].of /\ R.proc = task[t].proc /\ R.pc = "over" /\ R.kind = "none"
          /\ R.cancel = "no" /\ ~R.interrupted
      BY <1>3 DEF NoTask, TaskRec
    <3>2. Over(task, t) = [task EXCEPT ![t] = R]
      BY DEF Over
    <3> HIDE DEF R
    <3>3. \E X \in TaskRec : X = R
      BY <3>1
    <3> QED
      BY <3>1, <3>2 DEF R
  <2> DEFINE T0 == [task EXCEPT ![t] = R]
  <2>4. /\ T0 \in [Tasks -> TaskRec]
        /\ \A u \in Tasks : T0[u] = IF u = t THEN R ELSE task[u]
    BY DEF SInv, Typed
  <2>5. task' = [T0 EXCEPT ![n] = N]
    <3>1. [task EXCEPT ![n] = N][t] = task[t]
      BY <2>1 DEF SInv, Typed
    <3>2. task' = [[task EXCEPT ![n] = N] EXCEPT ![t] = R]
      BY <1>6, <2>2, <2>3, <3>1 DEF Over
    <3> QED
      BY <2>1, <3>2 DEF SInv, Typed
  <2> HIDE DEF T0
  <2>6. \A u \in Tasks : task'[u] = IF u = n THEN N ELSE T0[u]
    BY <2>4, <2>5
  <2>7. /\ agent' \in [Agents -> AgentRec] /\ \A b \in Agents \ {a} : agent'[b] = agent[b]
        /\ agent'[a].status = "running" /\ agent'[a].hinted = agent[a].hinted
        /\ agent'[a].task = n /\ agent'[a].proc = agent[a].proc
    BY <1>3, <1>6, <2>1 DEF AgentRec, Statuses, SInv, Typed
  <2>8. WorkKept(a) /\ work'[a] = Append(work[a], FALSE)
    BY <1>2, <1>3, <1>6, Queried
  <2>9. CommandsFit
    BY <1>2 DEF CommandsFit, SInv, Typed, Blank
  <2>10. Apart(a)
    <3>1. task' \in [Tasks -> TaskRec]
      BY <2>4, <2>5
    <3>2. \A u \in Tasks : \/ task'[u] = task[u]
                           \/ task'[u].of = a /\ task[u].of \in {0, a} /\ task'[u].pc # "none"
      <4>1. task[n].of = 0
        BY <2>1 DEF SInv, Blank, NoTask
      <4> QED
        BY <1>1, <2>2, <2>3, <2>4, <2>6, <4>1
    <3>3. ~agent[a].hinted => \A c \in Commands : command'[c].pc = "inserted" => command'[c].of # a
      BY <1>1, <1>2 DEF SInv, SpawnsOwn, Inserted
    <3> QED
      BY <2>7, <2>8, <3>1, <3>2, <3>3 DEF Apart, WorkKept
  <2>11. ~agent[a].hinted => /\ \A u \in Tasks : T0[u].of = a => T0[u].pc \notin {"new", "launch", "turn", "judge"}
                             /\ TurnFits(n, a)'
    <3> SUFFICES ASSUME ~agent[a].hinted
                 PROVE  /\ \A u \in Tasks : T0[u].of = a => T0[u].pc \notin {"new", "launch", "turn", "judge"}
                        /\ TurnFits(n, a)'
      OBVIOUS
    <3>1. OneAtWork(t, a)
      BY <1>2, <1>3, <1>6 DEF SettledTask, Active
    <3>2. \A u \in Tasks : T0[u].of = a => T0[u].pc \notin {"new", "launch", "turn", "judge"}
      BY <2>3, <2>4, <3>1 DEF OneAtWork, Active
    <3>3. Idle(a)
      BY <1>2, <1>6, <3>1 DEF OneAtWork, TurnFits
    <3>4. work'[a] = <<FALSE>> /\ results'[a] = <<>>
      BY <1>2, <2>8, <3>3, OneQueryIsOne DEF Idle
    <3>5. Len(work'[a]) + Len(results'[a]) <= 1 /\ ~Marked(work'[a]) /\ ~Marked(results'[a])
      <4>1. Len(<<FALSE>>) + Len(<<>>) <= 1
        BY OneQueryIsOne
      <4> QED
        BY <3>4, <4>1, OneQueryIsOne
    <3>6. task'[n] = N
      BY <2>6
    <3> QED
      BY <2>2, <3>2, <3>5, <3>6 DEF TurnFits, AtTurn, Runner
  <2>12. \A u \in Tasks : \/ T0[u] = task[u]
                          \/ /\ SDK /\ task[u].of = a /\ T0[u].of = a /\ T0[u].pc = "over" /\ T0[u].kind = "none"
                             /\ T0[u].proc = "none" /\ ~T0[u].interrupted
    BY <1>1, <1>4, <1>6, <2>3, <2>4
  <2> QED
    BY <1>2, <1>3, <1>6, <2>1, <2>2, <2>4, <2>5, <2>7, <2>9, <2>10, <2>11, <2>12, CreationKeeps
<1> QED
  BY <1>1, <1>5, <1>6 DEF Judged

LEMMA CancelledKeeps ==
  ASSUME SInv, NEW t \in Tasks, Cancelled(t)
  PROVE  SInv'
<1>1. PICK a : a = task[t].of
  OBVIOUS
<1>2. /\ task[t].pc \notin {"none", "over"} /\ task[t].cancel # "no"
      /\ UNCHANGED <<harness, work, results, command>>
  BY DEF Cancelled, Alive
<1>3. /\ a \in Made /\ a \in Agents /\ task[t] \in TaskRec
      /\ agent[a] \in AgentRec /\ agent[a].status # "none" /\ SettledTask(t, a)
  BY <1>1, <1>2, TaskFacts
<1>4. WorkKept(a)
  BY <1>2, <1>3, NothingKept
<1>5. CASE ~SDK /\ task[t].pc = "turn" /\ task' = [Signalled(task, t) EXCEPT ![t].pc = "reaping"] /\ UNCHANGED agent
  <2> DEFINE T == [task[t] EXCEPT !.proc = IF @ = "live" THEN "signalled" ELSE @, !.pc = "reaping"]
  <2>1. /\ T \in TaskRec /\ T.of = a /\ T.kind = task[t].kind /\ T.cancel = task[t].cancel
        /\ T.proc = (IF task[t].proc = "live" THEN "signalled" ELSE task[t].proc)
        /\ T.interrupted = task[t].interrupted /\ T.pc = "reaping"
    BY <1>1, <1>3 DEF TaskRec
  <2>2. task' = [task EXCEPT ![t] = T]
    BY <1>3, <1>5 DEF Signalled, SInv, Typed, TaskRec
  <2> HIDE DEF T
  <2>3. Turns(t, a, T)
    BY <1>1, <1>2, <1>3, <1>4, <1>5, <2>1, <2>2, NothingKept DEF Turns
  <2>4. CliFits(t, a, T)
    BY <1>3, <1>5, <2>1 DEF CliFits, SettledTask
  <2> QED
    BY <1>5, <2>1, <2>3, <2>4, CliTurn
<1>6. CASE /\ task' = Over(task, t)
           /\ \/ SDK /\ agent' = [agent EXCEPT ![a].status = "stopped", ![a].client = "closed"]
              \/ ~(~SDK /\ task[t].pc = "turn")
                 /\ (agent' = agent \/ agent' = [agent EXCEPT ![a].status = "failed"])
  <2>1. PICK T \in TaskRec :
          /\ task' = [task EXCEPT ![t] = T] /\ T.of = a /\ T.proc = task[t].proc /\ T.pc = "over"
          /\ T.kind = "none" /\ T.cancel = "no" /\ ~T.interrupted
    BY <1>1, <1>3, <1>6, OverFacts
  <2>2. /\ AgentsKept(a) /\ agent'[a].proc = agent[a].proc
        /\ agent'[a].client \in {agent[a].client, "closed"}
        /\ agent'[a].status = "running" => agent[a].status = "running"
    <3>1. CASE agent' = [agent EXCEPT ![a].status = "stopped", ![a].client = "closed"]
      BY <1>3, <3>1 DEF AgentsKept, AgentRec, Statuses, SInv, Typed
    <3>2. CASE agent' = agent
      BY <1>3, <3>2, NothingKept
    <3>3. CASE agent' = [agent EXCEPT ![a].status = "failed"]
      BY <1>3, <3>3 DEF AgentsKept, AgentRec, Statuses, SInv, Typed
    <3> QED
      BY <1>6, <3>1, <3>2, <3>3
  <2>3. Turns(t, a, T)
    BY <1>1, <1>2, <1>3, <1>4, <2>1, <2>2 DEF Turns
  <2>4. SDK => SdkFits(t, a, T)
    BY <1>2, <1>3, <2>1, <2>2 DEF SdkFits, SettledTask, WorkKept
  <2>5. ~SDK => CliFits(t, a, T)
    <3>1. ASSUME ~SDK, task[t].proc = "live"
          PROVE  \E c \in Commands : Kills(c, t, {"waiting", "cancelled"})
      <4>1. task[t].pc = "telling"
        BY <1>2, <1>3, <1>6, <3>1 DEF SettledTask, TaskRec
      <4>2. \E c \in Commands : Kills(c, t, {"waiting"})
        BY <1>2, <1>3, <3>1, <4>1 DEF SettledTask
      <4> QED
        BY <4>2 DEF Kills
    <3> QED
      BY <1>3, <2>1, <2>2, <3>1 DEF CliFits, SettledTask
  <2> QED
    BY <2>3, <2>4, <2>5, CliTurn, SdkTurn
<1> QED
  BY <1>1, <1>5, <1>6 DEF Cancelled

LEMMA SpawnStartsKeeps ==
  ASSUME SInv, NEW c \in Commands, SpawnStarts(c)
  PROVE  SInv'
<1>1. PICK a : a = command[c].of
  OBVIOUS
<1>2. /\ command[c].op = "spawn" /\ command[c].pc = "inserted" /\ Unused # {}
      /\ task' = Created(task, a, "runner") /\ agent' = [agent EXCEPT ![a].task = NextTask]
      /\ Ends(c) /\ UNCHANGED <<harness, work, results>>
  BY <1>1 DEF SpawnStarts, At
<1>3. /\ a \in Made /\ a \in Agents /\ agent[a] \in AgentRec /\ agent[a].status # "none"
      /\ ~agent[a].hinted => (\A t \in Tasks : task[t].of # a) /\ work[a] = <<>> /\ results[a] = <<>>
  BY <1>1, <1>2 DEF SInv, SpawnsOwn, Inserted, Made, Typed
<1>4. PICK n \in Tasks : n = NextTask /\ task[n].pc = "none"
  BY <1>2, NextTaskUnused
<1>5. PICK N \in TaskRec :
        /\ task' = [task EXCEPT ![n] = N]
        /\ N.of = a /\ N.kind = "runner" /\ N.pc = "new" /\ N.cancel = "no" /\ N.proc = "none"
        /\ ~N.interrupted
  BY <1>2, <1>3, <1>4, CreatedFacts
<1>6. CommandsFit
  BY <1>2, EndFits
<1>7. /\ agent' \in [Agents -> AgentRec] /\ \A b \in Agents \ {a} : agent'[b] = agent[b]
      /\ agent'[a].status = agent[a].status /\ agent'[a].hinted = agent[a].hinted
      /\ agent'[a].task = n /\ agent'[a].proc = agent[a].proc /\ agent'[a].client = agent[a].client
  BY <1>2, <1>3, <1>4 DEF AgentRec, SInv, Typed
<1>8. \A u \in Tasks : task'[u] = IF u = n THEN N ELSE task[u]
  BY <1>5 DEF SInv, Typed
<1>9. Apart(a)
  <2>1. \A d \in Commands : command'[d].pc = "inserted" => command'[d].of # a
    <3>1. \A d \in Commands : command'[d].pc = "inserted" => d # c /\ command'[d] = command[d]
      BY <1>2 DEF Ends, SInv, Typed, NoCommand
    <3> QED
      BY <1>1, <1>2, <3>1 DEF SInv, SpawnsOwn, Inserted
  <2>2. task[n].of = 0 /\ task' \in [Tasks -> TaskRec]
    BY <1>4, <1>5 DEF SInv, Typed, Blank, NoTask
  <2> QED
    BY <1>2, <1>3, <1>5, <1>7, <1>8, <2>1, <2>2 DEF Apart, SInv, Typed
<1>10. SDK /\ ~agent[a].hinted => TurnFits(n, a)'
  BY <1>2, <1>3, <1>5, <1>8 DEF TurnFits, AtTurn, Runner, Idle
<1>11. task \in [Tasks -> TaskRec]
  BY DEF SInv, Typed
<1> QED
  BY <1>2, <1>3, <1>4, <1>5, <1>6, <1>7, <1>9, <1>10, <1>11, CreationKeeps

LEMMA HintStartsKeeps ==
  ASSUME SInv, NEW c \in Commands, HintStarts(c)
  PROVE  SInv'
<1>1. PICK a : a = command[c].of
  OBVIOUS
<1> DEFINE asked == ~SDK \/ agent[a].client = "open"
<1>2. /\ command[c].op = "hint" /\ command[c].pc = "hinting" /\ Unused # {}
      /\ work' = IF SDK /\ asked THEN [work EXCEPT ![a] = Append(@, FALSE)] ELSE work
      /\ task' = IF asked THEN Created(task, a, "hint") ELSE task
      /\ agent' = [agent EXCEPT ![a].status = "running", ![a].task = IF asked THEN NextTask ELSE @]
      /\ Ends(c) /\ UNCHANGED <<harness, results>>
  BY <1>1 DEF HintStarts, At
<1>3. a \in Made /\ a \in Agents /\ agent[a] \in AgentRec /\ agent[a].status # "none" /\ agent[a].hinted
  BY <1>1, <1>2 DEF SInv, SpawnsOwn, Sound, Made, Typed
<1>4. PICK n \in Tasks : n = NextTask /\ task[n].pc = "none"
  BY <1>2, NextTaskUnused
<1>5. PICK N \in TaskRec :
        /\ Created(task, a, "hint") = [task EXCEPT ![n] = N]
        /\ N.of = a /\ N.kind = "hint" /\ N.pc = "new" /\ N.cancel = "no" /\ N.proc = "none"
        /\ ~N.interrupted
  BY <1>2, <1>3, <1>4, CreatedFacts
<1>6. CommandsFit
  BY <1>2, EndFits
<1>7. /\ agent' \in [Agents -> AgentRec] /\ \A b \in Agents \ {a} : agent'[b] = agent[b]
      /\ agent'[a].status = "running" /\ agent'[a].hinted = agent[a].hinted
      /\ agent'[a].task = (IF asked THEN n ELSE agent[a].task) /\ agent'[a].proc = agent[a].proc
  BY <1>2, <1>3, <1>4 DEF AgentRec, Statuses, SInv, Typed
<1>8. WorkKept(a)
  <2>1. CASE SDK /\ asked
    BY <1>2, <1>3, <2>1, Queried
  <2>2. CASE ~(SDK /\ asked)
    BY <1>2, <1>3, <2>2, NothingKept
  <2> QED
    BY <2>1, <2>2
<1>9. /\ task' \in [Tasks -> TaskRec]
      /\ \A u \in Tasks : task'[u] = task[u] \/ (u = n /\ asked /\ task'[u] = N)
  <2>1. task \in [Tasks -> TaskRec]
    BY DEF SInv, Typed
  <2> QED
    BY <1>2, <1>5, <2>1
<1>10. Apart(a)
  <2>1. task[n].of = 0
    BY <1>4 DEF SInv, Blank, NoTask
  <2> HIDE DEF asked
  <2> QED
    BY <1>3, <1>5, <1>7, <1>8, <1>9, <2>1 DEF Apart, WorkKept
<1>11. CASE asked
  <2>1. task \in [Tasks -> TaskRec] /\ task' = [task EXCEPT ![n] = N]
    BY <1>2, <1>5, <1>11 DEF SInv, Typed
  <2> QED
    BY <1>2, <1>3, <1>4, <1>5, <1>6, <1>7, <1>10, <1>11, <2>1, CreationKeeps
<1>12. CASE ~asked
  <2>1. task' = task /\ agent'[a].task = agent[a].task /\ SDK' = SDK
    BY <1>2, <1>7, <1>12 DEF SDK
  <2>2. Settled(a)
    BY <1>3, AgentsSettled
  <2>3. \A d \in Commands, u \in Tasks, pcs \in SUBSET {"waiting", "cancelled"} :
          Kills(d, u, pcs) => Kills(d, u, pcs)' /\ command'[d] = command[d]
    BY <1>6, <2>1 DEF CommandsFit, Kills
  <2>4. \A u \in Tasks : SettledTask(u, a) => SettledTask(u, a)'
    BY <1>3, <1>7, <2>1, <2>3 DEF SettledTask, Alive
  <2>5. Settled(a)'
    BY <1>7, <2>1, <2>2, <2>4 DEF Settled
  <2> QED
    BY <1>2, <1>3, <1>6, <1>10, <2>5, ApartKeeps
<1> QED
  BY <1>11, <1>12

-----------------------------------------------------------------------------
(* A new agent in the table.                                                *)
LEMMA SpawnInsertsKeeps ==
  ASSUME SInv, NEW c \in Commands, SpawnInserts(c)
  PROVE  SInv'
<1>0. PICK a \in Nat : a = Cardinality(Made) + 1
  <2>1. PICK n \in Nat : Made = 1..n
    BY DEF SInv, Blank
  <2> QED
    BY <2>1, FS_Interval
<1> DEFINE A == [NoAgent EXCEPT !.status = "starting", !.listed = TRUE]
           com == [command[c] EXCEPT !.pc = "inserted", !.of = a]
<1>1. /\ command[c].op = "spawn" /\ command[c].pc = "clearing" /\ command[c].todo = {} /\ a \in Agents
      /\ UNCHANGED <<harness, task, work, results>>
      /\ agent' = [agent EXCEPT ![a] = A]
  BY <1>0 DEF SpawnInserts, At
<1>2. PICK n \in Nat : Made = 1..n
  BY DEF SInv, Blank
<1>3. a = n + 1
  <2>1. Cardinality(1..n) = n
    BY FS_Interval
  <2> QED
    BY <1>0, <1>2, <2>1
<1>4. A \in AgentRec /\ A.status = "starting" /\ A.task = 0 /\ A.proc = 0 /\ ~A.hinted
  BY DEF NoAgent, AgentRec, Statuses
<1>5. com \in CommandRec /\ com.op = "spawn" /\ com.pc = "inserted" /\ com.of = a /\ com.todo = {}
  <2>1. command[c] \in CommandRec
    BY DEF SInv, Typed
  <2> QED
    BY <1>1, <2>1 DEF CommandRec
<1>6. command' = [command EXCEPT ![c] = com]
  BY <1>0 DEF SpawnInserts, SInv, Typed
<1> HIDE DEF A, com
<1>7. /\ a \notin Made /\ agent[a] = NoAgent /\ work[a] = <<>> /\ results[a] = <<>> /\ a # 0
      /\ agent[a].status = "none"
  BY <1>1, <1>2, <1>3 DEF SInv, Blank, Made
<1>8. /\ \A b \in Agents : agent'[b] = IF b = a THEN A ELSE agent[b]
      /\ \A d \in Commands : command'[d] = IF d = c THEN com ELSE command[d]
  BY <1>1, <1>6 DEF SInv, Typed
<1>9. Made' = Made \cup {a} /\ Made' = 1..(n + 1)
  <2>1. Made' = Made \cup {a}
    BY <1>1, <1>4, <1>8 DEF Made
  <2> QED
    BY <1>2, <1>3, <2>1
<1>10. \A t \in Tasks : task[t].of # a
  BY <1>7 DEF SInv, Blank, NoTask
<1>11. Typed'
  BY <1>1, <1>4, <1>5, <1>6 DEF SInv, Typed
<1>12. Blank'
  <2>1. {d \in Commands : command'[d].op # "none"} = {d \in Commands : command[d].op # "none"}
    BY <1>1, <1>5, <1>8
  <2>2. \A b \in Agents \ Made' : agent'[b] = NoAgent /\ work'[b] = <<>> /\ results'[b] = <<>>
    BY <1>1, <1>8, <1>9 DEF SInv, Blank
  <2>3. \A d \in Commands : command'[d].op = "none" => command'[d] = NoCommand
    BY <1>5, <1>8 DEF SInv, Blank
  <2>4. \A t \in Tasks : IF task'[t].pc = "none" THEN task'[t] = NoTask ELSE task'[t].of \in Made'
    BY <1>1, <1>9 DEF SInv, Blank
  <2>5. \E m \in Nat : Made' = 1..m
    BY <1>9
  <2>6. \E m \in Nat : {d \in Commands : command'[d].op # "none"} = 1..m
    BY <2>1 DEF SInv, Blank
  <2> QED
    BY <2>2, <2>3, <2>4, <2>5, <2>6 DEF Blank
<1>13. \A b \in Made : agent'[b] = agent[b]
  BY <1>7, <1>8 DEF Made
<1>14. SpawnsOwn'
  <2>1. \A d \in Commands : Inserted(d)' => d = c \/ (command'[d] = command[d] /\ Inserted(d) /\ command[d].of # a)
    BY <1>7, <1>8 DEF Inserted, SInv, SpawnsOwn
  <2>2. ASSUME NEW d \in Commands, Inserted(d)'
        PROVE  /\ command'[d].of \in Made'
               /\ ~agent'[command'[d].of].hinted =>
                    /\ \A t \in Tasks : task'[t].of # command'[d].of
                    /\ work'[command'[d].of] = <<>> /\ results'[command'[d].of] = <<>>
    <3>1. CASE d = c
      BY <1>1, <1>5, <1>7, <1>8, <1>9, <1>10, <3>1
    <3>2. CASE command'[d] = command[d] /\ Inserted(d)
      BY <1>1, <1>9, <1>13, <3>2 DEF SInv, SpawnsOwn
    <3> QED
      BY <2>1, <2>2, <3>1, <3>2
  <2>3. \A d, e \in Commands : Inserted(d)' /\ Inserted(e)' /\ command'[d].of = command'[e].of => d = e
    BY <1>5, <1>8, <2>1 DEF SInv, SpawnsOwn
  <2>4. \A d \in Commands : Sound(command'[d], Made', agent')
    BY <1>5, <1>8, <1>9, <1>13 DEF SInv, SpawnsOwn, Sound
  <2> QED
    BY <2>2, <2>3, <2>4 DEF SpawnsOwn
<1>15. AllSettled'
  <2>1. ASSUME NEW b \in Made
        PROVE  Settled(b)'
    <3>1. Settled(b) /\ agent'[b] = agent[b] /\ SDK' = SDK
      BY <1>1, <1>13, AgentsSettled DEF SDK
    <3>2. \A d \in Commands, t \in Tasks, pcs \in SUBSET {"waiting", "cancelled"} :
            Kills(d, t, pcs) => Kills(d, t, pcs)' /\ command'[d] = command[d]
      BY <1>1, <1>8 DEF Kills
    <3>3. \A t \in Tasks : OneAtWork(t, b) => OneAtWork(t, b)'
      BY <1>1, <3>1 DEF OneAtWork, TurnFits, Active, Runner, Idle, AtTurn
    <3>4. \A t \in Tasks : SettledTask(t, b) => SettledTask(t, b)'
      BY <1>1, <3>1, <3>2, <3>3 DEF SettledTask, Alive, Active
    <3> QED
      BY <1>1, <3>1, <3>4 DEF Settled
  <2>2. Settled(a)'
    BY <1>1, <1>4, <1>8, <1>10 DEF Settled
  <2> QED
    BY <1>9, <2>1, <2>2 DEF AllSettled
<1> QED
  BY <1>11, <1>12, <1>14, <1>15, SettledSuffices, PTL

-----------------------------------------------------------------------------
(* A kill goes on: it may cancel tasks and signal subprocesses.             *)
TasksCancelled ==
  /\ task' \in [Tasks -> TaskRec]
  /\ \A u \in Tasks : \/ task'[u] = task[u]
                      \/ Alive(u) /\ \E x : task'[u] = [task[u] EXCEPT !.cancel = x]
                      \/ task[u].proc = "live" /\ task'[u] = [task[u] EXCEPT !.proc = "signalled"]

LEMMA KillGoes ==
  ASSUME SInv, NEW c \in Commands, command[c].op = "kill", NEW com \in CommandRec, com.op = "kill", com.pc \in {"waiting", "cancelled", "telling"},
         com.of = command[c].of, com.todo = command[c].todo,
         command' = [command EXCEPT ![c] = com], UNCHANGED <<harness, agent, work, results>>,
         TasksCancelled, CancelOwned', OrphanOwned'
  PROVE  SInv'
<1>4. \A d \in Commands : command'[d] = IF d = c THEN com ELSE command[d]
  BY DEF SInv, Typed
<1>5. \A u \in Tasks :
        /\ task'[u].of = task[u].of /\ task'[u].kind = task[u].kind /\ task'[u].pc = task[u].pc
        /\ task'[u].interrupted = task[u].interrupted
        /\ task'[u].proc = task[u].proc \/ (task[u].proc = "live" /\ task'[u].proc = "signalled")
        /\ task[u].pc = "none" => task'[u] = task[u]
  <2> TAKE u \in Tasks
  <2>1. task[u] \in TaskRec /\ (task[u].pc = "none" => task[u].proc = "none")
    BY DEF SInv, Typed, Blank, NoTask
  <2>2. CASE task'[u] = task[u]
    BY <2>2
  <2>3. CASE Alive(u) /\ \E x : task'[u] = [task[u] EXCEPT !.cancel = x]
    BY <2>1, <2>3 DEF TaskRec, Alive
  <2>4. CASE task[u].proc = "live" /\ task'[u] = [task[u] EXCEPT !.proc = "signalled"]
    BY <2>1, <2>4 DEF TaskRec
  <2> QED
    BY <2>2, <2>3, <2>4 DEF TasksCancelled
<1>6. SDK' = SDK /\ Made' = Made
  BY DEF SDK, Made
<1>7. Typed'
  BY DEF SInv, Typed, TasksCancelled
<1>8. Blank'
  <2>1. {d \in Commands : command'[d].op # "none"} = {d \in Commands : command[d].op # "none"}
    BY <1>4
  <2>2. \A d \in Commands : command'[d].op = "none" => command'[d] = NoCommand
    BY <1>4 DEF SInv, Blank
  <2>3. \A u \in Tasks : IF task'[u].pc = "none" THEN task'[u] = NoTask ELSE task'[u].of \in Made
    BY <1>5 DEF SInv, Blank
  <2> QED
    BY <1>6, <2>1, <2>2, <2>3 DEF SInv, Blank
<1>9. \A u \in Tasks : Hinted(u)' = Hinted(u)
  BY <1>5 DEF Hinted
<1>10. Modes'
  BY <1>5, <1>6, <1>9 DEF SInv, Modes
<1>11. SpawnsOwn'
  <2>1. \A d \in Commands : Inserted(d)' => d # c /\ command'[d] = command[d] /\ Inserted(d)
    BY <1>4 DEF Inserted
  <2>2. \A d \in Commands : Sound(command'[d], Made, agent)
    BY <1>4 DEF SInv, SpawnsOwn, Sound
  <2>3. \A d, e \in Commands : Inserted(d)' /\ Inserted(e)' /\ command'[d].of = command'[e].of => d = e
    BY <2>1 DEF SInv, SpawnsOwn
  <2>4. \A d \in Commands : Inserted(d)' =>
           /\ command'[d].of \in Made
           /\ ~agent[command'[d].of].hinted =>
                /\ \A u \in Tasks : task'[u].of # command'[d].of
                /\ work[command'[d].of] = <<>> /\ results[command'[d].of] = <<>>
    BY <1>5, <2>1 DEF SInv, SpawnsOwn
  <2> QED
    BY <1>6, <2>2, <2>3, <2>4 DEF SpawnsOwn
<1>12. OneTask' /\ ProcInterrupted' /\ ResultInterrupted'
  BY <1>5, <1>6, <1>9 DEF SInv, OneTask, ProcInterrupted, ResultInterrupted
<1>13. ProcKnown'
  <2>1. \A b \in Agents : agent[b].task \in {0} \cup Tasks /\ agent[b].proc \in {0} \cup Tasks
    BY DEF SInv, Typed, AgentRec
  <2> QED
    BY <1>5, <1>6, <1>9, <2>1 DEF SInv, ProcKnown
<1>14. OneQuery'
  <2>1. \A u \in Tasks : Active(u)' = Active(u) /\ Runner(u)' = Runner(u) /\ AtTurn(u)' = AtTurn(u)
    BY <1>5 DEF Active, Runner, AtTurn
  <2>2. \A u \in Tasks, b \in Agents : OneAtWork(u, b) => OneAtWork(u, b)'
    <3>1. \A u \in Tasks, b \in Agents : TurnFits(u, b) => TurnFits(u, b)'
      BY <1>5, <2>1 DEF TurnFits, Idle
    <3> QED
      BY <1>5, <2>1, <3>1 DEF OneAtWork
  <2>3. \A u \in Tasks : Active(u) => task[u].of \in Agents
    BY DEF SInv, Blank, Made, Active
  <2> QED
    BY <1>5, <1>6, <1>9, <2>1, <2>2, <2>3 DEF SInv, OneQuery
<1> QED
  BY <1>7, <1>8, <1>10, <1>11, <1>12, <1>13, <1>14 DEF SInv

LEMMA KillCancelsKeeps ==
  ASSUME SInv, NEW c \in Commands, KillCancels(c)
  PROVE  SInv'
<1>1. PICK a : a = command[c].of
  OBVIOUS
<1>2. /\ command[c].op = "kill" /\ command[c].pc = "killing" /\ UNCHANGED <<harness, agent, work, results>>
      /\ command[c] \in CommandRec /\ a \in Made /\ a \in Agents
  BY <1>1, WorksOn DEF KillCancels, At, SInv, Typed
<1>3. PICK t : t = agent[a].task
  OBVIOUS
<1>4. CASE /\ t # 0 /\ Alive(t)
           /\ command' = [command EXCEPT ![c].pc = "waiting", ![c].task = t]
           /\ task' = [task EXCEPT ![t].cancel = IF task[t].pc = "reaping" THEN "again"
                                                 ELSE IF @ = "no" THEN "kill" ELSE @]
  <2>1. t \in Tasks /\ task[t].of = a /\ task[t] \in TaskRec
    BY <1>2, <1>3, <1>4 DEF SInv, Typed, ProcKnown, AgentRec
  <2> DEFINE com == [command[c] EXCEPT !.pc = "waiting", !.task = t]
             x == IF task[t].pc = "reaping" THEN "again"
                  ELSE IF task[t].cancel = "no" THEN "kill" ELSE task[t].cancel
             T == [task[t] EXCEPT !.cancel = x]
  <2>2. /\ com \in CommandRec /\ com.op = "kill" /\ com.pc = "waiting" /\ com.of = a
        /\ com.todo = command[c].todo /\ com.task = t
    BY <1>1, <1>2, <2>1 DEF CommandRec
  <2>3. command' = [command EXCEPT ![c] = com]
    BY <1>4 DEF SInv, Typed
  <2>4. T \in TaskRec /\ T.of = a /\ T.pc = task[t].pc /\ T.proc = task[t].proc
    BY <2>1 DEF TaskRec
  <2>5. task' = [task EXCEPT ![t] = T]
    BY <1>4, <2>1 DEF SInv, Typed
  <2> HIDE DEF com, x
  <2>6. TasksCancelled
    <3>1. T = [task[t] EXCEPT !.cancel = x]
      OBVIOUS
    <3>2. \E y : T = [task[t] EXCEPT !.cancel = y]
      BY <3>1
    <3> HIDE DEF T
    <3>3. /\ task' \in [Tasks -> TaskRec]
          /\ \A u \in Tasks : task'[u] = task[u] \/ (u = t /\ task'[u] = T)
      BY <2>4, <2>5 DEF SInv, Typed
    <3> QED
      BY <1>4, <3>2, <3>3 DEF TasksCancelled
  <2> HIDE DEF T
  <2>7. /\ \A d \in Commands : command'[d] = IF d = c THEN com ELSE command[d]
        /\ \A u \in Tasks : task'[u] = IF u = t THEN T ELSE task[u]
    BY <2>3, <2>5 DEF SInv, Typed
  <2>8. \A u \in Tasks : /\ task'[u].of = task[u].of /\ Alive(u)' = Alive(u) /\ Hinted(u)' = Hinted(u)
                         /\ task'[u].pc = task[u].pc /\ task'[u].proc = task[u].proc
    BY <1>2, <2>1, <2>4, <2>7 DEF Alive, Hinted
  <2>9. \A d \in Commands, u \in Tasks, pcs \in SUBSET {"waiting", "cancelled"} :
          Kills(d, u, pcs) => Kills(d, u, pcs)' /\ command'[d].task = command[d].task
    BY <1>2, <2>7, <2>8 DEF Kills
  <2>10. CancelOwned'
    <3>1. Kills(c, t, {"waiting"})' /\ command'[c].task = t
      BY <2>1, <2>2, <2>7, <2>8 DEF Kills
    <3>2. \A u \in Tasks \ {t} : task'[u] = task[u]
      BY <2>7
    <3> QED
      BY <2>8, <2>9, <3>1, <3>2 DEF SInv, CancelOwned
  <2>11. OrphanOwned'
    BY <1>2, <2>8, <2>9 DEF SInv, OrphanOwned
  <2> QED
    BY <1>1, <1>2, <2>2, <2>3, <2>6, <2>10, <2>11, KillGoes
<1>5. CASE Goes(c, "cancelled") /\ task' = task
  <2> DEFINE com == [command[c] EXCEPT !.pc = "cancelled"]
  <2>1. /\ com \in CommandRec /\ com.op = "kill" /\ com.pc = "cancelled" /\ com.of = command[c].of
        /\ com.todo = command[c].todo
    BY <1>2 DEF CommandRec
  <2>2. command' = [command EXCEPT ![c] = com]
    BY <1>5 DEF Goes, SInv, Typed
  <2> HIDE DEF com
  <2>3. \A d \in Commands : command'[d] = IF d = c THEN com ELSE command[d]
    BY <2>2 DEF SInv, Typed
  <2>4. TasksCancelled
    BY <1>5 DEF TasksCancelled, SInv, Typed
  <2>5. \A d \in Commands, u \in Tasks, pcs \in SUBSET {"waiting", "cancelled"} :
          Kills(d, u, pcs) => Kills(d, u, pcs)' /\ command'[d] = command[d]
    BY <1>2, <1>5, <2>3 DEF Kills
  <2>6. CancelOwned' /\ OrphanOwned'
    BY <1>2, <1>5, <2>5 DEF SInv, CancelOwned, OrphanOwned, Hinted, Alive
  <2> QED
    BY <1>2, <2>1, <2>2, <2>4, <2>6, KillGoes
<1> QED
  BY <1>1, <1>3, <1>4, <1>5 DEF KillCancels

LEMMA KillWaitedKeeps ==
  ASSUME SInv, NEW c \in Commands, KillWaited(c)
  PROVE  SInv'
<1>1. /\ command[c].op = "kill" /\ command[c].pc = "waiting" /\ ~Alive(command[c].task)
      /\ command[c] \in CommandRec /\ UNCHANGED <<harness, agent, work, results, task>>
  BY DEF KillWaited, At, SInv, Typed
<1> DEFINE com == [command[c] EXCEPT !.pc = "cancelled"]
<1>2. /\ com \in CommandRec /\ com.op = "kill" /\ com.pc = "cancelled" /\ com.of = command[c].of
      /\ com.todo = command[c].todo /\ com.task = command[c].task
  BY <1>1 DEF CommandRec
<1>3. command' = [command EXCEPT ![c] = com]
  BY DEF KillWaited, Goes, SInv, Typed
<1> HIDE DEF com
<1>4. \A d \in Commands : command'[d] = IF d = c THEN com ELSE command[d]
  BY <1>3 DEF SInv, Typed
<1>5. TasksCancelled
  BY <1>1 DEF TasksCancelled, SInv, Typed
<1>6. CancelOwned'
  <2>1. \A d \in Commands, u \in Tasks : Kills(d, u, {"waiting"}) /\ d # c => Kills(d, u, {"waiting"})'
    BY <1>1, <1>4 DEF Kills
  <2>2. \A u \in Tasks : task[u].pc \in {"new", "launch", "telling"} => Alive(u)
    BY DEF Alive
  <2>3. \A u \in Tasks : Hinted(u)' = Hinted(u)
    BY <1>1 DEF Hinted
  <2> QED
    BY <1>1, <1>4, <2>1, <2>2, <2>3 DEF SInv, CancelOwned
<1>7. OrphanOwned'
  <2>1. \A d \in Commands, u \in Tasks : Kills(d, u, {"waiting", "cancelled"}) => Kills(d, u, {"waiting", "cancelled"})'
    BY <1>1, <1>2, <1>4 DEF Kills
  <2> QED
    BY <1>1, <2>1 DEF SInv, OrphanOwned, Hinted, Alive
<1> QED
  BY <1>1, <1>2, <1>3, <1>5, <1>6, <1>7, KillGoes

LEMMA KillSignalsKeeps ==
  ASSUME SInv, NEW c \in Commands, KillSignals(c)
  PROVE  SInv'
<1>1. PICK a : a = command[c].of
  OBVIOUS
<1>2. /\ command[c].op = "kill" /\ command[c].pc = "cancelled"
      /\ command[c] \in CommandRec /\ UNCHANGED <<harness, agent, work, results>>
      /\ task' = IF LiveProc(a) = 0 THEN task ELSE Signalled(task, LiveProc(a))
  BY <1>1 DEF KillSignals, At, SInv, Typed
<1>3. a \in Made /\ a \in Agents
  BY <1>1, <1>2, WorksOn
<1> DEFINE com == [command[c] EXCEPT !.pc = "telling"]
<1>4. /\ com \in CommandRec /\ com.op = "kill" /\ com.pc = "telling" /\ com.of = command[c].of
      /\ com.todo = command[c].todo
  BY <1>2 DEF CommandRec
<1>5. command' = [command EXCEPT ![c] = com]
  BY DEF KillSignals, Goes, SInv, Typed
<1> HIDE DEF com
<1>6. \A d \in Commands : command'[d] = IF d = c THEN com ELSE command[d]
  BY <1>5 DEF SInv, Typed
<1>7. /\ task' \in [Tasks -> TaskRec]
      /\ \A u \in Tasks : \/ task'[u] = task[u] /\ (u # agent[a].proc \/ task[u].proc # "live")
                          \/ /\ task[u].proc = "live" /\ u = agent[a].proc
                             /\ task'[u] = [task[u] EXCEPT !.proc = "signalled"]
  <2>1. CASE LiveProc(a) = 0
    BY <1>2, <1>3, <2>1 DEF LiveProc, SInv, Typed, Tasks
  <2>2. CASE LiveProc(a) # 0
    <3>1. PICK p \in Tasks : p = LiveProc(a) /\ p = agent[a].proc /\ task[p].proc = "live" /\ task[p] \in TaskRec
      BY <1>3, <2>2, LiveProcIn DEF SInv, Typed
    <3> DEFINE T == [task[p] EXCEPT !.proc = "signalled"]
    <3>2. T \in TaskRec
      BY <3>1 DEF TaskRec
    <3>3. task' = [task EXCEPT ![p] = T]
      BY <1>2, <2>2, <3>1 DEF Signalled, SInv, Typed
    <3>4. \A u \in Tasks : task'[u] = IF u = p THEN T ELSE task[u]
      BY <3>3 DEF SInv, Typed
    <3> QED
      BY <3>1, <3>2, <3>3, <3>4 DEF SInv, Typed
  <2> QED
    BY <2>1, <2>2
<1>8. TasksCancelled
  BY <1>7 DEF TasksCancelled
<1>9. \A u \in Tasks :
        /\ task'[u].of = task[u].of /\ task'[u].pc = task[u].pc /\ task'[u].cancel = task[u].cancel
        /\ task'[u].proc = "live" => task[u].proc = "live" /\ u # agent[a].proc
  <2> TAKE u \in Tasks
  <2>1. task[u] \in TaskRec
    BY DEF SInv, Typed
  <2> QED
    BY <1>7, <2>1 DEF TaskRec
<1>10. \A u \in Tasks : Hinted(u)' = Hinted(u) /\ Alive(u)' = Alive(u)
  BY <1>2, <1>9 DEF Hinted, Alive
<1>11. CancelOwned'
  <2>1. \A d \in Commands, u \in Tasks : Kills(d, u, {"waiting"}) => Kills(d, u, {"waiting"})' /\ command'[d] = command[d]
    BY <1>2, <1>6, <1>9 DEF Kills
  <2> QED
    BY <1>9, <1>10, <2>1 DEF SInv, CancelOwned
<1>12. OrphanOwned'
  <2> SUFFICES ASSUME NEW u \in Tasks, task'[u].proc = "live", ~Alive(u)', agent'[task'[u].of].proc = u
               PROVE  \E d \in Commands : Kills(d, u, {"waiting", "cancelled"})'
    BY DEF OrphanOwned
  <2>1. task[u].proc = "live" /\ u # agent[a].proc /\ ~Alive(u)
    BY <1>9, <1>10
  <2>3. agent[task[u].of].proc = u
    BY <1>2, <1>9
  <2>2. PICK d \in Commands : Kills(d, u, {"waiting", "cancelled"})
    BY <2>1, <2>3 DEF SInv, OrphanOwned
  <2>4. d # c
    BY <1>1, <2>1, <2>2, <2>3 DEF Kills
  <2>5. Kills(d, u, {"waiting", "cancelled"})'
    BY <1>6, <1>9, <2>2, <2>4 DEF Kills
  <2> QED
    BY <2>5
<1> QED
  BY <1>2, <1>4, <1>5, <1>8, <1>11, <1>12, KillGoes

-----------------------------------------------------------------------------
LEMMA StutterKeeps ==
  ASSUME SInv, UNCHANGED vars
  PROVE  SInv'
<1>1. CommandsFit /\ AgentsFit
  BY DEF vars, CommandsFit, AgentsFit, SInv, Typed, Blank
<1> QED
  BY <1>1, NothingInterrupted, TouchKeeps DEF vars

LEMMA StepKeeps ==
  ASSUME SInv, [Next]_vars
  PROVE  SInv'
<1>1. CASE SpawnCalled \/ StopCalled \/ HintCalled \/ KillCalled \/ ConfirmCalled
  BY <1>1, SpawnCalledKeeps, StopCalledKeeps, HintCalledKeeps, KillCalledKeeps, ConfirmCalledKeeps
<1>2. ASSUME NEW c \in Commands, CommandStep(c)
      PROVE  SInv'
  <2>1. CASE StopReturns(c) \/ SpawnClears(c) \/ SpawnStopped(c) \/ SpawnInserts(c) \/ SpawnStarts(c)
    BY <2>1, StopReturnsKeeps, SpawnClearsKeeps, SpawnStoppedKeeps, SpawnInsertsKeeps, SpawnStartsKeeps
  <2>2. CASE HintInterrupts(c) \/ HintStarts(c)
    BY <2>2, HintInterruptsKeeps, HintStartsKeeps
  <2>3. CASE KillCancels(c) \/ KillWaited(c) \/ KillSignals(c) \/ KillPops(c)
    BY <2>3, KillCancelsKeeps, KillWaitedKeeps, KillSignalsKeeps, KillPopsKeeps
  <2> QED
    BY <1>2, <2>1, <2>2, <2>3 DEF CommandStep
<1>3. ASSUME NEW t \in Tasks, TaskStep(t) \/ ProcExits(t) \/ FourHours(t)
      PROVE  SInv'
  <2>1. CASE TaskBegins(t) \/ Launched(t) \/ LaunchFails(t) \/ Told(t)
    BY <2>1, TaskBeginsKeeps, LaunchedKeeps, LaunchFailsKeeps, ToldKeeps
  <2>2. CASE ResultReceived(t) \/ NoResult(t) \/ SubprocessOver(t) \/ Judged(t)
    BY <2>2, ResultReceivedKeeps, NoResultKeeps, SubprocessOverKeeps, JudgedKeeps
  <2>3. CASE RestEnds(t) \/ Cancelled(t) \/ ProcExits(t) \/ FourHours(t)
    BY <2>3, RestEndsKeeps, CancelledKeeps, ProcExitsKeeps, FourHoursKeeps
  <2> QED
    BY <1>3, <2>1, <2>2, <2>3 DEF TaskStep
<1>4. ASSUME NEW a \in Agents, WorkEnds(a)
      PROVE  SInv'
  BY <1>4, WorkEndsKeeps
<1>5. CASE UNCHANGED vars
  BY <1>5, StutterKeeps
<1> QED
  BY <1>1, <1>2, <1>3, <1>4, <1>5 DEF Next

LEMMA SessionInvariant == Spec => []SInv
<1>1. Init => SInv
  BY InitSession
<1>2. SInv /\ [Next]_vars => SInv'
  BY StepKeeps
<1> QED
  BY <1>1, <1>2, PTL DEF Spec

(* Agents, tasks and clients keep to their types, and tasks belong to       *)
(* agents that were made (the AgentState table and its tasks).              *)
THEOREM SessionTypeHolds == Spec => []SessionTypeOK
<1>1. SInv => SessionTypeOK
  BY DEF SInv, Typed, Blank, AgentRec, SessionTypeOK
<1> QED
  BY <1>1, SessionInvariant, PTL

(* No turn that stop_agent interrupted is taken for a finished one and      *)
(* evaluated, but for agents that were hinted: _resolve_completion          *)
(* (agent_orchestrator.py:3157) finds the status stop_agent has left.       *)
THEOREM StopIsNoAnswerHolds == Spec => []StopIsNoAnswer
<1>1. SInv => StopIsNoAnswer
  <2>1. CASE SDK
    BY <2>1 DEF SInv, ResultInterrupted, Hinted, StopIsNoAnswer
  <2>2. CASE ~SDK
    BY <2>2 DEF SInv, ProcInterrupted, Hinted, StopIsNoAnswer
  <2> QED
    BY <2>1, <2>2
<1> QED
  BY <1>1, SessionInvariant, PTL

(* A subprocess that no task waits for any more has been signalled, or a    *)
(* kill_agent that is not over yet will signal it, or its agent was hinted  *)
(* and a later turn took its place in state.proc.                           *)
THEOREM OrphansSignalledHolds == Spec => []OrphansSignalled
<1>1. SInv => OrphansSignalled
  BY DEF SInv, OrphanOwned, ProcKnown, Kills, Hinted, OrphansSignalled
<1> QED
  BY <1>1, SessionInvariant, PTL

-----------------------------------------------------------------------------
(* What is true of commands, agents and tasks as long as nothing overlaps.  *)
(* One command runs at a time, and one agent is in the table, which a spawn *)
(* takes out before it puts its own there.                                  *)
Busy(c) == command[c].pc # "over"
Serial == \A c, d \in Commands : Busy(c) /\ Busy(d) => c = d

Clearing(c) == command[c].op = "spawn" /\ command[c].pc \in {"clearing", "stopping"}

Table ==
  /\ \A a, b \in Agents : agent[a].listed /\ agent[b].listed => a = b
  /\ \A c \in Commands : Clearing(c) => \A a \in Agents : agent[a].listed => a \in command[c].todo
  /\ \A a \in Agents : agent[a].client # "none" /\ ~agent[a].listed => agent[a].exit
  /\ \A c \in Commands : command[c].op = "kill" => agent[command[c].of].exit
  /\ \A c \in Commands : Busy(c) /\ command[c].op = "hint" => agent[command[c].of].listed

(* An agent that was inserted has done nothing, and has no task.            *)
Fresh ==
  \A c \in Commands : Inserted(c) =>
    /\ agent[command[c].of].listed
    /\ work[command[c].of] = <<>> /\ results[command[c].of] = <<>>
    /\ \A t \in Tasks : task[t].of # command[c].of

(* Every task of openclaw works for its agent; under SDK it is the runner   *)
(* that owns the client.                                                    *)
Main(t) == Runner(t) \/ ~SDK
Live(t) == task[t].proc = "live"
Engaged(t) == task[t].pc \in {"new", "launch", "telling", "turn", "judge"} \/ Live(t)

(* Which commands are about a, which have taken its subprocess from it, and *)
(* which have told it to stop.                                              *)
Aimed(c, a) == command[c].pc \notin {"over", "inserted"} /\ (command[c].of = a \/ a \in command[c].todo)
Halting(c, a) == command[c].pc = "stopping" /\ command[c].todo # {} /\ a = First(command[c].todo)
Cleared(c, a) == (command[c].pc \in {"hinting", "telling"} /\ command[c].of = a) \/ Halting(c, a)
Halted(c, a) == (command[c].op = "kill" /\ command[c].of = a /\ Aimed(c, a)) \/ Halting(c, a)

(* A command meets no agent that is starting; what it has stopped stays so. *)
Aim(c, t, a) ==
  /\ Aimed(c, a) /\ Main(t) => task[t].pc \notin {"new", "launch"}
  /\ command[c].pc = "hinting" /\ command[c].of = a /\ Main(t) => task[t].pc \notin {"telling", "turn", "judge"}
  /\ Cleared(c, a) => ~Live(t)
  /\ Halted(c, a) /\ Runner(t) /\ task[t].pc \in {"telling", "turn"} => agent[a].status # "running"

Aims(a) == \A c \in Commands, t \in Tasks : task[t].of = a => Aim(c, t, a)

(* An agent has one runner, and nothing is at work beside a main task.      *)
Alone(a) ==
  \A t, u \in Tasks : task[t].of = a /\ task[u].of = a =>
    /\ Runner(t) /\ Runner(u) => t = u
    /\ Main(t) /\ Engaged(t) /\ Engaged(u) => t = u

Begins(a) == \A t \in Tasks : task[t].of = a /\ Main(t) /\ task[t].pc \in {"new", "launch"} => agent[a].listed

(* SDK: the client is open as long as its runner works or rests, and a turn *)
(* of the runner has one query, interrupted if the agent does not run.      *)
Interrupted(q) == \A i \in 1..Len(q) : q[i]

RunnerFits(t, a) ==
  /\ task[t].pc \in {"turn", "judge", "rest"} => agent[a].client = "open"
  /\ task[t].pc \in {"new", "launch", "judge"} => Idle(a)
  /\ task[t].pc = "turn" => /\ Len(work[a]) + Len(results[a]) <= 1
                            /\ Interrupted(work[a]) \/ (agent[a].listed /\ agent[a].status = "running")

SdkAgent(a) ==
  SDK =>
    /\ \A t \in Tasks : task[t].of = a => /\ task[t].pc \in {"launch", "rest"} => Runner(t)
                                          /\ Runner(t) => RunnerFits(t, a)
    /\ agent[a].client = "open" =>
         \E t \in Tasks : task[t].of = a /\ Runner(t) /\ task[t].pc \in {"turn", "judge", "rest"}

(* openclaw: a subprocess that lives is the one its agent knows, that runs, *)
(* unless a kill is about to signal it.                                     *)
Dying(t) == \E c \in Commands : Kills(c, t, {"killing", "waiting", "cancelled"})

ProcFits(t, a) ==
  /\ Live(t) => agent[a].proc = t /\ agent[a].listed
  /\ Live(t) => (agent[a].status = "running" /\ task[t].pc \in {"telling", "turn"}) \/ Dying(t)
  /\ task[t].pc \in {"new", "launch", "telling"} /\ task[t].cancel # "no" =>
       \E c \in Commands : Kills(c, t, {"waiting"}) /\ command[c].task = t

CliAgent(a) ==
  ~SDK => /\ agent[a].client = "none"
          /\ \A t \in Tasks : task[t].of = a => ProcFits(t, a)

Local(a) == Aims(a) /\ Alone(a) /\ Begins(a) /\ SdkAgent(a) /\ CliAgent(a)

Orderly == Serial /\ Table /\ Fresh /\ \A a \in Agents : Local(a)

(* As long as nothing overlaps.                                             *)
OInv == ~overlap => Orderly

-----------------------------------------------------------------------------
LEMMA OneTurnFollows ==
  ASSUME SInv, OInv
  PROVE  OneTurn
<1> SUFFICES ASSUME ~overlap
             PROVE  /\ Cardinality({a \in Agents : Querying(a)}) <= 1
                    /\ Cardinality({t \in Tasks : task[t].proc = "live"}) <= 1
  BY DEF OneTurn
<1>0. Orderly
  BY DEF OInv
<1>1. ASSUME NEW S, \A x, y \in S : x = y
      PROVE  Cardinality(S) <= 1
  <2>1. CASE S = {}
    BY <2>1, FS_EmptySet
  <2>2. CASE S # {}
    <3>1. PICK x \in S : S = {x}
      BY <1>1, <2>2
    <3> QED
      BY <3>1, FS_Singleton
  <2> QED
    BY <2>1, <2>2
<1>2. ASSUME NEW a \in Agents, Querying(a)
      PROVE  agent[a].listed
  <2>1. agent[a].client = "open" /\ ~Interrupted(work[a])
    BY <1>2 DEF Querying, Interrupted
  <2>2. SDK /\ Local(a)
    BY <1>0, <2>1 DEF Orderly, Local, CliAgent
  <2>3. PICK t \in Tasks : task[t].of = a /\ Runner(t) /\ task[t].pc \in {"turn", "judge", "rest"}
    BY <2>1, <2>2 DEF Local, SdkAgent
  <2>4. RunnerFits(t, a)
    BY <2>2, <2>3 DEF Local, SdkAgent
  <2>5. CASE task[t].pc = "turn"
    BY <2>1, <2>4, <2>5 DEF RunnerFits
  <2>6. CASE task[t].pc = "judge"
    BY <2>1, <2>4, <2>6 DEF RunnerFits, Idle, Interrupted
  <2>7. CASE task[t].pc = "rest"
    <3>1. t \in TasksOf(a)
      BY <2>3, <2>7 DEF TasksOf, Alive
    <3>2. ~agent[a].exit
      BY <1>2, <2>7, <3>1 DEF Querying
    <3> QED
      BY <1>0, <2>1, <3>2 DEF Orderly, Table
  <2> QED
    BY <2>3, <2>5, <2>6, <2>7
<1>3. \A a, b \in {x \in Agents : Querying(x)} : a = b
  BY <1>0, <1>2 DEF Orderly, Table
<1>4. \A t, u \in {x \in Tasks : task[x].proc = "live"} : t = u
  <2> SUFFICES ASSUME NEW t \in Tasks, NEW u \in Tasks, task[t].proc = "live", task[u].proc = "live"
               PROVE  t = u
    OBVIOUS
  <2>1. ~SDK
    BY DEF SInv, Modes
  <2>2. task[t].of \in Agents /\ task[u].of \in Agents
    BY DEF SInv, Blank, NoTask, Made
  <2>3. agent[task[t].of].listed /\ agent[task[u].of].listed
    BY <1>0, <2>1, <2>2 DEF Orderly, Local, CliAgent, ProcFits, Live
  <2>4. task[t].of = task[u].of
    BY <1>0, <2>2, <2>3 DEF Orderly, Table
  <2> QED
    BY <1>0, <2>1, <2>2, <2>4 DEF Orderly, Local, Alone, Main, Engaged, Live
<1> QED
  BY <1>1, <1>3, <1>4

-----------------------------------------------------------------------------
LEMMA AimedIf ==
  ASSUME Typed, NEW c \in Commands, NEW a \in Agents, Cleared(c, a) \/ Halted(c, a)
  PROVE  Aimed(c, a)
<1>1. command[c] \in CommandRec
  BY DEF Typed
<1>2. command[c].todo \in SUBSET Nat
  BY <1>1 DEF CommandRec, Agents
<1>3. Halting(c, a) => a \in command[c].todo
  BY <1>2, FirstIn DEF Halting
<1> QED
  BY <1>3 DEF Cleared, Halted, Aimed, Halting

(* A step that is not about the agent b.                                    *)
AgentSame(b) ==
  /\ agent'[b].listed = agent[b].listed /\ agent'[b].status = agent[b].status
  /\ agent'[b].client = agent[b].client /\ agent'[b].proc = agent[b].proc
  /\ work'[b] = work[b] /\ results'[b] = results[b]

TasksSame(b) == \A t \in Tasks : task[t].of = b \/ task'[t].of = b => task'[t] = task[t]

CommandsSame(b) ==
  \A c \in Commands :
    \/ command'[c] = command[c]
    \/ /\ command[c].op # "kill" \/ command[c].of # b
       /\ Aimed(c, b)' => Aimed(c, b)
       /\ ~Cleared(c, b)' /\ ~Halted(c, b)'

LEMMA Elsewhere ==
  ASSUME NEW b \in Agents, Local(b), SDK' = SDK, AgentSame(b), TasksSame(b), CommandsSame(b)
  PROVE  Local(b)'
<1>1. \A t \in Tasks : task'[t].of = b => /\ task[t].of = b /\ task'[t] = task[t]
                                          /\ Runner(t)' = Runner(t) /\ Main(t)' = Main(t)
                                          /\ Live(t)' = Live(t) /\ Engaged(t)' = Engaged(t)
  BY DEF TasksSame, Runner, Main, Live, Engaged
<1>2. Aims(b)'
  <2> SUFFICES ASSUME NEW c \in Commands, NEW t \in Tasks, task'[t].of = b
               PROVE  Aim(c, t, b)'
    BY DEF Aims
  <2>1. Aim(c, t, b)
    BY <1>1 DEF Local, Aims
  <2>2. CASE command'[c] = command[c]
    <3>1. (Aimed(c, b)' <=> Aimed(c, b)) /\ (Halting(c, b)' <=> Halting(c, b))
      BY <2>2 DEF Aimed, Halting
    <3>2. (Cleared(c, b)' <=> Cleared(c, b)) /\ (Halted(c, b)' <=> Halted(c, b))
      BY <2>2, <3>1 DEF Cleared, Halted
    <3> QED
      BY <1>1, <2>1, <2>2, <3>1, <3>2 DEF Aim, AgentSame
  <2>3. CASE (Aimed(c, b)' => Aimed(c, b)) /\ ~Cleared(c, b)' /\ ~Halted(c, b)'
    BY <1>1, <2>1, <2>3 DEF Aim, Cleared
  <2> QED
    BY <2>2, <2>3 DEF CommandsSame
<1>3. Alone(b)'
  BY <1>1 DEF Local, Alone
<1>4. Begins(b)'
  BY <1>1 DEF Local, Begins, AgentSame
<1>5. SdkAgent(b)'
  <2>1. \A t \in Tasks : task'[t].of = b /\ RunnerFits(t, b) => RunnerFits(t, b)'
    BY <1>1 DEF RunnerFits, AgentSame, Interrupted, Idle
  <2>2. \A t \in Tasks : task[t].of = b => task'[t] = task[t] /\ Runner(t)' = Runner(t)
    BY DEF TasksSame, Runner
  <2> QED
    BY <1>1, <2>1, <2>2 DEF Local, SdkAgent, AgentSame
<1>6. CliAgent(b)'
  <2>1. \A t \in Tasks, pcs \in SUBSET {"killing", "waiting", "cancelled"}, c \in Commands :
          task'[t].of = b /\ Kills(c, t, pcs) => Kills(c, t, pcs)' /\ command'[c] = command[c]
    BY <1>1 DEF CommandsSame, Kills
  <2>2. \A t \in Tasks : task'[t].of = b /\ ProcFits(t, b) => ProcFits(t, b)'
    BY <1>1, <2>1 DEF ProcFits, AgentSame, Dying
  <2> QED
    BY <1>1, <2>2 DEF Local, CliAgent, AgentSame
<1> QED
  BY <1>2, <1>3, <1>4, <1>5, <1>6 DEF Local

(* No command moves: a task of a does.                                      *)
CommandsStay == UNCHANGED <<harness, command>>

OnlyAgent(a) == \A b \in Agents \ {a} : AgentSame(b) /\ TasksSame(b)

Rested(a) ==   \* who was told to leave is not kept
  /\ \A b \in Agents : agent'[b].listed = agent[b].listed /\ (agent[b].exit => agent'[b].exit)
  /\ agent[a].client = "none" /\ agent'[a].client # "none" => agent[a].listed

LEMMA TaskStepKeeps ==
  ASSUME SInv, Orderly, CommandsStay, NEW a \in Agents, OnlyAgent(a), Rested(a), Local(a)',
         \A c \in Commands : Inserted(c) => command[c].of # a
  PROVE  Orderly'
<1>1. /\ command' = command /\ SDK' = SDK
      /\ \A b \in Agents \ {a} : CommandsSame(b)
  BY DEF CommandsStay, SDK, CommandsSame
<1>2. \A b \in Agents : Local(b)'
  BY <1>1, Elsewhere DEF OnlyAgent, Orderly
<1>3. Serial'
  BY <1>1 DEF Orderly, Serial, Busy
<1>4. Fresh'
  <2> SUFFICES ASSUME NEW c \in Commands, Inserted(c)
               PROVE  LET b == command[c].of IN
                      /\ agent'[b].listed /\ work'[b] = <<>> /\ results'[b] = <<>>
                      /\ \A t \in Tasks : task'[t].of # b
    BY <1>1 DEF Fresh, Inserted
  <2>1. command[c].of \in Agents /\ command[c].of # a
    BY DEF SInv, SpawnsOwn, Made
  <2> QED
    BY <2>1 DEF Orderly, Fresh, OnlyAgent, AgentSame, TasksSame
<1>5. Table'
  <2>1. \A b \in Agents : agent'[b].listed = agent[b].listed /\ (agent[b].exit => agent'[b].exit)
    BY DEF Rested
  <2>2. \A b \in Agents : agent'[b].client # "none" /\ ~agent'[b].listed => agent'[b].exit
    BY <2>1 DEF Rested, OnlyAgent, AgentSame, Orderly, Table
  <2>3. \A c \in Commands : command[c].op \in {"hint", "kill"} => command[c].of \in Agents
    BY DEF SInv, SpawnsOwn, Sound, Made
  <2> QED
    BY <1>1, <2>1, <2>2, <2>3 DEF Orderly, Table, Clearing, Busy
<1> QED
  BY <1>2, <1>3, <1>4, <1>5 DEF Orderly

-----------------------------------------------------------------------------
(* The task t of agent a goes on, as T.                                     *)
Moves(t, a, T) ==
  /\ task[t].of = a /\ task' = [task EXCEPT ![t] = T] /\ T.of = a
  /\ T.kind = task[t].kind \/ (T.kind = "none" /\ T.pc = "over")
  /\ T.pc \in {"new", "launch"} => task[t].pc \in {"new", "launch"}
  /\ T.pc \in {"telling", "turn"} => task[t].pc \in {"new", "launch", "telling", "turn"}
  /\ T.pc = "judge" => task[t].pc \in {"turn", "judge"}
  /\ T.proc = "live" => Live(t) \/ task[t].pc = "launch"
  /\ agent'[a].listed = agent[a].listed
  /\ agent'[a].status = "running" => agent[a].status = "running" \/ (Engaged(t) /\ T.pc \notin {"telling", "turn"})
                                       \/ (Main(t) /\ task[t].pc = "launch")

LEMMA MovesKeep ==
  ASSUME Typed, Orderly, CommandsStay, NEW t \in Tasks, NEW a \in Agents, NEW T \in TaskRec, Moves(t, a, T)
  PROVE  Aims(a)' /\ Alone(a)' /\ Begins(a)' /\ \A b \in Agents \ {a} : TasksSame(b)
<1>1. /\ \A u \in Tasks : task'[u] = IF u = t THEN T ELSE task[u]
      /\ \A u \in Tasks : u # t => task'[u] = task[u] /\ Runner(u)' = Runner(u) /\ Main(u)' = Main(u)
                                   /\ Live(u)' = Live(u) /\ Engaged(u)' = Engaged(u)
      /\ \A u \in Tasks : task'[u].of = a <=> task[u].of = a
      /\ task[t].of = a /\ T.of = a /\ command' = command /\ (SDK' <=> SDK)
      /\ Runner(t)' => Runner(t)
      /\ Main(t)' => Main(t)
      /\ Engaged(t)' => Engaged(t)
  <2>1. \A u \in Tasks : task'[u] = IF u = t THEN T ELSE task[u]
    BY DEF Moves, Typed
  <2>2. \A u \in Tasks : task'[u].of = a <=> task[u].of = a
    BY <2>1 DEF Moves
  <2>3. command' = command /\ (SDK' <=> SDK)
    BY DEF CommandsStay, SDK
  <2>4. \A u \in Tasks : u # t => task'[u] = task[u] /\ Runner(u)' = Runner(u) /\ Main(u)' = Main(u)
                                   /\ Live(u)' = Live(u) /\ Engaged(u)' = Engaged(u)
    BY <2>1, <2>3 DEF Runner, Main, Live, Engaged
  <2>5. (Runner(t)' => Runner(t)) /\ (Main(t)' => Main(t)) /\ (Engaged(t)' => Engaged(t))
    BY <2>1, <2>3 DEF Moves, Runner, Main, Live, Engaged
  <2> QED
    BY <2>1, <2>2, <2>3, <2>4, <2>5 DEF Moves
<1>2. \A c \in Commands : /\ Aimed(c, a)' = Aimed(c, a) /\ Halting(c, a)' = Halting(c, a)
                          /\ Cleared(c, a)' = Cleared(c, a) /\ Halted(c, a)' = Halted(c, a)
  BY <1>1 DEF Aimed, Halting, Cleared, Halted
<1>3. \A c \in Commands : (Cleared(c, a) \/ Halted(c, a) => Aimed(c, a))
  BY AimedIf
<1>4. Alone(a)'
  BY <1>1 DEF Orderly, Local, Alone
<1>5. Begins(a)'
  BY <1>1 DEF Orderly, Local, Begins, Moves
<1>6. Aims(a)'
  <2> SUFFICES ASSUME NEW c \in Commands, NEW u \in Tasks, task'[u].of = a
               PROVE  Aim(c, u, a)'
    BY DEF Aims
  <2>1. Aim(c, u, a) /\ Aim(c, t, a) /\ task[u].of = a
    BY <1>1 DEF Orderly, Local, Aims
  <2>2. Aimed(c, a)' /\ Main(u)' => task'[u].pc \notin {"new", "launch"}
    BY <1>1, <1>2, <2>1 DEF Aim, Moves
  <2>3. command'[c].pc = "hinting" /\ command'[c].of = a /\ Main(u)' => task'[u].pc \notin {"telling", "turn", "judge"}
    <3>1. command[c].pc = "hinting" /\ command[c].of = a => Aimed(c, a)
      BY DEF Aimed
    <3> QED
      BY <1>1, <2>1, <3>1 DEF Aim, Moves
  <2>4. Cleared(c, a)' => ~Live(u)'
    <3>1. CASE u # t
      BY <1>1, <1>2, <2>1, <3>1 DEF Aim
    <3>2. CASE u = t
      <4>1. Live(t)' => Live(t) \/ task[t].pc = "launch"
        BY <1>1 DEF Live, Moves
      <4>2. task[t].pc = "launch" => Main(t)
        BY <1>1 DEF Orderly, Local, SdkAgent, Main
      <4> QED
        BY <1>2, <1>3, <2>1, <3>2, <4>1, <4>2 DEF Aim
    <3> QED
      BY <3>1, <3>2
  <2>5. ASSUME Halted(c, a)', Runner(u)', task'[u].pc \in {"telling", "turn"}, agent'[a].status = "running"
        PROVE  FALSE
    <3>1. Halted(c, a) /\ Aimed(c, a) /\ Runner(u)
      BY <1>1, <1>2, <1>3, <2>5
    <3>2. ~(Main(t) /\ task[t].pc = "launch")
      BY <2>1, <3>1 DEF Aim
    <3>3. CASE u # t
      <4>1. task[u].pc \in {"telling", "turn"} /\ Engaged(u) /\ Main(u)
        BY <1>1, <2>5, <3>1, <3>3 DEF Engaged, Main
      <4>2. agent[a].status # "running"
        BY <2>1, <3>1, <4>1 DEF Aim
      <4>3. Engaged(t)
        BY <2>5, <3>2, <4>2 DEF Moves
      <4> QED
        BY <1>1, <2>1, <3>3, <4>1, <4>3 DEF Orderly, Local, Alone
    <3>4. CASE u = t
      <4>1. T.pc \in {"telling", "turn"} /\ T.kind = task[t].kind /\ Main(t)
        BY <1>1, <2>5, <3>1, <3>4 DEF Moves, Main
      <4>2. agent[a].status = "running"
        BY <2>5, <3>2, <4>1 DEF Moves
      <4>3. task[t].pc \in {"new", "launch", "telling", "turn"}
        BY <4>1 DEF Moves
      <4> QED
        BY <2>1, <3>1, <3>4, <4>1, <4>2, <4>3 DEF Aim, Moves
    <3> QED
      BY <3>3, <3>4
  <2> QED
    BY <2>2, <2>3, <2>4, <2>5 DEF Aim
<1> QED
  BY <1>1, <1>4, <1>5, <1>6 DEF TasksSame

(* What the agent's other tasks need of the step, under either harness.     *)
OthersKept(a) ==
  /\ \A b \in Agents \ {a} : agent'[b] = agent[b] \/ agent'[b] = [agent[b] EXCEPT !.exit = TRUE]
  /\ \A b \in Agents \ {a} : work'[b] = work[b] /\ results'[b] = results[b]
  /\ agent[a].exit => agent'[a].exit
  /\ agent[a].client = "none" /\ agent'[a].client # "none" => agent[a].listed

SdkGoes(t, a, T) ==
  /\ T.proc = "none"
  /\ T.pc \in {"launch", "rest"} => Runner(t) /\ T.kind = task[t].kind
  /\ Runner(t) /\ T.kind = task[t].kind => RunnerFits(t, a)'
  /\ Runner(t) /\ agent'[a].client = "open" => T.pc \in {"turn", "judge", "rest"} /\ T.kind = task[t].kind
  /\ ~Runner(t) => agent'[a].client = agent[a].client
  /\ Engaged(t)
     \/ (work'[a] = work[a] /\ results'[a] = results[a] /\ agent'[a].status = agent[a].status)
     \/ Runner(t)

CliGoes(t, a, T) ==
  /\ agent'[a].client = agent[a].client
  /\ ProcFits(t, a)'
  /\ \/ agent'[a].proc = agent[a].proc /\ agent'[a].status = agent[a].status
     \/ Engaged(t)
     \/ /\ agent'[a].proc = agent[a].proc
        /\ \A u \in Tasks : task[u].of = a /\ u # t /\ Live(u) => Dying(u)

LEMMA TurnKeeps ==
  ASSUME SInv, Orderly, CommandsStay, NEW t \in Tasks, task[t].pc # "none", NEW a, task[t].of = a,
         NEW T \in TaskRec, Moves(t, a, T), OthersKept(a),
         SDK => SdkGoes(t, a, T), ~SDK => CliGoes(t, a, T)
  PROVE  Orderly'
<1>1. a \in Agents /\ Typed
  BY TaskFacts DEF SInv
<1>2. Aims(a)' /\ Alone(a)' /\ Begins(a)' /\ \A b \in Agents \ {a} : TasksSame(b)
  BY <1>1, MovesKeep
<1>3. /\ \A u \in Tasks : task'[u] = IF u = t THEN T ELSE task[u]
      /\ \A u \in Tasks : u # t => task'[u] = task[u] /\ Runner(u)' = Runner(u) /\ Live(u)' = Live(u)
      /\ \A u \in Tasks : task'[u].of = a <=> task[u].of = a
      /\ Runner(t)' => Runner(t) /\ T.kind = task[t].kind
      /\ command' = command /\ (SDK' <=> SDK)
      /\ agent'[a].listed = agent[a].listed
  BY <1>1 DEF Moves, Typed, Runner, Live, CommandsStay, SDK
<1>4. SdkAgent(a)'
  <2> SUFFICES ASSUME SDK PROVE SdkAgent(a)'
    BY <1>3 DEF SdkAgent
  <2>1. SdkGoes(t, a, T) /\ SdkAgent(a) /\ Alone(a)
    BY <1>1 DEF Orderly, Local
  <2>2. ASSUME NEW u \in Tasks, task'[u].of = a
        PROVE  task'[u].pc \in {"launch", "rest"} => Runner(u)'
    BY <1>3, <2>1, <2>2 DEF SdkAgent, SdkGoes, Runner
  <2>3. ASSUME NEW u \in Tasks, task'[u].of = a, Runner(u)'
        PROVE  RunnerFits(u, a)'
    <3>1. CASE u = t
      BY <1>3, <2>1, <2>3, <3>1 DEF SdkGoes
    <3>2. CASE u # t
      <4>1. task[u].of = a /\ Runner(u) /\ task'[u] = task[u] /\ RunnerFits(u, a) /\ Main(u)
        BY <1>3, <2>1, <2>3, <3>2 DEF SdkAgent, Main
      <4>2. ~Runner(t) /\ agent'[a].client = agent[a].client
        BY <2>1, <3>2, <4>1 DEF Alone, SdkGoes
      <4>3. CASE Engaged(t)
        <5>1. ~Engaged(u)
          BY <2>1, <3>2, <4>1, <4>3 DEF Alone
        <5>2. task[u].pc \notin {"new", "launch", "turn", "judge"}
          BY <5>1 DEF Engaged
        <5> QED
          BY <4>1, <4>2, <5>2 DEF RunnerFits
      <4>4. CASE work'[a] = work[a] /\ results'[a] = results[a] /\ agent'[a].status = agent[a].status
        BY <1>3, <4>1, <4>2, <4>4 DEF RunnerFits, Idle, Interrupted
      <4> QED
        BY <2>1, <4>2, <4>3, <4>4 DEF SdkGoes
    <3> QED
      BY <3>1, <3>2
  <2>4. ASSUME agent'[a].client = "open"
        PROVE  \E u \in Tasks : task'[u].of = a /\ Runner(u)' /\ task'[u].pc \in {"turn", "judge", "rest"}
    <3>1. CASE Runner(t)
      BY <1>3, <2>1, <2>4, <3>1 DEF SdkGoes, Runner
    <3>2. CASE ~Runner(t)
      <4>1. agent[a].client = "open"
        BY <2>1, <2>4, <3>2 DEF SdkGoes
      <4>2. PICK u \in Tasks : task[u].of = a /\ Runner(u) /\ task[u].pc \in {"turn", "judge", "rest"}
        BY <2>1, <4>1 DEF SdkAgent
      <4>3. u # t
        BY <3>2, <4>2
      <4> QED
        BY <1>3, <4>2, <4>3
    <3> QED
      BY <3>1, <3>2
  <2> QED
    BY <2>2, <2>3, <2>4 DEF SdkAgent
<1>5. CliAgent(a)'
  <2> SUFFICES ASSUME ~SDK PROVE CliAgent(a)'
    BY <1>3 DEF CliAgent
  <2>1. CliGoes(t, a, T) /\ CliAgent(a) /\ Alone(a)
    BY <1>1 DEF Orderly, Local
  <2>2. ASSUME NEW u \in Tasks, task'[u].of = a
        PROVE  ProcFits(u, a)'
    <3>1. CASE u = t
      BY <2>1, <3>1 DEF CliGoes
    <3>2. CASE u # t
      <4>1. /\ task[u].of = a /\ task'[u] = task[u] /\ (Live(u)' <=> Live(u)) /\ ProcFits(u, a) /\ Main(u)
            /\ (Dying(u)' <=> Dying(u))
        BY <1>3, <2>1, <2>2, <3>2 DEF CliAgent, Main, Dying, Kills
      <4>2. task'[u].pc \in {"new", "launch", "telling"} /\ task'[u].cancel # "no" =>
              \E c \in Commands : Kills(c, u, {"waiting"})' /\ command'[c].task = u
        BY <1>3, <4>1 DEF ProcFits, Kills
      <4>3. CASE Live(u)
        <5>1. ~Engaged(t)
          BY <2>1, <3>2, <4>1, <4>3 DEF Alone, Engaged
        <5>2. agent'[a].proc = agent[a].proc /\ (agent'[a].status = agent[a].status \/ Dying(u))
          BY <2>1, <3>2, <4>1, <4>3, <5>1 DEF CliGoes
        <5> QED
          BY <1>3, <4>1, <4>2, <4>3, <5>2 DEF ProcFits
      <4> QED
        BY <4>1, <4>2, <4>3 DEF ProcFits
    <3> QED
      BY <3>1, <3>2
  <2> QED
    BY <1>3, <2>1, <2>2 DEF CliAgent, CliGoes
<1>6. Local(a)'
  BY <1>2, <1>4, <1>5 DEF Local
<1>7. ASSUME NEW b \in Agents, b # a
      PROVE  AgentSame(b) /\ (agent[b].exit => agent'[b].exit)
  <2>1. agent[b] \in AgentRec
    BY <1>1 DEF Typed
  <2>2. agent'[b] = agent[b] \/ agent'[b] = [agent[b] EXCEPT !.exit = TRUE]
    BY <1>7 DEF OthersKept
  <2> QED
    BY <1>7, <2>1, <2>2 DEF OthersKept, AgentSame, AgentRec
<1>8. OnlyAgent(a) /\ Rested(a)
  BY <1>2, <1>3, <1>7 DEF OnlyAgent, Rested, OthersKept, AgentSame
<1>9. \A c \in Commands : Inserted(c) => command[c].of # a
  BY DEF Orderly, Fresh
<1> QED
  BY <1>1, <1>6, <1>8, <1>9, TaskStepKeeps

-----------------------------------------------------------------------------
(* The steps of a task, as long as nothing overlaps.                        *)
LEMMA TaskBeginsOrderly ==
  ASSUME SInv, Orderly, NEW t \in Tasks, TaskBegins(t)
  PROVE  Orderly'
<1>1. PICK a : a = task[t].of
  OBVIOUS
<1>2. task[t].pc = "new" /\ UNCHANGED <<harness, work, results, command>>
  BY DEF TaskBegins, Is
<1>3. /\ a \in Agents /\ task[t] \in TaskRec /\ agent[a] \in AgentRec /\ Local(a)
      /\ (SDK => task[t].proc = "none") /\ (~SDK => task[t].proc = "none")
  BY <1>1, <1>2, TaskFacts DEF SInv, Modes, Orderly
<1> DEFINE T == [task[t] EXCEPT !.pc = IF SDK /\ ~Runner(t) THEN "turn" ELSE "launch"]
<1>4. /\ T \in TaskRec /\ T.of = a /\ T.kind = task[t].kind /\ T.proc = "none" /\ T.cancel = task[t].cancel
      /\ T.pc = IF SDK /\ ~Runner(t) THEN "turn" ELSE "launch"
  BY <1>1, <1>2, <1>3 DEF TaskRec
<1>5. task' = [task EXCEPT ![t] = T] /\ task'[t] = T
  BY DEF TaskBegins, SInv, Typed
<1> HIDE DEF T
<1>6. /\ \A b \in Agents \ {a} : agent'[b] = agent[b]
      /\ agent'[a].listed = agent[a].listed /\ agent'[a].status = agent[a].status
      /\ agent'[a].exit = agent[a].exit /\ agent'[a].proc = agent[a].proc
      /\ agent'[a].client = IF SDK /\ Runner(t) THEN "made" ELSE agent[a].client
  BY <1>1, <1>3 DEF TaskBegins, AgentRec, SInv, Typed
<1>7. Engaged(t)
  BY <1>2 DEF Engaged
<1>8. Moves(t, a, T)
  BY <1>1, <1>2, <1>4, <1>5, <1>6, <1>7 DEF Moves
<1>9. OthersKept(a)
  <2>1. SDK /\ Runner(t) => agent[a].listed
    BY <1>1, <1>2, <1>3 DEF Local, Begins, Main
  <2> QED
    BY <1>2, <1>6, <2>1 DEF OthersKept
<1>10. SDK => SdkGoes(t, a, T)
  <2>1. Runner(t) /\ SDK => RunnerFits(t, a)'
    <3>1. Runner(t) /\ SDK => RunnerFits(t, a) /\ T.pc = "launch"
      BY <1>1, <1>3, <1>4 DEF Local, SdkAgent
    <3> QED
      BY <1>2, <1>5, <3>1 DEF RunnerFits, Idle
  <2> QED
    BY <1>4, <1>6, <1>7, <2>1, <1>3, <1>2 DEF SdkGoes, Runner
<1>11. ~SDK => CliGoes(t, a, T)
  <2>1. ~SDK => ProcFits(t, a)
    BY <1>1, <1>3 DEF Local, CliAgent
  <2>2. ~SDK => ProcFits(t, a)'
    BY <1>1, <1>2, <1>3, <1>4, <1>5, <2>1 DEF ProcFits, Live, Kills
  <2> QED
    BY <1>6, <1>7, <2>2 DEF CliGoes
<1> QED
  BY <1>1, <1>2, <1>4, <1>8, <1>9, <1>10, <1>11, TurnKeeps DEF CommandsStay

LEMMA LaunchedOrderly ==
  ASSUME SInv, Orderly, NEW t \in Tasks, Launched(t)
  PROVE  Orderly'
<1>1. PICK a : a = task[t].of
  OBVIOUS
<1>2. task[t].pc = "launch" /\ task[t].cancel = "no" /\ UNCHANGED <<harness, results, command>>
  BY DEF Launched, Is
<1>3. /\ a \in Agents /\ task[t] \in TaskRec /\ agent[a] \in AgentRec /\ Local(a)
  BY <1>1, <1>2, TaskFacts DEF Orderly
<1> DEFINE T == [task[t] EXCEPT !.pc = IF SDK THEN "turn" ELSE "telling", !.proc = IF SDK THEN "none" ELSE "live"]
<1>4. /\ T \in TaskRec /\ T.of = a /\ T.kind = task[t].kind /\ T.cancel = "no"
      /\ T.proc = (IF SDK THEN "none" ELSE "live")
      /\ T.pc = IF SDK THEN "turn" ELSE "telling"
  BY <1>1, <1>2, <1>3 DEF TaskRec
<1>5. task' = [task EXCEPT ![t] = T] /\ task'[t] = T
  BY DEF Launched, SInv, Typed
<1> HIDE DEF T
<1>6. /\ \A b \in Agents \ {a} : agent'[b] = agent[b]
      /\ agent'[a].listed = agent[a].listed /\ agent'[a].status = "running"
      /\ agent'[a].exit = agent[a].exit /\ agent'[a].proc = (IF SDK THEN 0 ELSE t)
      /\ agent'[a].client = IF SDK THEN "open" ELSE agent[a].client
  BY <1>1, <1>3 DEF Launched, AgentRec, SInv, Typed
<1>7. /\ work' = IF SDK THEN [work EXCEPT ![a] = Append(@, FALSE)] ELSE work
      /\ \A b \in Agents \ {a} : work'[b] = work[b] /\ results'[b] = results[b]
  BY <1>1, <1>2 DEF Launched, SInv, Typed
<1>8. Engaged(t) /\ Main(t) /\ (SDK => Runner(t))
  BY <1>1, <1>2, <1>3 DEF Engaged, Main, Local, SdkAgent
<1>9. agent[a].listed
  BY <1>1, <1>2, <1>3, <1>8 DEF Local, Begins
<1>10. Moves(t, a, T)
  BY <1>1, <1>2, <1>4, <1>5, <1>6, <1>8 DEF Moves
<1>11. OthersKept(a)
  BY <1>6, <1>7, <1>9 DEF OthersKept
<1>12. SDK => SdkGoes(t, a, T)
  <2> SUFFICES ASSUME SDK PROVE SdkGoes(t, a, T)
    OBVIOUS
  <2>1. Idle(a)
    BY <1>1, <1>2, <1>3, <1>8 DEF Local, SdkAgent, RunnerFits
  <2>2. work'[a] = <<FALSE>> /\ results'[a] = <<>>
    BY <1>2, <1>3, <1>7, <2>1, OneQueryIsOne DEF Idle, SInv, Typed
  <2>3. Len(work'[a]) + Len(results'[a]) <= 1
    <3>1. Len(<<FALSE>>) + Len(<<>>) <= 1
      BY OneQueryIsOne
    <3> QED
      BY <2>2, <3>1
  <2>4. RunnerFits(t, a)'
    BY <1>4, <1>5, <1>6, <1>9, <2>3 DEF RunnerFits
  <2> QED
    BY <1>4, <1>6, <1>8, <2>4 DEF SdkGoes
<1>13. ~SDK => CliGoes(t, a, T)
  <2>1. ~SDK => ProcFits(t, a)'
    BY <1>4, <1>5, <1>6, <1>9 DEF ProcFits, Live
  <2> QED
    BY <1>6, <1>8, <2>1 DEF CliGoes
<1> QED
  BY <1>1, <1>2, <1>4, <1>10, <1>11, <1>12, <1>13, TurnKeeps DEF CommandsStay

LEMMA LaunchFailsOrderly ==
  ASSUME SInv, Orderly, NEW t \in Tasks, LaunchFails(t)
  PROVE  Orderly'
<1>1. PICK a : a = task[t].of
  OBVIOUS
<1>2. /\ task[t].pc = "launch" /\ task[t].cancel = "no" /\ task' = Over(task, t)
      /\ UNCHANGED <<harness, work, results, command>>
  BY DEF LaunchFails, Is
<1>3. /\ a \in Agents /\ task[t] \in TaskRec /\ agent[a] \in AgentRec /\ Local(a) /\ task[t].proc = "none"
  BY <1>1, <1>2, TaskFacts DEF Orderly, SInv, Modes
<1>4. PICK T \in TaskRec :
        /\ task' = [task EXCEPT ![t] = T] /\ T.of = a /\ T.proc = "none" /\ T.pc = "over" /\ T.kind = "none"
  BY <1>1, <1>2, <1>3, OverFacts
<1>5. task'[t] = T
  BY <1>4 DEF SInv, Typed
<1>6. /\ \A b \in Agents \ {a} : agent'[b] = agent[b]
      /\ agent'[a].listed = agent[a].listed
      /\ agent'[a].status = (IF SDK THEN "error" ELSE agent[a].status)
      /\ agent'[a].exit = agent[a].exit /\ agent'[a].proc = agent[a].proc
      /\ agent'[a].client = IF SDK THEN "closed" ELSE agent[a].client
  BY <1>1, <1>3 DEF LaunchFails, AgentRec, SInv, Typed
<1>7. Engaged(t) /\ (SDK => Runner(t) /\ agent[a].listed)
  BY <1>1, <1>2, <1>3 DEF Engaged, Main, Local, SdkAgent, Begins
<1>8. Moves(t, a, T)
  BY <1>1, <1>4, <1>6 DEF Moves
<1>9. OthersKept(a)
  BY <1>2, <1>6, <1>7 DEF OthersKept
<1>10. SDK => SdkGoes(t, a, T)
  BY <1>4, <1>6, <1>7 DEF SdkGoes, Runner
<1>11. ~SDK => CliGoes(t, a, T)
  BY <1>4, <1>5, <1>6 DEF CliGoes, ProcFits, Live
<1> QED
  BY <1>1, <1>2, <1>4, <1>8, <1>9, <1>10, <1>11, TurnKeeps DEF CommandsStay

LEMMA ToldOrderly ==
  ASSUME SInv, Orderly, NEW t \in Tasks, Told(t)
  PROVE  Orderly'
<1>1. PICK a : a = task[t].of
  OBVIOUS
<1>2. /\ task[t].pc = "telling" /\ task[t].cancel = "no"
      /\ UNCHANGED <<harness, agent, work, results, command>>
  BY DEF Told, Is
<1>3. a \in Agents /\ task[t] \in TaskRec /\ Local(a) /\ ~SDK
  BY <1>1, <1>2, TaskFacts DEF Orderly, SInv, Modes
<1> DEFINE T == [task[t] EXCEPT !.pc = "turn"]
<1>4. T \in TaskRec /\ T.of = a /\ T.kind = task[t].kind /\ T.proc = task[t].proc /\ T.pc = "turn"
  BY <1>1, <1>3 DEF TaskRec
<1>5. task' = [task EXCEPT ![t] = T] /\ task'[t] = T
  BY DEF Told, SInv, Typed
<1> HIDE DEF T
<1>6. Moves(t, a, T)
  BY <1>1, <1>2, <1>4, <1>5 DEF Moves, Live
<1>7. OthersKept(a)
  BY <1>2 DEF OthersKept
<1>8. CliGoes(t, a, T)
  <2>1. ProcFits(t, a)
    BY <1>1, <1>3 DEF Local, CliAgent
  <2>2. Dying(t)' <=> Dying(t)
    BY <1>1, <1>2, <1>4, <1>5 DEF Dying, Kills
  <2> QED
    BY <1>2, <1>4, <1>5, <2>1, <2>2 DEF CliGoes, ProcFits, Live
<1> QED
  BY <1>1, <1>2, <1>3, <1>4, <1>6, <1>7, <1>8, TurnKeeps DEF CommandsStay

LEMMA ProcExitsOrderly ==
  ASSUME SInv, Orderly, NEW t \in Tasks, ProcExits(t)
  PROVE  Orderly'
<1>1. PICK a : a = task[t].of
  OBVIOUS
<1>2. /\ task[t].proc \in {"live", "signalled"} /\ task[t].pc # "none"
      /\ UNCHANGED <<harness, agent, work, results, command>>
  BY DEF ProcExits, SInv, Blank, NoTask
<1>3. a \in Agents /\ task[t] \in TaskRec /\ Local(a) /\ ~SDK
  BY <1>1, <1>2, TaskFacts DEF Orderly, SInv, Modes
<1> DEFINE T == [task[t] EXCEPT !.proc = "dead"]
<1>4. /\ T \in TaskRec /\ T.of = a /\ T.kind = task[t].kind /\ T.proc = "dead" /\ T.pc = task[t].pc
      /\ T.cancel = task[t].cancel
  BY <1>1, <1>3 DEF TaskRec
<1>5. task' = [task EXCEPT ![t] = T] /\ task'[t] = T
  BY DEF ProcExits, SInv, Typed
<1> HIDE DEF T
<1>6. Moves(t, a, T)
  BY <1>1, <1>2, <1>4, <1>5 DEF Moves
<1>7. OthersKept(a)
  BY <1>2 DEF OthersKept
<1>8. CliGoes(t, a, T)
  <2>1. ProcFits(t, a)
    BY <1>1, <1>3 DEF Local, CliAgent
  <2> QED
    BY <1>1, <1>2, <1>4, <1>5, <2>1 DEF CliGoes, ProcFits, Live, Kills
<1> QED
  BY <1>1, <1>2, <1>3, <1>4, <1>6, <1>7, <1>8, TurnKeeps DEF CommandsStay

LEMMA FourHoursOrderly ==
  ASSUME SInv, Orderly, NEW t \in Tasks, FourHours(t)
  PROVE  Orderly'
<1>1. PICK a : a = task[t].of
  OBVIOUS
<1>2. /\ task[t].pc \in {"turn", "judge", "rest"} /\ Runner(t)
      /\ UNCHANGED <<harness, agent, work, results, command>>
  BY DEF FourHours
<1>3. a \in Agents /\ task[t] \in TaskRec /\ Local(a) /\ (SDK => task[t].proc = "none")
  BY <1>1, <1>2, TaskFacts DEF Orderly, SInv, Modes
<1> DEFINE T == [task[t] EXCEPT !.cancel = "timeout"]
<1>4. /\ T \in TaskRec /\ T.of = a /\ T.kind = task[t].kind /\ T.proc = task[t].proc /\ T.pc = task[t].pc
  BY <1>1, <1>3 DEF TaskRec
<1>5. task' = [task EXCEPT ![t] = T] /\ task'[t] = T
  BY DEF FourHours, SInv, Typed
<1> HIDE DEF T
<1>6. Moves(t, a, T)
  BY <1>1, <1>2, <1>4, <1>5 DEF Moves, Live
<1>7. OthersKept(a)
  BY <1>2 DEF OthersKept
<1>8. SDK => SdkGoes(t, a, T)
  <2>1. SDK => RunnerFits(t, a)
    BY <1>1, <1>2, <1>3 DEF Local, SdkAgent
  <2> QED
    BY <1>2, <1>3, <1>4, <1>5, <2>1 DEF SdkGoes, RunnerFits, Idle, Interrupted
<1>9. ~SDK => CliGoes(t, a, T)
  <2>1. ~SDK => ProcFits(t, a)
    BY <1>1, <1>3 DEF Local, CliAgent
  <2>2. Dying(t)' <=> Dying(t)
    BY <1>1, <1>2, <1>4, <1>5 DEF Dying, Kills
  <2> QED
    BY <1>2, <1>4, <1>5, <2>1, <2>2 DEF CliGoes, ProcFits, Live
<1> QED
  BY <1>1, <1>2, <1>4, <1>6, <1>7, <1>8, <1>9, TurnKeeps DEF CommandsStay

LEMMA RestEndsOrderly ==
  ASSUME SInv, Orderly, NEW t \in Tasks, RestEnds(t)
  PROVE  Orderly'
<1>1. PICK a : a = task[t].of
  OBVIOUS
<1>2. /\ task[t].pc = "rest" /\ task' = Over(task, t) /\ UNCHANGED <<harness, work, results, command>>
  BY DEF RestEnds, Is
<1>3. /\ a \in Agents /\ task[t] \in TaskRec /\ agent[a] \in AgentRec /\ Local(a) /\ SDK /\ task[t].proc = "none"
  BY <1>1, <1>2, TaskFacts DEF Orderly, SInv, Modes
<1>4. PICK T \in TaskRec :
        /\ task' = [task EXCEPT ![t] = T] /\ T.of = a /\ T.proc = "none" /\ T.pc = "over" /\ T.kind = "none"
  BY <1>1, <1>2, <1>3, OverFacts
<1>6. /\ \A b \in Agents \ {a} : agent'[b] = agent[b]
      /\ agent'[a].listed = agent[a].listed /\ agent'[a].status = agent[a].status
      /\ agent'[a].exit = agent[a].exit /\ agent'[a].client = "closed"
  BY <1>1, <1>3 DEF RestEnds, AgentRec, SInv, Typed
<1>7. Runner(t) /\ agent[a].client = "open"
  BY <1>1, <1>2, <1>3 DEF Local, SdkAgent, RunnerFits
<1>8. Moves(t, a, T)
  BY <1>1, <1>4, <1>6 DEF Moves
<1>9. OthersKept(a)
  BY <1>2, <1>6, <1>7 DEF OthersKept
<1>10. SdkGoes(t, a, T)
  BY <1>4, <1>6, <1>7 DEF SdkGoes, Runner
<1> QED
  BY <1>1, <1>2, <1>3, <1>4, <1>8, <1>9, <1>10, TurnKeeps DEF CommandsStay

(* How a task leaves.                                                       *)
LEMMA LeavesFacts ==
  ASSUME Typed, NEW t \in Tasks, NEW T0, Ended(t, T0), NEW A, NEW st, Leaves(t, T0, A, st)
  PROVE  \E T \in TaskRec :
           /\ task' = [task EXCEPT ![t] = T] /\ T.of = task[t].of /\ T.proc = task[t].proc
           /\ IF SDK /\ Runner(t) /\ st \in {"paused", "done", "confirmed_done"}
              THEN T.pc = "rest" /\ T.kind = task[t].kind
              ELSE T.pc = "over" /\ T.kind = "none"
<1> DEFINE rests == SDK /\ Runner(t) /\ st \in {"paused", "done", "confirmed_done"}
<1>1. T0[t] \in TaskRec
  BY DEF Ended
<1>2. \A X : [T0 EXCEPT ![t] = X] = [task EXCEPT ![t] = X]
  BY DEF Ended, Typed
<1>3. CASE ~rests
  <2>1. PICK R \in TaskRec :
          /\ Over(T0, t) = [T0 EXCEPT ![t] = R]
          /\ R.of = T0[t].of /\ R.proc = T0[t].proc /\ R.pc = "over" /\ R.kind = "none"
          /\ R.cancel = "no" /\ ~R.interrupted
    BY <1>1, OverFacts
  <2>2. task' = [task EXCEPT ![t] = R]
    BY <1>2, <1>3, <2>1 DEF Leaves
  <2> QED
    BY <1>3, <2>1, <2>2 DEF Ended
<1>4. CASE rests
  <2> DEFINE T == [T0[t] EXCEPT !.pc = "rest", !.interrupted = FALSE]
  <2>1. T \in TaskRec /\ T.of = T0[t].of /\ T.proc = T0[t].proc /\ T.pc = "rest" /\ T.kind = T0[t].kind
    BY <1>1 DEF TaskRec
  <2>2. task' = [T0 EXCEPT ![t] = T]
    BY <1>4 DEF Leaves, Ended
  <2> HIDE DEF T
  <2>3. task' = [task EXCEPT ![t] = T]
    BY <1>2, <2>2
  <2> QED
    BY <1>4, <2>1, <2>3 DEF Ended
<1> QED
  BY <1>3, <1>4

LEMMA LeavesOrderly ==
  ASSUME SInv, Orderly, NEW t \in Tasks, task[t].pc \in {"turn", "judge"}, task[t].proc # "live",
         NEW T0, Ended(t, T0), NEW A, Resting(A), NEW st \in Statuses,
         Leaves(t, T0, A, st), CommandsStay, WorkKept(task[t].of)
  PROVE  Orderly'
<1>1. PICK a : a = task[t].of
  OBVIOUS
<1>2. /\ a \in Agents /\ task[t] \in TaskRec /\ agent[a] \in AgentRec /\ Local(a)
      /\ (SDK => task[t].proc = "none") /\ Engaged(t)
  BY <1>1, TaskFacts DEF Orderly, SInv, Modes, Engaged
<1> DEFINE rests == SDK /\ Runner(t) /\ st \in {"paused", "done", "confirmed_done"}
<1>3. PICK T \in TaskRec :
        /\ task' = [task EXCEPT ![t] = T] /\ T.of = a /\ T.proc = task[t].proc
        /\ IF rests THEN T.pc = "rest" /\ T.kind = task[t].kind ELSE T.pc = "over" /\ T.kind = "none"
  BY <1>1, LeavesFacts DEF SInv
<1>4. task'[t] = T
  BY <1>3 DEF SInv, Typed
<1>5. /\ A[a] \in AgentRec /\ A[a].proc = agent[a].proc /\ A[a].client = agent[a].client
      /\ A[a].listed = agent[a].listed /\ (agent[a].exit => A[a].exit)
  <2>1. A[a] \in AgentRec /\ (A[a] = agent[a] \/ A[a] = [agent[a] EXCEPT !.exit = TRUE])
    BY <1>2 DEF Resting
  <2> QED
    BY <1>2, <2>1 DEF AgentRec
<1>6. /\ \A b \in Agents \ {a} : agent'[b] = A[b]
      /\ agent'[a].listed = agent[a].listed /\ agent'[a].status = st /\ agent'[a].proc = agent[a].proc
      /\ agent[a].exit => agent'[a].exit
      /\ agent'[a].client = IF SDK /\ Runner(t) /\ ~rests THEN "closed" ELSE agent[a].client
  BY <1>1, <1>2, <1>5 DEF Leaves, Resting, AgentRec
<1>7. SDK /\ Runner(t) => agent[a].client = "open"
  BY <1>1, <1>2 DEF Local, SdkAgent, RunnerFits
<1>8. Moves(t, a, T)
  BY <1>1, <1>2, <1>3, <1>6 DEF Moves
<1>9. OthersKept(a)
  <2>1. \A b \in Agents \ {a} : agent'[b] = agent[b] \/ agent'[b] = [agent[b] EXCEPT !.exit = TRUE]
    BY <1>6 DEF Resting
  <2> QED
    BY <1>1, <1>6, <1>7, <2>1 DEF OthersKept, WorkKept
<1>10. SDK => SdkGoes(t, a, T)
  <2>1. SDK /\ Runner(t) /\ T.kind = task[t].kind => RunnerFits(t, a)'
    <3>1. SDK /\ Runner(t) /\ T.kind = task[t].kind => T.pc = "rest" /\ agent'[a].client = "open"
      BY <1>3, <1>6, <1>7 DEF Runner
    <3> QED
      BY <1>4, <3>1 DEF RunnerFits
  <2> QED
    BY <1>2, <1>3, <1>6, <2>1 DEF SdkGoes, Runner
<1>11. ~SDK => CliGoes(t, a, T)
  BY <1>2, <1>3, <1>4, <1>6 DEF CliGoes, ProcFits, Live
<1> QED
  BY <1>1, <1>3, <1>8, <1>9, <1>10, <1>11, TurnKeeps

LEMMA JudgeOrderly ==
  ASSUME SInv, Orderly, NEW t \in Tasks, task[t].pc = "turn", NEW a, a = task[t].of,
         NEW T0, Ended(t, T0), task' = [T0 EXCEPT ![t].pc = "judge"],
         agent' = [agent EXCEPT ![a].status = "done"], CommandsStay, WorkKept(a),
         ~SDK => task[t].proc = "dead",
         SDK /\ Runner(t) => Idle(a)'
  PROVE  Orderly'
<1>1. /\ a \in Agents /\ task[t] \in TaskRec /\ agent[a] \in AgentRec /\ Local(a)
      /\ (SDK => task[t].proc = "none") /\ Engaged(t)
  BY TaskFacts DEF Orderly, SInv, Modes, Engaged
<1>2. T0[t] \in TaskRec
  BY DEF Ended
<1> DEFINE T == [T0[t] EXCEPT !.pc = "judge"]
<1>3. /\ T \in TaskRec /\ T.of = a /\ T.kind = task[t].kind /\ T.proc = task[t].proc /\ T.pc = "judge"
  BY <1>2 DEF TaskRec, Ended
<1>4. task' = [task EXCEPT ![t] = T] /\ task'[t] = T
  BY DEF Ended, SInv, Typed
<1> HIDE DEF T
<1>5. /\ \A b \in Agents \ {a} : agent'[b] = agent[b]
      /\ agent'[a].listed = agent[a].listed /\ agent'[a].status = "done" /\ agent'[a].proc = agent[a].proc
      /\ agent'[a].exit = agent[a].exit /\ agent'[a].client = agent[a].client
  BY <1>1 DEF AgentRec, SInv, Typed
<1>6. Moves(t, a, T)
  BY <1>1, <1>3, <1>4, <1>5 DEF Moves, Live
<1>7. OthersKept(a)
  BY <1>5 DEF OthersKept, WorkKept
<1>8. SDK => SdkGoes(t, a, T)
  <2>1. SDK /\ Runner(t) => RunnerFits(t, a)'
    <3>1. SDK /\ Runner(t) => agent[a].client = "open"
      BY <1>1 DEF Local, SdkAgent, RunnerFits
    <3> QED
      BY <1>3, <1>4, <1>5, <3>1 DEF RunnerFits
  <2> QED
    BY <1>1, <1>3, <1>5, <2>1 DEF SdkGoes
<1>9. ~SDK => CliGoes(t, a, T)
  BY <1>1, <1>3, <1>4, <1>5 DEF CliGoes, ProcFits, Live
<1> QED
  BY <1>1, <1>3, <1>6, <1>7, <1>8, <1>9, TurnKeeps

LEMMA ResolveOrderly ==
  ASSUME SInv, Orderly, NEW t \in Tasks, task[t].pc = "turn", NEW a, a = task[t].of,
         NEW T0, Ended(t, T0), Resolve(t, T0, agent[a].status), CommandsStay, WorkKept(a),
         ~SDK => task[t].proc = "dead", SDK => task[t].proc = "none",
         SDK /\ Runner(t) => Idle(a)'
  PROVE  Orderly'
<1>1. agent[a] \in AgentRec
  BY TaskFacts
<1>2. agent[a].status \in Statuses /\ "confirmed_done" \in Statuses
  BY <1>1 DEF AgentRec, Statuses
<1>3. CASE Leaves(t, T0, agent, agent[a].status) \/ Leaves(t, T0, agent, "confirmed_done")
  BY <1>2, <1>3, AgentsRest, LeavesOrderly
<1>4. CASE task' = [T0 EXCEPT ![t].pc = "judge"] /\ agent' = [agent EXCEPT ![a].status = "done"]
  BY <1>4, JudgeOrderly
<1> QED
  BY <1>3, <1>4 DEF Resolve

LEMMA ResultReceivedOrderly ==
  ASSUME SInv, Orderly, NEW t \in Tasks, ResultReceived(t)
  PROVE  Orderly'
<1>1. PICK a : a = task[t].of
  OBVIOUS
<1> DEFINE T0 == [task EXCEPT ![t].interrupted = Head(results[a])]
<1>2. /\ SDK /\ task[t].pc = "turn" /\ results[a] # <<>> /\ UNCHANGED <<harness, work, command>>
      /\ results' = [results EXCEPT ![a] = Tail(@)]
  BY <1>1 DEF ResultReceived, Is
<1>3. a \in Agents /\ task[t] \in TaskRec /\ Local(a) /\ task[t].proc = "none"
  BY <1>1, <1>2, TaskFacts DEF Orderly, SInv, Modes
<1>4. results[a] \in Seq(BOOLEAN) /\ work[a] \in Seq(BOOLEAN)
  BY <1>3 DEF SInv, Typed
<1>5. /\ Head(results[a]) \in BOOLEAN /\ Tail(results[a]) \in Seq(BOOLEAN)
      /\ Len(Tail(results[a])) = Len(results[a]) - 1 /\ Len(results[a]) >= 1
  BY <1>2, <1>4, HeadAndTail
<1>6. Ended(t, T0)
  BY <1>3, <1>5 DEF Ended, TaskRec, SInv, Typed
<1>7. WorkKept(a) /\ results'[a] = Tail(results[a]) /\ work'[a] = work[a]
  BY <1>2, <1>3, <1>5 DEF WorkKept, SInv, Typed
<1>8. Runner(t) => Idle(a)'
  <2>1. Runner(t) => Len(work[a]) + Len(results[a]) <= 1
    BY <1>1, <1>2, <1>3 DEF Local, SdkAgent, RunnerFits
  <2>2. Len(work[a]) \in Nat /\ Len(results[a]) \in Nat /\ Len(Tail(results[a])) \in Nat
    BY <1>4, <1>5
  <2>3. \A m, n, k \in Nat : m + n <= 1 /\ n >= 1 /\ k = n - 1 => m = 0 /\ k = 0
    OBVIOUS
  <2>4. Runner(t) => Len(work[a]) = 0 /\ Len(Tail(results[a])) = 0
    BY <1>5, <2>1, <2>2, <2>3
  <2>5. \A q \in Seq(BOOLEAN) : Len(q) = 0 => q = <<>>
    OBVIOUS
  <2> QED
    BY <1>4, <1>5, <1>7, <2>4, <2>5 DEF Idle
<1>9. CASE Leaves(t, T0, agent, "stopped") \/ Leaves(t, T0, agent, "error")
  <2>1. "stopped" \in Statuses /\ "error" \in Statuses
    BY DEF Statuses
  <2> HIDE DEF T0
  <2> QED
    BY <1>1, <1>2, <1>3, <1>6, <1>7, <1>9, <2>1, AgentsRest, LeavesOrderly DEF CommandsStay
<1>10. CASE Resolve(t, T0, agent[a].status)
  <2> HIDE DEF T0
  <2> QED
    BY <1>1, <1>2, <1>3, <1>6, <1>7, <1>8, <1>10, ResolveOrderly DEF CommandsStay
<1> QED
  BY <1>1, <1>9, <1>10 DEF ResultReceived

LEMMA NoResultOrderly ==
  ASSUME SInv, Orderly, NEW t \in Tasks, NoResult(t)
  PROVE  Orderly'
<1>1. PICK a : a = task[t].of
  OBVIOUS
<1>2. /\ SDK /\ task[t].pc = "turn" /\ UNCHANGED <<harness, work, results, command>>
  BY <1>1 DEF NoResult, Is
<1>3. /\ a \in Made /\ agent[a] \in AgentRec /\ Local(a) /\ task[t].proc = "none"
  BY <1>1, <1>2, TaskFacts DEF Orderly, SInv, Modes
<1>4. WorkKept(a) /\ Ended(t, task)
  BY <1>2, <1>3, NothingKept, NothingEnded
<1>5. CASE \E st \in {"error", "stopped", agent[a].status} : Leaves(t, task, agent, st)
  <2>1. {"error", "stopped", agent[a].status} \subseteq Statuses
    BY <1>3 DEF Statuses, AgentRec
  <2> QED
    BY <1>1, <1>2, <1>3, <1>4, <1>5, <2>1, AgentsRest, LeavesOrderly DEF CommandsStay
<1>6. CASE agent[a].client = "closed" /\ Resolve(t, task, agent[a].status)
  <2>1. ~Runner(t)
    BY <1>1, <1>2, <1>3, <1>6 DEF Local, SdkAgent, RunnerFits
  <2> QED
    BY <1>1, <1>2, <1>3, <1>4, <1>6, <2>1, ResolveOrderly DEF CommandsStay
<1> QED
  BY <1>1, <1>5, <1>6 DEF NoResult

LEMMA SubprocessOverOrderly ==
  ASSUME SInv, Orderly, NEW t \in Tasks, SubprocessOver(t)
  PROVE  Orderly'
<1>1. PICK a : a = task[t].of
  OBVIOUS
<1>2. /\ task[t].pc = "turn" /\ task[t].proc = "dead" /\ UNCHANGED <<harness, work, results, command>>
  BY <1>1 DEF SubprocessOver, Is
<1>3. a \in Made /\ ~SDK
  BY <1>1, <1>2, TaskFacts DEF SInv, Modes
<1>4. WorkKept(a) /\ Ended(t, task)
  BY <1>2, <1>3, NothingKept, NothingEnded
<1>5. CASE Leaves(t, task, agent, "error")
  <2>1. "error" \in Statuses
    BY DEF Statuses
  <2> QED
    BY <1>1, <1>2, <1>4, <1>5, <2>1, AgentsRest, LeavesOrderly DEF CommandsStay
<1>6. CASE Resolve(t, task, agent[a].status)
  BY <1>1, <1>2, <1>3, <1>4, <1>6, ResolveOrderly DEF CommandsStay
<1> QED
  BY <1>1, <1>5, <1>6 DEF SubprocessOver

LEMMA CancelledOrderly ==
  ASSUME SInv, Orderly, NEW t \in Tasks, Cancelled(t), ~overlap'
  PROVE  Orderly'
<1>1. PICK a : a = task[t].of
  OBVIOUS
<1>2. /\ task[t].cancel # "no" /\ task[t].pc \notin {"none", "over"} /\ Alive(t)
      /\ UNCHANGED <<harness, work, results, command>>
  BY DEF Cancelled, Alive
<1>3. /\ a \in Agents /\ task[t] \in TaskRec /\ agent[a] \in AgentRec /\ Local(a)
      /\ (SDK => task[t].proc = "none" /\ task[t].pc \notin {"telling", "reaping"})
  BY <1>1, <1>2, TaskFacts DEF Orderly, SInv, Modes
<1>4. CASE SDK /\ Runner(t) /\ task[t].pc # "new"
  <2>1. task' = Over(task, t)
    BY <1>4 DEF Cancelled
  <2>2. PICK T \in TaskRec :
          /\ task' = [task EXCEPT ![t] = T] /\ T.of = a /\ T.proc = "none" /\ T.pc = "over" /\ T.kind = "none"
    BY <1>1, <1>3, <1>4, <2>1, OverFacts
  <2>3. /\ \A b \in Agents \ {a} : agent'[b] = agent[b]
        /\ agent'[a].listed = agent[a].listed /\ agent'[a].status = "stopped"
        /\ agent'[a].exit = agent[a].exit /\ agent'[a].client = "closed"
    <3>1. agent' = [agent EXCEPT ![a].status = "stopped", ![a].client = "closed"]
      BY <1>1, <1>4 DEF Cancelled
    <3> QED
      BY <1>3, <3>1 DEF AgentRec, SInv, Typed
  <2>4. agent[a].client = "none" => agent[a].listed
    <3>1. task[t].pc = "launch" => agent[a].listed
      BY <1>1, <1>3, <1>4 DEF Local, Begins, Main
    <3>2. task[t].pc \in {"turn", "judge", "rest"} => agent[a].client = "open"
      BY <1>1, <1>3, <1>4 DEF Local, SdkAgent, RunnerFits
    <3>3. task[t].pc \in {"launch", "turn", "judge", "rest"}
      BY <1>2, <1>3, <1>4 DEF TaskRec
    <3> QED
      BY <3>1, <3>2, <3>3
  <2>5. Moves(t, a, T)
    BY <1>1, <2>2, <2>3 DEF Moves
  <2>6. OthersKept(a)
    BY <1>2, <2>3, <2>4 DEF OthersKept
  <2>7. SdkGoes(t, a, T)
    BY <1>4, <2>2, <2>3 DEF SdkGoes, Runner
  <2> QED
    BY <1>1, <1>2, <1>4, <2>2, <2>5, <2>6, <2>7, TurnKeeps DEF CommandsStay
<1>5. CASE ~SDK /\ task[t].pc = "turn"
  <2> DEFINE T == [task[t] EXCEPT !.proc = IF @ = "live" THEN "signalled" ELSE @, !.pc = "reaping"]
  <2>1. T \in TaskRec /\ T.of = a /\ T.kind = task[t].kind /\ T.proc # "live" /\ T.pc = "reaping"
    BY <1>1, <1>3 DEF TaskRec
  <2>2. task' = [task EXCEPT ![t] = T] /\ task'[t] = T /\ UNCHANGED agent
    BY <1>5 DEF Cancelled, Signalled, SInv, Typed
  <2> HIDE DEF T
  <2>3. Moves(t, a, T)
    BY <1>1, <2>1, <2>2 DEF Moves
  <2>4. OthersKept(a)
    BY <1>2, <2>2 DEF OthersKept
  <2>5. CliGoes(t, a, T)
    BY <2>1, <2>2 DEF CliGoes, ProcFits, Live
  <2> QED
    BY <1>1, <1>2, <1>5, <2>1, <2>3, <2>4, <2>5, TurnKeeps DEF CommandsStay
<1>6. CASE ~(SDK /\ Runner(t) /\ task[t].pc # "new") /\ ~(~SDK /\ task[t].pc = "turn")
  <2>1. /\ task' = Over(task, t)
        /\ agent' = IF task[t].cancel = "timeout" THEN [agent EXCEPT ![a].status = "failed"] ELSE agent
    BY <1>1, <1>6 DEF Cancelled
  <2>2. PICK T \in TaskRec :
          /\ task' = [task EXCEPT ![t] = T] /\ T.of = a /\ T.proc = task[t].proc /\ T.pc = "over" /\ T.kind = "none"
    BY <1>1, <1>3, <2>1, OverFacts
  <2>3. /\ \A b \in Agents \ {a} : agent'[b] = agent[b]
        /\ agent'[a].listed = agent[a].listed
        /\ agent'[a].status = IF task[t].cancel = "timeout" THEN "failed" ELSE agent[a].status
        /\ agent'[a].exit = agent[a].exit /\ agent'[a].client = agent[a].client
        /\ agent'[a].proc = agent[a].proc
    BY <1>3, <2>1 DEF AgentRec, SInv, Typed
  <2>4. Moves(t, a, T)
    BY <1>1, <2>2, <2>3 DEF Moves, Live
  <2>5. OthersKept(a)
    BY <1>2, <2>3 DEF OthersKept
  <2>6. SDK => SdkGoes(t, a, T)
    <3>1. SDK /\ Runner(t) => agent[a].client # "open"
      BY <1>1, <1>3, <1>6 DEF Local, SdkAgent, Alone
    <3>2. SDK /\ ~Runner(t) => Engaged(t)
      BY <1>1, <1>2, <1>3 DEF Local, SdkAgent, Engaged, TaskRec
    <3> QED
      BY <1>3, <2>2, <2>3, <3>1, <3>2 DEF SdkGoes, Runner
  <2>7. ~SDK => CliGoes(t, a, T)
    <3> SUFFICES ASSUME ~SDK PROVE CliGoes(t, a, T)
      OBVIOUS
    <3>1. ProcFits(t, a) /\ task'[t] = T
      BY <1>1, <1>3, <2>2 DEF Local, CliAgent, SInv, Typed
    <3>2. ProcFits(t, a)'
      <4>1. Live(t) => task[t].pc = "telling"
        BY <1>2, <1>3, <1>6 DEF SInv, Modes, Live, TaskRec
      <4>2. Live(t) => \E c \in Commands : Kills(c, t, {"waiting"})
        BY <1>2, <3>1, <4>1 DEF ProcFits
      <4>3. Live(t) => Dying(t)'
        BY <1>1, <1>2, <2>2, <3>1, <4>2 DEF Dying, Kills
      <4> QED
        BY <2>2, <2>3, <3>1, <4>3 DEF ProcFits, Live
    <3>3. ASSUME task[t].cancel = "timeout", NEW u \in Tasks, task[u].of = a, u # t, Live(u)
          PROVE  Dying(u)
      <4>1. TasksOf(a) = {t}
        BY <1>1, <3>3 DEF Cancelled
      <4>2. ~Alive(u)
        BY <3>3, <4>1 DEF TasksOf
      <4>3. ProcFits(u, a)
        BY <1>3, <3>3 DEF Local, CliAgent
      <4> QED
        BY <3>3, <4>2, <4>3 DEF ProcFits, Alive
    <3> QED
      BY <2>3, <3>2, <3>3 DEF CliGoes
  <2> QED
    BY <1>1, <1>2, <2>2, <2>4, <2>5, <2>6, <2>7, TurnKeeps DEF CommandsStay
<1> QED
  BY <1>4, <1>5, <1>6

LEMMA WorkEndsOrderly ==
  ASSUME SInv, Orderly, NEW a \in Agents, WorkEnds(a)
  PROVE  Orderly'
<1>1. /\ agent[a].client = "open" /\ work[a] # <<>> /\ UNCHANGED <<harness, agent, task, command>>
      /\ results' = [results EXCEPT ![a] = Append(@, Head(work[a]))]
      /\ work' = [work EXCEPT ![a] = Tail(@)]
  BY DEF WorkEnds
<1>2. Local(a) /\ SDK
  BY <1>1 DEF Orderly, Local, CliAgent
<1>3. work[a] \in Seq(BOOLEAN) /\ results[a] \in Seq(BOOLEAN)
  BY DEF SInv, Typed
<1>4. /\ Head(work[a]) \in BOOLEAN /\ Tail(work[a]) \in Seq(BOOLEAN)
      /\ Len(Tail(work[a])) = Len(work[a]) - 1 /\ Len(work[a]) >= 1
  BY <1>1, <1>3, HeadAndTail
<1>5. work'[a] = Tail(work[a]) /\ results'[a] = Append(results[a], Head(work[a]))
  BY <1>1 DEF SInv, Typed
<1>6. Len(work'[a]) + Len(results'[a]) = Len(work[a]) + Len(results[a])
  <2>1. Len(results'[a]) = Len(results[a]) + 1 /\ Len(results[a]) \in Nat /\ Len(work[a]) \in Nat
    BY <1>3, <1>4, <1>5, AppendAt
  <2>2. \A m, n, k, l \in Nat : k = m - 1 /\ l = n + 1 => k + l = m + n
    OBVIOUS
  <2>3. Len(work'[a]) \in Nat /\ Len(work'[a]) = Len(work[a]) - 1 /\ Len(results'[a]) \in Nat
    BY <1>4, <1>5, <2>1
  <2> QED
    BY <2>1, <2>2, <2>3
<1>7. Interrupted(work[a]) => Interrupted(work'[a])
  <2>1. \A i \in 1..Len(Tail(work[a])) : Tail(work[a])[i] = work[a][i + 1] /\ i + 1 \in 1..Len(work[a])
    BY <1>1, <1>3, <1>4, HeadTailProperties
  <2> QED
    BY <1>5, <2>1 DEF Interrupted
<1>8. SdkAgent(a)'
  <2>1. \A u \in Tasks : task[u].of = a /\ RunnerFits(u, a) => RunnerFits(u, a)'
    BY <1>1, <1>6, <1>7 DEF RunnerFits, Idle
  <2> QED
    BY <1>1, <1>2, <2>1 DEF Local, SdkAgent, Runner, SDK
<1>9. Local(a)'
  <2>1. \A c \in Commands : /\ Aimed(c, a)' = Aimed(c, a)
                            /\ Cleared(c, a)' = Cleared(c, a) /\ Halted(c, a)' = Halted(c, a)
    BY <1>1 DEF Aimed, Halting, Cleared, Halted
  <2>2. \A u \in Tasks : /\ Main(u)' = Main(u) /\ Runner(u)' = Runner(u) /\ Live(u)' = Live(u)
                         /\ Engaged(u)' = Engaged(u)
    BY <1>1 DEF Main, Runner, Live, Engaged, SDK
  <2>3. Aims(a)' /\ Alone(a)' /\ Begins(a)'
    BY <1>1, <1>2, <2>1, <2>2 DEF Local, Aims, Aim, Alone, Begins
  <2>4. CliAgent(a)'
    BY <1>1, <1>2 DEF CliAgent, SDK
  <2> QED
    BY <1>8, <2>3, <2>4 DEF Local
<1>10. OnlyAgent(a) /\ Rested(a) /\ CommandsStay
  BY <1>1 DEF OnlyAgent, AgentSame, TasksSame, Rested, CommandsStay, SInv, Typed
<1>11. \A c \in Commands : Inserted(c) => command[c].of # a
  BY <1>1 DEF Orderly, Fresh
<1> QED
  BY <1>9, <1>10, <1>11, TaskStepKeeps

-----------------------------------------------------------------------------
(* A task n of agent a is created, while the others stay, rest or are over. *)
OverNow(u) == task'[u].of = task[u].of /\ task'[u].pc = "over" /\ task'[u].kind = "none" /\ task'[u].proc # "live"

LEMMA CreationOrderly ==
  ASSUME NEW a \in Agents, Local(a), SDK' = SDK, NEW n \in Tasks, task[n].of # a,
         task'[n].of = a, task'[n].pc = "new", task'[n].proc = "none", task'[n].cancel = "no",
         \A u \in Tasks \ {n} : task'[u] = task[u] \/ OverNow(u),
         \A u \in Tasks : task[u].of = a /\ (Main(u) \/ Main(n)') => ~Engaged(u) \/ OverNow(u),
         Runner(n)' => (\A u \in Tasks : task[u].of # a) /\ Idle(a)',
         Main(n)' => agent[a].listed /\ \A c \in Commands : ~Aimed(c, a)',
         \A c \in Commands : command'[c] = command[c] \/ (~Aimed(c, a)' /\ ~Cleared(c, a)' /\ ~Halted(c, a)'),
         agent'[a].listed = agent[a].listed,
         \/ agent'[a].client = agent[a].client /\ \A u \in Tasks : task[u].of = a /\ Runner(u) => task'[u] = task[u]
         \/ /\ SDK /\ agent'[a].client = "closed"
            /\ \A u \in Tasks : task[u].of = a /\ Runner(u) => OverNow(u)
  PROVE  Local(a)'
<1>1. /\ \A u \in Tasks : u # n => (task'[u].of = a <=> task[u].of = a)
      /\ \A u \in Tasks : u # n => \/ task'[u] = task[u] /\ Runner(u)' = Runner(u) /\ Main(u)' = Main(u)
                                      /\ Live(u)' = Live(u) /\ Engaged(u)' = Engaged(u)
                                   \/ OverNow(u) /\ ~Runner(u)' /\ ~Live(u)' /\ ~Engaged(u)'
      /\ ~Live(n)'
  BY DEF OverNow, Runner, Main, Live, Engaged
<1>2. \A u \in Tasks : u # n /\ task'[u].of = a /\ (Main(u)' \/ Main(n)') => ~Engaged(u)'
  <2> SUFFICES ASSUME NEW u \in Tasks, u # n, task'[u].of = a, Main(u)' \/ Main(n)'
               PROVE  ~Engaged(u)'
    OBVIOUS
  <2>1. CASE OverNow(u)
    BY <2>1 DEF OverNow, Engaged, Live
  <2>2. CASE Main(u)' = Main(u) /\ Engaged(u)' = Engaged(u) /\ ~OverNow(u)
    <3>1. Main(u) \/ Main(n)'
      BY <2>2
    <3>2. task[u].of = a
      BY <1>1
    <3> QED
      BY <2>2, <3>1, <3>2
  <2> QED
    BY <1>1, <2>1, <2>2
<1>3. Alone(a)'
  <2> SUFFICES ASSUME NEW t \in Tasks, NEW u \in Tasks, task'[t].of = a, task'[u].of = a
               PROVE  /\ Runner(t)' /\ Runner(u)' => t = u
                      /\ Main(t)' /\ Engaged(t)' /\ Engaged(u)' => t = u
    BY DEF Alone
  <2>1. Runner(t)' /\ Runner(u)' => t = u
    BY <1>1 DEF Local, Alone
  <2>2. Main(t)' /\ Engaged(t)' /\ Engaged(u)' => t = u
    BY <1>2
  <2> QED
    BY <2>1, <2>2
<1>4. Begins(a)'
  <2> SUFFICES ASSUME NEW t \in Tasks, task'[t].of = a, Main(t)', task'[t].pc \in {"new", "launch"}
               PROVE  agent'[a].listed
    BY DEF Begins
  <2>1. Engaged(t)'
    BY DEF Engaged
  <2> QED
    BY <1>2, <2>1
<1>5. Aims(a)'
  <2> SUFFICES ASSUME NEW c \in Commands, NEW t \in Tasks, task'[t].of = a
               PROVE  Aim(c, t, a)'
    BY DEF Aims
  <2>1. Main(t)' => /\ task'[t].pc \in {"new", "launch", "telling", "turn", "judge"} => t = n
                    /\ Runner(t)' /\ task'[t].pc \in {"telling", "turn"} => FALSE
    BY <1>2 DEF Engaged
  <2>2. Runner(t)' => Main(t)'
    BY DEF Main
  <2>3. Main(n)' => ~Aimed(c, a)'
    OBVIOUS
  <2>4. command'[c].pc = "hinting" /\ command'[c].of = a => Aimed(c, a)'
    BY DEF Aimed
  <2>5. Cleared(c, a)' => ~Live(t)'
    <3>1. CASE command'[c] = command[c]
      <4>1. Cleared(c, a)' <=> Cleared(c, a)
        BY <3>1 DEF Cleared, Halting
      <4> QED
        BY <1>1, <4>1 DEF Local, Aims, Aim
    <3>2. CASE ~Cleared(c, a)'
      BY <3>2
    <3> QED
      BY <3>1, <3>2
  <2> QED
    BY <2>1, <2>2, <2>3, <2>4, <2>5 DEF Aim
<1>6. SdkAgent(a)'
  <2> SUFFICES ASSUME SDK PROVE SdkAgent(a)'
    BY DEF SdkAgent
  <2>1. SdkAgent(a)
    BY DEF Local
  <2>2. ASSUME NEW u \in Tasks, task'[u].of = a
        PROVE  /\ task'[u].pc \in {"launch", "rest"} => Runner(u)'
               /\ Runner(u)' => RunnerFits(u, a)'
    <3>1. CASE u = n
      BY <3>1 DEF RunnerFits
    <3>2. CASE u # n /\ OverNow(u)
      BY <3>2 DEF OverNow, Runner
    <3>3. CASE u # n /\ task'[u] = task[u]
      <4>1. task[u].pc \in {"launch", "rest"} => Runner(u)'
        BY <1>1, <2>1, <2>2, <3>3 DEF SdkAgent, Runner
      <4>2. ASSUME Runner(u)'
            PROVE  RunnerFits(u, a)'
        <5>1. task[u].of = a /\ Runner(u) /\ Main(u)' /\ RunnerFits(u, a)
          BY <1>1, <2>1, <2>2, <3>3, <4>2 DEF SdkAgent, Main, Runner
        <5>2. task[u].pc \notin {"new", "launch", "turn", "judge"}
          BY <1>2, <2>2, <3>3, <5>1 DEF Engaged
        <5>3. CASE agent'[a].client = agent[a].client
          BY <3>3, <5>1, <5>2, <5>3 DEF RunnerFits
        <5>4. CASE OverNow(u)
          BY <3>3, <5>1, <5>4 DEF OverNow, Runner
        <5> QED
          BY <5>1, <5>3, <5>4
      <4> QED
        BY <3>3, <4>1, <4>2
    <3> QED
      BY <3>1, <3>2, <3>3
  <2>3. ASSUME agent'[a].client = "open"
        PROVE  \E u \in Tasks : task'[u].of = a /\ Runner(u)' /\ task'[u].pc \in {"turn", "judge", "rest"}
    <3>1. agent[a].client = "open" /\ \A u \in Tasks : task[u].of = a /\ Runner(u) => task'[u] = task[u]
      BY <2>3
    <3>2. PICK u \in Tasks : task[u].of = a /\ Runner(u) /\ task[u].pc \in {"turn", "judge", "rest"}
      BY <2>1, <3>1 DEF SdkAgent
    <3> QED
      BY <3>1, <3>2 DEF Runner
  <2> QED
    BY <2>2, <2>3 DEF SdkAgent
<1>7. CliAgent(a)'
  <2> SUFFICES ASSUME ~SDK PROVE CliAgent(a)'
    BY DEF CliAgent
  <2>1. \A t \in Tasks : Main(t)'
    BY DEF Main
  <2>2. ASSUME NEW u \in Tasks, task'[u].of = a
        PROVE  ProcFits(u, a)'
    <3>1. CASE u = n
      BY <1>1, <3>1 DEF ProcFits
    <3>2. CASE u # n
      BY <1>2, <2>1, <2>2, <3>2 DEF ProcFits, Engaged
    <3> QED
      BY <3>1, <3>2
  <2> QED
    BY <2>2 DEF CliAgent, Local
<1> QED
  BY <1>3, <1>4, <1>5, <1>6, <1>7 DEF Local

LEMMA JudgedOrderly ==
  ASSUME SInv, Orderly, NEW t \in Tasks, Judged(t)
  PROVE  Orderly'
<1>1. PICK a : a = task[t].of
  OBVIOUS
<1>2. task[t].pc = "judge" /\ UNCHANGED <<harness, results, command>>
  BY DEF Judged, Is
<1>3. /\ a \in Made /\ a \in Agents /\ task[t] \in TaskRec /\ agent[a] \in AgentRec /\ Local(a)
      /\ task[t].proc # "live" /\ (SDK => task[t].proc = "none")
  BY <1>1, <1>2, TaskFacts DEF Orderly, SInv, Modes
<1>4. Ended(t, task)
  BY NothingEnded
<1>5. CASE /\ work' = work
           /\ \E rest \in {agent[a].status, "paused", "running"}, A \in {agent, Released({a}), Released(Listed)} :
                Leaves(t, task, A, rest)
  <2>1. {agent[a].status, "paused", "running"} \subseteq Statuses
    BY <1>3 DEF Statuses, AgentRec
  <2>2. Resting(agent) /\ Resting(Released({a})) /\ Resting(Released(Listed))
    BY <1>3, AgentsRest, ListedMade
  <2>3. WorkKept(a)
    BY <1>2, <1>3, <1>5, NothingKept
  <2> QED
    BY <1>1, <1>2, <1>3, <1>4, <1>5, <2>1, <2>2, <2>3, LeavesOrderly DEF CommandsStay
<1>6. CASE /\ SDK /\ agent[a].client = "open" /\ Unused # {}
           /\ work' = [work EXCEPT ![a] = Append(@, FALSE)]
           /\ task' = Over(Created(task, a, "retry"), t)
           /\ agent' = [agent EXCEPT ![a].status = "running", ![a].task = NextTask,
                                     ![a].client = IF Runner(t) THEN "closed" ELSE @]
  <2>1. PICK n \in Tasks : n = NextTask /\ task[n].pc = "none" /\ n # t /\ task[n].of = 0
    BY <1>2, <1>6, NextTaskUnused DEF SInv, Blank, NoTask
  <2>2. PICK N \in TaskRec :
          /\ Created(task, a, "retry") = [task EXCEPT ![n] = N]
          /\ N.of = a /\ N.kind = "retry" /\ N.pc = "new" /\ N.cancel = "no" /\ N.proc = "none"
    BY <1>3, <1>6, <2>1, CreatedFacts
  <2>3. PICK T1 \in [Tasks -> TaskRec] : T1 = [task EXCEPT ![n] = N]
    BY <2>2 DEF SInv, Typed
  <2>4. T1[t] = task[t] /\ T1[n] = N /\ \A u \in Tasks : u # n => T1[u] = task[u]
    BY <2>1, <2>3 DEF SInv, Typed
  <2>5. PICK R \in TaskRec :
          /\ Over(T1, t) = [T1 EXCEPT ![t] = R]
          /\ R.of = task[t].of /\ R.proc = task[t].proc /\ R.pc = "over" /\ R.kind = "none"
    BY <1>3, <2>4, OverFacts
  <2>6. \A u \in Tasks : task'[u] = IF u = t THEN R ELSE IF u = n THEN N ELSE task[u]
    BY <1>6, <2>2, <2>3, <2>4, <2>5
  <2>7. OverNow(t) /\ \A u \in Tasks \ {n} : u # t => task'[u] = task[u]
    BY <1>3, <2>1, <2>5, <2>6 DEF OverNow
  <2>8. /\ \A b \in Agents \ {a} : agent'[b] = agent[b]
        /\ agent'[a].status = "running" /\ agent'[a].listed = agent[a].listed
        /\ agent'[a].exit = agent[a].exit
        /\ agent'[a].client = IF Runner(t) THEN "closed" ELSE agent[a].client
    BY <1>3, <1>6, <2>1 DEF AgentRec, Statuses, SInv, Typed
  <2>9. \A u \in Tasks : task[u].of = a /\ Main(u) => ~Engaged(u) \/ OverNow(u)
    <3>1. Engaged(t)
      BY <1>2 DEF Engaged
    <3>2. \A u \in Tasks : task[u].of = a /\ Main(u) /\ Engaged(u) => u = t
      BY <1>1, <1>3, <3>1 DEF Local, Alone
    <3> QED
      BY <2>7, <3>2
  <2>10. task'[n] = N /\ ~Runner(n)' /\ ~Main(n)' /\ SDK' = SDK
    BY <1>2, <1>6, <2>1, <2>2, <2>6 DEF Runner, Main, SDK
  <2>11. \/ agent'[a].client = agent[a].client /\ \A u \in Tasks : task[u].of = a /\ Runner(u) => task'[u] = task[u]
         \/ /\ SDK /\ agent'[a].client = "closed"
            /\ \A u \in Tasks : task[u].of = a /\ Runner(u) => OverNow(u)
    <3>1. CASE Runner(t)
      <4>1. \A u \in Tasks : task[u].of = a /\ Runner(u) => u = t
        BY <1>1, <1>3, <3>1 DEF Local, Alone
      <4> QED
        BY <1>6, <2>7, <2>8, <3>1, <4>1
    <3>2. CASE ~Runner(t)
      <4>1. \A u \in Tasks : task[u].of = a /\ Runner(u) => u # t /\ u # n
        BY <1>3, <2>1, <3>2 DEF Agents
      <4> QED
        BY <2>7, <2>8, <3>2, <4>1
    <3> QED
      BY <3>1, <3>2
  <2>12. task[n].of # a
    BY <1>3, <2>1 DEF Agents
  <2>13. Local(a)'
    BY <1>2, <1>3, <2>2, <2>7, <2>8, <2>9, <2>10, <2>11, <2>12, CreationOrderly
  <2>14. OnlyAgent(a)
    <3>1. \A b \in Agents \ {a} : AgentSame(b)
      BY <1>2, <1>6, <2>8 DEF AgentSame, SInv, Typed
    <3>2. \A b \in Agents \ {a} : TasksSame(b)
      BY <1>1, <2>1, <2>2, <2>5, <2>6 DEF TasksSame, Agents
    <3> QED
      BY <3>1, <3>2 DEF OnlyAgent
  <2>15. Rested(a)
    BY <1>6, <2>8 DEF Rested
  <2>16. \A c \in Commands : Inserted(c) => command[c].of # a
    BY <1>1 DEF Orderly, Fresh
  <2> QED
    BY <1>2, <1>3, <2>13, <2>14, <2>15, <2>16, TaskStepKeeps DEF CommandsStay
<1> QED
  BY <1>1, <1>5, <1>6 DEF Judged

-----------------------------------------------------------------------------
(* The steps of a command: the others are over.                             *)
Moving(c) == \A d \in Commands \ {c} : command'[d] = command[d] /\ ~Busy(d)

LEMMA CommandMoves ==
  ASSUME Orderly, NEW c \in Commands, Busy(c), \A d \in Commands \ {c} : command'[d] = command[d]
  PROVE  Moving(c)
BY DEF Orderly, Serial, Moving

LEMMA CommandOver ==
  ASSUME NEW d \in Commands, ~Busy(d)
  PROVE  /\ \A a : ~Aimed(d, a) /\ ~Halting(d, a) /\ ~Cleared(d, a) /\ ~Halted(d, a)
         /\ ~Inserted(d) /\ ~Clearing(d)
         /\ \A t, pcs : "over" \notin pcs => ~Kills(d, t, pcs)
BY DEF Busy, Aimed, Halting, Cleared, Halted, Inserted, Clearing, Kills

LEMMA MovingOthers ==
  ASSUME NEW c \in Commands, Moving(c), NEW d \in Commands, d # c
  PROVE  /\ ~Busy(d)' /\ ~Inserted(d)' /\ ~Clearing(d)'
         /\ \A a : ~Aimed(d, a)' /\ ~Halting(d, a)' /\ ~Cleared(d, a)' /\ ~Halted(d, a)'
<1>1. command'[d] = command[d] /\ command[d].pc = "over"
  BY DEF Moving, Busy
<1> QED
  BY <1>1 DEF Busy, Aimed, Halting, Cleared, Halted, Inserted, Clearing

LEMMA CommandStepKeeps ==
  ASSUME SInv, Orderly, NEW c \in Commands, Moving(c), SDK' = SDK, NEW S \in SUBSET Agents,
         \A b \in Agents \ S : AgentSame(b) /\ TasksSame(b),
         \A b \in Agents \ S : CommandsSame(b),
         \A b \in S : Local(b)', Table', Fresh'
  PROVE  Orderly'
<1>1. \A b \in Agents : Local(b)'
  BY Elsewhere DEF Orderly
<1>2. Serial'
  BY MovingOthers DEF Serial
<1> QED
  BY <1>1, <1>2 DEF Orderly

LEMMA TableKeeps ==
  ASSUME SInv, Orderly, NEW c \in Commands, Moving(c),
         \A b \in Agents : /\ agent'[b].listed => agent[b].listed
                           /\ agent[b].exit => agent'[b].exit
                           /\ agent'[b].client # "none" => agent[b].client # "none"
                           /\ agent[b].listed /\ ~agent'[b].listed => agent'[b].exit,
         Clearing(c)' => \A b \in Agents : agent'[b].listed => b \in command'[c].todo,
         command'[c].op = "kill" => agent'[command'[c].of].exit,
         Busy(c)' /\ command'[c].op = "hint" => agent'[command'[c].of].listed
  PROVE  Table'
<1>1. \A a, b \in Agents : agent'[a].listed /\ agent'[b].listed => a = b
  BY DEF Orderly, Table
<1>2. \A d \in Commands : Clearing(d)' => \A b \in Agents : agent'[b].listed => b \in command'[d].todo
  BY MovingOthers
<1>3. \A b \in Agents : agent'[b].client # "none" /\ ~agent'[b].listed => agent'[b].exit
  BY DEF Orderly, Table
<1>4. \A d \in Commands : command'[d].op = "kill" => agent'[command'[d].of].exit
  <2>1. \A d \in Commands : command[d].op = "kill" => command[d].of \in Agents /\ agent[command[d].of].exit
    BY DEF SInv, SpawnsOwn, Sound, Made, Orderly, Table
  <2> QED
    BY <2>1 DEF Moving
<1>5. \A d \in Commands : Busy(d)' /\ command'[d].op = "hint" => agent'[command'[d].of].listed
  BY MovingOthers
<1> QED
  BY <1>1, <1>2, <1>3, <1>4, <1>5 DEF Table

LEMMA NotInserted ==
  ASSUME NEW c \in Commands, Moving(c), ~Inserted(c)'
  PROVE  Fresh'
BY MovingOthers DEF Fresh

LEMMA Unaimed ==
  ASSUME NEW a \in Agents, \A d \in Commands : ~Aimed(d, a)' /\ ~Halting(d, a)'
  PROVE  Aims(a)'
BY DEF Aims, Aim, Aimed, Cleared, Halted

LEMMA LocalStays ==
  ASSUME NEW a \in Agents, Local(a), SDK' = SDK, TasksSame(a), AgentSame(a), Aims(a)',
         \A d \in Commands : command'[d] = command[d] \/ command[d].op # "kill"
  PROVE  Local(a)'
<1>1. \A t \in Tasks : (task'[t].of = a <=> task[t].of = a)
                       /\ (task'[t].of = a => /\ task'[t] = task[t]
                                              /\ Runner(t)' = Runner(t) /\ Main(t)' = Main(t)
                                              /\ Live(t)' = Live(t) /\ Engaged(t)' = Engaged(t))
  BY DEF TasksSame, Runner, Main, Live, Engaged
<1>2. Alone(a)' /\ Begins(a)'
  BY <1>1 DEF Local, Alone, Begins, AgentSame
<1>3. SdkAgent(a)'
  <2>1. \A t \in Tasks : task'[t].of = a /\ RunnerFits(t, a) => RunnerFits(t, a)'
    BY <1>1 DEF RunnerFits, AgentSame, Interrupted, Idle
  <2> QED
    BY <1>1, <2>1 DEF Local, SdkAgent, AgentSame
<1>4. CliAgent(a)'
  <2>1. \A t \in Tasks, pcs \in SUBSET {"killing", "waiting", "cancelled"}, c \in Commands :
          task'[t].of = a /\ Kills(c, t, pcs) => Kills(c, t, pcs)' /\ command'[c] = command[c]
    BY <1>1 DEF Kills
  <2>2. \A t \in Tasks : task'[t].of = a /\ ProcFits(t, a) => ProcFits(t, a)'
    BY <1>1, <2>1 DEF ProcFits, AgentSame, Dying
  <2> QED
    BY <1>1, <2>2 DEF Local, CliAgent, AgentSame
<1> QED
  BY <1>2, <1>3, <1>4 DEF Local

(* What an interruption leaves of agent a: no query, and no subprocess that *)
(* was not told to end.                                                     *)
TasksSteady ==
  \A t \in Tasks : /\ task'[t].of = task[t].of /\ task'[t].kind = task[t].kind /\ task'[t].pc = task[t].pc
                   /\ task'[t].cancel = task[t].cancel
                   /\ task'[t].proc = "live" => task[t].proc = "live"

Quiet(a) ==
  /\ \A t \in Tasks : task[t].of = a => ~Live(t)'
  /\ Len(work'[a]) = Len(work[a]) /\ work'[a] \in Seq(BOOLEAN) /\ work[a] \in Seq(BOOLEAN)
  /\ results'[a] = results[a]
  /\ \A t \in Tasks : SDK /\ task[t].of = a /\ Runner(t) /\ task[t].pc = "turn" => Interrupted(work'[a])

LEMMA InterruptQuiets ==
  ASSUME SInv, NEW a \in Agents, Local(a), Interrupt(a), results' = results
  PROVE  /\ TasksSteady /\ Quiet(a)
         /\ \A b \in Agents \ {a} : TasksSame(b) /\ work'[b] = work[b]
<1>1. /\ work' \in [Agents -> Seq(BOOLEAN)]
      /\ \A b \in Agents : Len(work'[b]) = Len(work[b]) /\ (work'[b] = work[b] \/ (SDK /\ b = a))
      /\ task' \in [Tasks -> TaskRec]
      /\ \A t \in Tasks : /\ task'[t] = task[t]
                             \/ /\ t = agent[a].proc /\ task[t].proc = "live"
                                /\ task'[t] = [task[t] EXCEPT !.proc = "signalled", !.interrupted = TRUE]
  BY InterruptFacts DEF SInv
<1>2. \A t \in Tasks : task[t] \in TaskRec
  BY DEF SInv, Typed
<1>3. TasksSteady
  <2> SUFFICES ASSUME NEW t \in Tasks
               PROVE  /\ task'[t].of = task[t].of /\ task'[t].kind = task[t].kind
                      /\ task'[t].pc = task[t].pc /\ task'[t].cancel = task[t].cancel
                      /\ task'[t].proc = "live" => task[t].proc = "live"
    BY DEF TasksSteady
  <2>1. CASE task'[t] = task[t]
    BY <2>1
  <2>2. CASE task'[t] = [task[t] EXCEPT !.proc = "signalled", !.interrupted = TRUE]
    BY <1>2, <2>2 DEF TaskRec
  <2> QED
    BY <1>1, <2>1, <2>2
<1>4. \A t \in Tasks : task[t].of = a => ~Live(t)'
  <2> SUFFICES ASSUME NEW t \in Tasks, task[t].of = a, task[t].proc = "live"
               PROVE  task'[t].proc # "live"
    BY <1>3 DEF TasksSteady, Live
  <2>1. ~SDK
    BY DEF SInv, Modes
  <2>2. agent[a].proc = t
    BY <2>1 DEF Local, CliAgent, ProcFits, Live
  <2>3. t # 0
    BY DEF Tasks
  <2>4. task' = [task EXCEPT ![t].proc = "signalled", ![t].interrupted = TRUE]
    BY <2>2, <2>3 DEF Interrupt
  <2> QED
    BY <1>2, <2>4 DEF TaskRec, SInv, Typed
<1>5. \A b \in Agents \ {a} : TasksSame(b) /\ work'[b] = work[b]
  <2>1. agent[a].proc \in Tasks => task[agent[a].proc].of = a
    BY DEF SInv, ProcKnown, Tasks
  <2>2. ASSUME NEW b \in Agents \ {a}, NEW t \in Tasks, task[t].of = b \/ task'[t].of = b
        PROVE  task'[t] = task[t]
    <3>1. task[t].of = b
      BY <1>3, <2>2 DEF TasksSteady
    <3>2. t # agent[a].proc
      BY <2>1, <3>1
    <3> QED
      BY <1>1, <3>2
  <2>3. \A b \in Agents \ {a} : work'[b] = work[b]
    BY <1>1
  <2> QED
    BY <2>2, <2>3 DEF TasksSame
<1>6. ASSUME NEW t \in Tasks, SDK, task[t].of = a, Runner(t), task[t].pc = "turn"
      PROVE  Interrupted(work'[a])
  <2>1. agent[a].client = "open" /\ Len(work[a]) + Len(results[a]) <= 1
    BY <1>6 DEF Local, SdkAgent, RunnerFits
  <2>2. work[a] \in Seq(BOOLEAN) /\ results[a] \in Seq(BOOLEAN) /\ Len(work[a]) \in Nat /\ Len(results[a]) \in Nat
    BY DEF SInv, Typed
  <2>3. Len(work[a]) <= 1
    <3>1. \A m, n \in Nat : m + n <= 1 => m <= 1
      OBVIOUS
    <3> QED
      BY <2>1, <2>2, <3>1
  <2>4. CASE work[a] = <<>>
    <3>1. Len(work'[a]) = 0
      BY <1>1, <2>4
    <3> QED
      BY <3>1 DEF Interrupted
  <2>5. CASE work[a] # <<>>
    <3>1. work'[a] = [work[a] EXCEPT ![1] = TRUE]
      BY <1>6, <2>1, <2>5 DEF Interrupt, SInv, Typed
    <3>2. Len(work[a]) = 1 /\ Len(work'[a]) = 1
      <4>1. Len(work[a]) # 0
        BY <2>2, <2>5, EmptySeq
      <4>2. \A m \in Nat : m <= 1 /\ m # 0 => m = 1
        OBVIOUS
      <4>3. Len(work[a]) = 1
        BY <2>2, <2>3, <4>1, <4>2
      <4> QED
        BY <1>1, <4>3
    <3>3. work'[a][1] = TRUE
      BY <2>2, <3>1, <3>2
    <3> QED
      BY <3>2, <3>3 DEF Interrupted
  <2> QED
    BY <2>4, <2>5
<1> QED
  BY <1>1, <1>3, <1>4, <1>5, <1>6 DEF Quiet, SInv, Typed

LEMMA QuietKeeps ==
  ASSUME NEW a \in Agents, Local(a), SDK' = SDK, TasksSteady, Quiet(a), Aims(a)',
         agent'[a].listed = agent[a].listed, agent'[a].client = agent[a].client,
         \A d \in Commands : command[d].op = "kill" => ~Busy(d)
  PROVE  Local(a)'
<1>1. \A t \in Tasks : /\ task'[t].of = task[t].of /\ task'[t].pc = task[t].pc
                       /\ Runner(t)' = Runner(t) /\ Main(t)' = Main(t) /\ (Live(t)' => Live(t))
                       /\ (Engaged(t)' => Engaged(t))
  BY DEF TasksSteady, Runner, Main, Live, Engaged
<1>2. Alone(a)' /\ Begins(a)'
  BY <1>1 DEF Local, Alone, Begins
<1>3. SdkAgent(a)'
  <2> SUFFICES ASSUME SDK PROVE SdkAgent(a)'
    BY DEF SdkAgent
  <2>1. SdkAgent(a)
    BY DEF Local
  <2>2. ASSUME NEW t \in Tasks, task[t].of = a, Runner(t)
        PROVE  RunnerFits(t, a)'
    <3>1. RunnerFits(t, a)
      BY <2>1, <2>2 DEF SdkAgent
    <3>2. Idle(a) => Idle(a)'
      <4>1. \A q, r \in Seq(BOOLEAN) : Len(q) = Len(r) /\ r = <<>> => q = <<>>
        OBVIOUS
      <4> QED
        BY <4>1 DEF Idle, Quiet
    <3>3. task[t].pc = "turn" => Interrupted(work'[a])
      BY <2>2 DEF Quiet
    <3> QED
      BY <1>1, <3>1, <3>2, <3>3 DEF RunnerFits, Quiet
  <2> QED
    BY <1>1, <2>1, <2>2 DEF SdkAgent
<1>4. CliAgent(a)'
  <2> SUFFICES ASSUME ~SDK PROVE CliAgent(a)'
    BY DEF CliAgent
  <2>1. CliAgent(a)
    BY DEF Local
  <2>2. ASSUME NEW t \in Tasks, task[t].of = a
        PROVE  ProcFits(t, a)'
    <3>1. ~Live(t)' /\ ProcFits(t, a)
      BY <2>1, <2>2 DEF Quiet, CliAgent
    <3>2. ~(task[t].pc \in {"new", "launch", "telling"} /\ task[t].cancel # "no")
      BY <3>1 DEF ProcFits, Kills, Busy
    <3> QED
      BY <3>1, <3>2 DEF ProcFits, TasksSteady
  <2> QED
    BY <1>1, <2>1, <2>2 DEF CliAgent
<1> QED
  BY <1>2, <1>3, <1>4 DEF Local

-----------------------------------------------------------------------------
(* A command that is called while no other one is under way.                *)
LEMMA CalledMoves ==
  ASSUME SInv, NEW com \in CommandRec, com.op # "none", NEW S \in SUBSET Agents,
         NEW lost \in BOOLEAN, Called(com, S, lost), ~overlap'
  PROVE  \E c \in Commands :
           /\ command[c] = NoCommand /\ command' = [command EXCEPT ![c] = com] /\ command'[c] = com
           /\ Moving(c) /\ (\A d \in Commands : ~Busy(d))
           /\ \A a \in S : ~Starting(a) /\ (com.op = "confirm" => ~AtWork(a))
           /\ ~lost
<1>1. PICK c \in Commands : command[c] = NoCommand /\ command' = [command EXCEPT ![c] = com]
  BY CalledNext DEF SInv
<1>2. \A d \in Commands : ~Busy(d)
  <2>1. \A d \in Commands : command[d].op = "none" => command[d].pc = "over"
    BY DEF SInv, Blank, NoCommand
  <2>2. \A d \in Commands : command[d].op # "none" => command[d].pc = "over"
    BY DEF Called
  <2> QED
    BY <2>1, <2>2 DEF Busy
<1>3. ~lost /\ \A a \in S : ~Starting(a) /\ (com.op = "confirm" => ~AtWork(a))
  BY DEF Called
<1>4. command'[c] = com /\ \A d \in Commands \ {c} : command'[d] = command[d]
  BY <1>1 DEF SInv, Typed
<1> QED
  BY <1>1, <1>2, <1>3, <1>4 DEF Moving

(* An agent that is not starting a turn has no task before its launch.      *)
LEMMA NotStarting ==
  ASSUME NEW a, ~Starting(a), NEW t \in Tasks, task[t].of = a
  PROVE  task[t].pc \notin {"new", "launch"}
BY DEF Starting, TasksOf, Alive

(* Commands change, and the tasks of a at most signal their subprocesses or *)
(* are cancelled.                                                           *)
Steady(a) ==
  \A t \in Tasks : task[t].of = a \/ task'[t].of = a =>
    /\ task'[t].of = task[t].of /\ task'[t].kind = task[t].kind /\ task'[t].pc = task[t].pc
    /\ Live(t)' => Live(t)

LEMMA SteadyIf ==
  ASSUME NEW a, TasksSteady \/ UNCHANGED task
  PROVE  Steady(a)
BY DEF TasksSteady, Steady, Live

LEMMA AimsKept ==
  ASSUME NEW a \in Agents, Aims(a), SDK' = SDK, Steady(a),
         \A d \in Commands :
           /\ Aimed(d, a)' => Aimed(d, a) \/ \A t \in Tasks : task[t].of = a => task[t].pc \notin {"new", "launch"}
           /\ command'[d].pc = "hinting" /\ command'[d].of = a =>
                \A t \in Tasks : task[t].of = a => task[t].pc \notin {"telling", "turn", "judge"}
           /\ Cleared(d, a)' => \A t \in Tasks : task[t].of = a => ~Live(t)'
           /\ Halted(d, a)' => agent'[a].status # "running" \/ (Halted(d, a) /\ agent'[a].status = agent[a].status)
  PROVE  Aims(a)'
<1> SUFFICES ASSUME NEW d \in Commands, NEW t \in Tasks, task'[t].of = a
             PROVE  Aim(d, t, a)'
  BY DEF Aims
<1>1. /\ task[t].of = a /\ task'[t].pc = task[t].pc /\ Runner(t)' = Runner(t) /\ Main(t)' = Main(t)
      /\ Aim(d, t, a)
  BY DEF Steady, Runner, Main, Aims
<1> QED
  BY <1>1 DEF Aim

LEMMA SteadyKeeps ==
  ASSUME NEW a \in Agents, Local(a), SDK' = SDK, Steady(a), Aims(a)',
         work'[a] = work[a], results'[a] = results[a], agent'[a].client = agent[a].client,
         \/ agent'[a].listed = agent[a].listed
         \/ \A t \in Tasks : task[t].of = a /\ Main(t) => task[t].pc \notin {"new", "launch"},
         \/ agent'[a].listed = agent[a].listed /\ agent'[a].status = agent[a].status
         \/ \A t \in Tasks : SDK /\ task[t].of = a /\ Runner(t) /\ task[t].pc = "turn" => Interrupted(work[a]),
         ~SDK => \A t \in Tasks : task[t].of = a => ProcFits(t, a)'
  PROVE  Local(a)'
<1>1. \A t \in Tasks : /\ task'[t].of = a <=> task[t].of = a
                       /\ task'[t].of = a => /\ task'[t].pc = task[t].pc
                                             /\ Runner(t)' = Runner(t) /\ Main(t)' = Main(t)
                                             /\ (Engaged(t)' => Engaged(t))
  BY DEF Steady, Runner, Main, Live, Engaged
<1>2. Alone(a)' /\ Begins(a)'
  BY <1>1 DEF Local, Alone, Begins
<1>3. SdkAgent(a)'
  <2> SUFFICES ASSUME SDK PROVE SdkAgent(a)'
    BY DEF SdkAgent
  <2>1. \A t \in Tasks : task[t].of = a /\ Runner(t) /\ RunnerFits(t, a) => RunnerFits(t, a)'
    BY <1>1 DEF RunnerFits, Idle, Interrupted
  <2> QED
    BY <1>1, <2>1 DEF Local, SdkAgent
<1>4. CliAgent(a)'
  BY <1>1 DEF Local, CliAgent
<1> QED
  BY <1>2, <1>3, <1>4 DEF Local

(* A task that was cancelled before its turn is waited for by a kill.       *)
LEMMA NotCancelled ==
  ASSUME ~SDK, NEW a \in Agents, Local(a), NEW t \in Tasks, task[t].of = a,
         \A d \in Commands : ~(command[d].op = "kill" /\ command[d].pc = "waiting" /\ command[d].task = t)
  PROVE  ~(task[t].pc \in {"new", "launch", "telling"} /\ task[t].cancel # "no")
BY DEF Local, CliAgent, ProcFits, Kills

(* A step that is about one agent.                                          *)
LEMMA OneAgentStep ==
  ASSUME SInv, Orderly, NEW c \in Commands, Moving(c), SDK' = SDK, NEW a \in Agents,
         \A b \in Agents \ {a} : AgentSame(b) /\ TasksSame(b),
         \A b \in Agents \ {a} : CommandsSame(b),
         Local(a)', Table', Fresh'
  PROVE  Orderly'
<1> DEFINE S == {a}
<1>1. S \in SUBSET Agents /\ \A b \in Agents : b \in S <=> b = a
  OBVIOUS
<1> HIDE DEF S
<1>2. \A b \in S : Local(b)'
  BY <1>1
<1>3. \A b \in Agents \ S : AgentSame(b) /\ TasksSame(b)
  BY <1>1
<1>4. \A b \in Agents \ S : CommandsSame(b)
  BY <1>1
<1> QED
  BY <1>1, <1>2, <1>3, <1>4, CommandStepKeeps

LEMMA StopCalledOrderly ==
  ASSUME SInv, Orderly, StopCalled, ~overlap'
  PROVE  Orderly'
<1>1. PICK a \in Listed, lost \in BOOLEAN :
        /\ Called([NoCommand EXCEPT !.op = "stop", !.pc = "stopping", !.proc = LiveProc(a)], {a}, lost)
        /\ agent' = [agent EXCEPT ![a].status = "paused"]
        /\ lost \/ Interrupt(a)
        /\ UNCHANGED <<harness, results>>
  BY DEF StopCalled
<1>2. a \in Agents /\ Local(a) /\ SDK' = SDK /\ LiveProc(a) \in {0} \cup Tasks
  BY <1>1, ListedMade, LiveProcIn DEF Orderly, SDK
<1> DEFINE com == [NoCommand EXCEPT !.op = "stop", !.pc = "stopping", !.proc = LiveProc(a)]
<1>3. com \in CommandRec /\ com.op = "stop" /\ com.pc = "stopping" /\ com.of = 0 /\ com.todo = {}
  BY <1>2 DEF NoCommand, CommandRec
<1>4. Called(com, {a}, lost)
  BY <1>1
<1> HIDE DEF com
<1>5. PICK c \in Commands : /\ command[c] = NoCommand /\ command'[c] = com
                            /\ Moving(c) /\ (\A d \in Commands : ~Busy(d)) /\ ~lost
  BY <1>2, <1>3, <1>4, CalledMoves
<1>6. \A b \in Agents, d \in Commands : ~Aimed(d, b)' /\ ~Halting(d, b)' /\ ~Cleared(d, b)' /\ ~Halted(d, b)'
  <2>1. \A b \in Agents : ~Aimed(c, b)' /\ ~Halting(c, b)' /\ ~Cleared(c, b)' /\ ~Halted(c, b)'
    BY <1>3, <1>5 DEF Aimed, Halting, Cleared, Halted, Agents
  <2> QED
    BY <1>5, <2>1, MovingOthers
<1>7. TasksSteady /\ Quiet(a) /\ \A b \in Agents \ {a} : TasksSame(b) /\ work'[b] = work[b]
  BY <1>1, <1>2, <1>5, InterruptQuiets
<1>8. \A b \in Agents : /\ agent'[b].listed = agent[b].listed /\ agent'[b].client = agent[b].client
                        /\ agent'[b].exit = agent[b].exit /\ agent'[b].proc = agent[b].proc
                        /\ b # a => agent'[b].status = agent[b].status
  BY <1>1 DEF SInv, Typed, AgentRec
<1>9. Local(a)'
  BY <1>2, <1>5, <1>6, <1>7, <1>8, Unaimed, QuietKeeps
<1>10. \A b \in Agents \ {a} : AgentSame(b) /\ TasksSame(b) /\ CommandsSame(b)
  <2>1. \A b \in Agents \ {a} : AgentSame(b) /\ TasksSame(b)
    BY <1>1, <1>7, <1>8 DEF AgentSame
  <2>2. \A b \in Agents : CommandsSame(b)
    BY <1>5, <1>6 DEF CommandsSame, Moving, NoCommand
  <2> QED
    BY <2>1, <2>2
<1>11. Table'
  <2>1. ~Clearing(c)' /\ command'[c].op \notin {"kill", "hint"}
    BY <1>3, <1>5 DEF Clearing
  <2> QED
    BY <1>5, <1>8, <2>1, TableKeeps
<1>12. Fresh'
  BY <1>3, <1>5, NotInserted DEF Inserted
<1> QED
  BY <1>2, <1>5, <1>9, <1>10, <1>11, <1>12, OneAgentStep

LEMMA HintCalledOrderly ==
  ASSUME SInv, Orderly, HintCalled, ~overlap'
  PROVE  Orderly'
<1>1. PICK a \in Listed :
        /\ Called([NoCommand EXCEPT !.op = "hint", !.pc = "sent", !.of = a], {a}, FALSE)
        /\ UNCHANGED <<harness, agent, task, work, results>>
  BY DEF HintCalled
<1>2. a \in Agents /\ Local(a) /\ SDK' = SDK
  BY <1>1, ListedMade DEF Orderly, SDK
<1> DEFINE com == [NoCommand EXCEPT !.op = "hint", !.pc = "sent", !.of = a]
<1>3. com \in CommandRec /\ com.op = "hint" /\ com.pc = "sent" /\ com.of = a /\ com.todo = {}
  BY <1>2 DEF NoCommand, CommandRec
<1>4. PICK lost \in BOOLEAN : Called(com, {a}, lost)
  BY <1>1
<1> HIDE DEF com
<1>5. PICK c \in Commands : /\ command[c] = NoCommand /\ command'[c] = com
                            /\ Moving(c) /\ (\A d \in Commands : ~Busy(d)) /\ ~Starting(a)
  BY <1>2, <1>3, <1>4, CalledMoves
<1>6. \A b \in Agents, d \in Commands : (Aimed(d, b)' => b = a) /\ command'[d].pc # "hinting"
                                         /\ ~Cleared(d, b)' /\ ~Halted(d, b)'
  <2>1. \A b \in Agents : (Aimed(c, b)' => b = a) /\ command'[c].pc # "hinting"
                          /\ ~Cleared(c, b)' /\ ~Halted(c, b)'
    BY <1>3, <1>5 DEF Aimed, Halting, Cleared, Halted
  <2>2. \A d \in Commands \ {c} : command'[d].pc = "over"
    BY <1>5, MovingOthers DEF Busy
  <2> QED
    BY <1>5, <2>1, <2>2, MovingOthers
<1>7. Aims(a)'
  <2>1. \A t \in Tasks : task[t].of = a => task[t].pc \notin {"new", "launch"}
    BY <1>5, NotStarting
  <2>2. Steady(a)
    BY <1>1, SteadyIf
  <2> QED
    BY <1>2, <1>6, <2>1, <2>2, AimsKept DEF Local
<1>8. \A b \in Agents : AgentSame(b) /\ TasksSame(b)
  BY <1>1 DEF AgentSame, TasksSame
<1>9. Local(a)'
  BY <1>2, <1>5, <1>7, <1>8, LocalStays DEF Moving, NoCommand
<1>10. \A b \in Agents \ {a} : CommandsSame(b)
  BY <1>5, <1>6 DEF CommandsSame, Moving, NoCommand
<1>11. Table'
  <2>1. ~Clearing(c)' /\ command'[c].op # "kill" /\ agent'[command'[c].of].listed
    BY <1>1, <1>3, <1>5 DEF Clearing, Listed
  <2> QED
    BY <1>1, <1>5, <2>1, TableKeeps
<1>12. Fresh'
  BY <1>3, <1>5, NotInserted DEF Inserted
<1> QED
  BY <1>2, <1>5, <1>8, <1>9, <1>10, <1>11, <1>12, OneAgentStep

LEMMA SpawnCalledOrderly ==
  ASSUME SInv, Orderly, SpawnCalled, ~overlap'
  PROVE  Orderly'
<1>1. Listed \in SUBSET Agents /\ UNCHANGED <<harness, agent, task, work, results>> /\ SDK' = SDK
  BY DEF SpawnCalled, Listed, SDK
<1> DEFINE com == [NoCommand EXCEPT !.op = "spawn", !.pc = "clearing", !.todo = Listed]
<1>2. /\ com \in CommandRec /\ com.op = "spawn" /\ com.pc = "clearing" /\ com.of = 0 /\ com.todo = Listed
  BY <1>1 DEF NoCommand, CommandRec
<1>3. Called(com, Listed, FALSE)
  BY DEF SpawnCalled
<1> HIDE DEF com
<1>4. PICK c \in Commands : /\ command[c] = NoCommand /\ command'[c] = com
                            /\ Moving(c) /\ (\A d \in Commands : ~Busy(d)) /\ \A a \in Listed : ~Starting(a)
  BY <1>1, <1>2, <1>3, CalledMoves
<1>5. \A b \in Agents, d \in Commands : (Aimed(d, b)' => b \in Listed) /\ command'[d].pc # "hinting"
                                         /\ ~Cleared(d, b)' /\ ~Halted(d, b)'
  <2>1. \A b \in Agents : (Aimed(c, b)' => b \in Listed) /\ command'[c].pc # "hinting"
                          /\ ~Cleared(c, b)' /\ ~Halted(c, b)'
    BY <1>2, <1>4 DEF Aimed, Halting, Cleared, Halted, Agents
  <2>2. \A d \in Commands \ {c} : command'[d].pc = "over"
    BY <1>4, MovingOthers DEF Busy
  <2> QED
    BY <1>4, <2>1, <2>2, MovingOthers
<1>6. \A b \in Agents : AgentSame(b) /\ TasksSame(b)
  BY <1>1 DEF AgentSame, TasksSame
<1>7. ASSUME NEW a \in Listed
      PROVE  Local(a)'
  <2>1. a \in Agents /\ Local(a)
    BY <1>1 DEF Orderly
  <2>2. \A t \in Tasks : task[t].of = a => task[t].pc \notin {"new", "launch"}
    BY <1>4, NotStarting
  <2>3. Steady(a)
    BY <1>1, SteadyIf
  <2>4. Aims(a)'
    BY <1>1, <1>5, <2>1, <2>2, <2>3, AimsKept DEF Local
  <2> QED
    BY <1>1, <1>4, <1>6, <2>1, <2>4, LocalStays DEF Moving, NoCommand
<1>8. \A b \in Agents \ Listed : CommandsSame(b)
  BY <1>4, <1>5 DEF CommandsSame, Moving, NoCommand
<1>9. Table'
  <2>1. Clearing(c)' => \A b \in Agents : agent'[b].listed => b \in command'[c].todo
    BY <1>1, <1>2, <1>4 DEF Listed
  <2>2. command'[c].op \notin {"kill", "hint"}
    BY <1>2, <1>4
  <2> QED
    BY <1>1, <1>4, <2>1, <2>2, TableKeeps
<1>10. Fresh'
  BY <1>2, <1>4, NotInserted DEF Inserted
<1> QED
  BY <1>1, <1>4, <1>6, <1>7, <1>8, <1>9, <1>10, CommandStepKeeps

LEMMA KillCalledOrderly ==
  ASSUME SInv, Orderly, KillCalled, ~overlap'
  PROVE  Orderly'
<1>1. PICK a \in Listed, lost \in BOOLEAN :
        /\ Called([NoCommand EXCEPT !.op = "kill", !.pc = "killing", !.of = a], {a}, lost)
        /\ agent' = [agent EXCEPT ![a].status = "stopped", ![a].exit = TRUE]
        /\ lost \/ (IF SDK THEN Interrupt(a) ELSE UNCHANGED <<task, work>>)
        /\ UNCHANGED <<harness, results>>
  BY DEF KillCalled
<1>2. a \in Agents /\ Local(a) /\ SDK' = SDK
  BY <1>1, ListedMade DEF Orderly, SDK
<1> DEFINE com == [NoCommand EXCEPT !.op = "kill", !.pc = "killing", !.of = a]
<1>3. com \in CommandRec /\ com.op = "kill" /\ com.pc = "killing" /\ com.of = a /\ com.todo = {}
  BY <1>2 DEF NoCommand, CommandRec
<1>4. Called(com, {a}, lost)
  BY <1>1
<1> HIDE DEF com
<1>5. PICK c \in Commands : /\ command[c] = NoCommand /\ command'[c] = com
                            /\ Moving(c) /\ (\A d \in Commands : ~Busy(d)) /\ ~Starting(a) /\ ~lost
  BY <1>2, <1>3, <1>4, CalledMoves
<1>6. \A b \in Agents, d \in Commands : /\ Aimed(d, b)' => b = a
                                        /\ command'[d].pc # "hinting" /\ ~Cleared(d, b)'
                                        /\ Halted(d, b)' => b = a
  <2>1. \A b \in Agents : /\ Aimed(c, b)' => b = a
                          /\ command'[c].pc # "hinting" /\ ~Cleared(c, b)' /\ (Halted(c, b)' => b = a)
    BY <1>3, <1>5 DEF Aimed, Halting, Cleared, Halted
  <2>2. \A d \in Commands \ {c} : command'[d].pc = "over"
    BY <1>5, MovingOthers DEF Busy
  <2> QED
    BY <1>5, <2>1, <2>2, MovingOthers
<1>7. /\ \A b \in Agents : /\ agent'[b].listed = agent[b].listed /\ agent'[b].client = agent[b].client
                           /\ agent'[b].proc = agent[b].proc
                           /\ b # a => agent'[b].status = agent[b].status /\ agent'[b].exit = agent[b].exit
      /\ agent'[a].status = "stopped" /\ agent'[a].exit
  BY <1>1, <1>2 DEF SInv, Typed, AgentRec
<1>8. \A t \in Tasks : task[t].of = a => task[t].pc \notin {"new", "launch"}
  BY <1>5, NotStarting
<1>9. SDK => /\ TasksSteady /\ Quiet(a)
             /\ \A b \in Agents \ {a} : TasksSame(b) /\ work'[b] = work[b]
  BY <1>1, <1>2, <1>5, InterruptQuiets
<1>10. Steady(a)
  BY <1>1, <1>5, <1>9, SteadyIf
<1>11. Aims(a)'
  BY <1>2, <1>6, <1>7, <1>8, <1>10, AimsKept DEF Local
<1>12. Local(a)'
  <2>1. CASE SDK
    BY <1>2, <1>5, <1>7, <1>9, <1>11, <2>1, QuietKeeps
  <2>2. CASE ~SDK
    <3>1. ASSUME NEW t \in Tasks, task[t].of = a
          PROVE  ProcFits(t, a)'
      <4>1. ProcFits(t, a) /\ task' = task
        BY <1>1, <1>2, <1>5, <2>2, <3>1 DEF Local, CliAgent
      <4>2. Live(t)' => Dying(t)'
        BY <1>3, <1>5, <3>1, <4>1 DEF Dying, Kills
      <4>3. ~(task[t].pc \in {"new", "launch", "telling"} /\ task[t].cancel # "no")
        BY <1>2, <1>5, <2>2, <3>1, NotCancelled DEF Busy
      <4> QED
        BY <1>2, <1>7, <4>1, <4>2, <4>3 DEF ProcFits, Live
    <3> QED
      BY <1>1, <1>2, <1>5, <1>7, <1>10, <1>11, <2>2, <3>1, SteadyKeeps
  <2> QED
    BY <2>1, <2>2
<1>13. \A b \in Agents \ {a} : AgentSame(b) /\ TasksSame(b)
  BY <1>1, <1>5, <1>7, <1>9 DEF AgentSame, TasksSame
<1>14. \A b \in Agents \ {a} : CommandsSame(b)
  BY <1>5, <1>6 DEF CommandsSame, Moving, NoCommand
<1>15. Table'
  <2>1. ~Clearing(c)' /\ command'[c].of = a /\ command'[c].op = "kill"
    BY <1>3, <1>5 DEF Clearing
  <2> QED
    BY <1>5, <1>7, <2>1, TableKeeps
<1>16. Fresh'
  BY <1>3, <1>5, NotInserted DEF Inserted
<1> QED
  BY <1>2, <1>5, <1>12, <1>13, <1>14, <1>15, <1>16, OneAgentStep

LEMMA ConfirmCalledOrderly ==
  ASSUME SInv, Orderly, ConfirmCalled, ~overlap'
  PROVE  Orderly'
<1>1. PICK a \in Listed :
        /\ Called([NoCommand EXCEPT !.op = "confirm"], {a}, FALSE)
        /\ agent' = [Released(Listed) EXCEPT ![a].status = "confirmed_done"]
        /\ UNCHANGED <<harness, task, work, results>>
  BY DEF ConfirmCalled
<1>2. a \in Agents /\ Local(a) /\ SDK' = SDK
  BY <1>1, ListedMade DEF Orderly, SDK
<1> DEFINE com == [NoCommand EXCEPT !.op = "confirm"]
<1>3. com \in CommandRec /\ com.op = "confirm" /\ com.pc = "over"
  BY <1>2 DEF NoCommand, CommandRec
<1>4. Called(com, {a}, FALSE)
  BY <1>1
<1> HIDE DEF com
<1>5. PICK c \in Commands : /\ command[c] = NoCommand /\ command'[c] = com
                            /\ Moving(c) /\ (\A d \in Commands : ~Busy(d)) /\ ~Starting(a) /\ ~AtWork(a)
  BY <1>2, <1>3, <1>4, CalledMoves
<1>6. /\ \A d \in Commands : ~Busy(d)'
      /\ \A b \in Agents, d \in Commands : ~Aimed(d, b)' /\ ~Halting(d, b)' /\ ~Cleared(d, b)' /\ ~Halted(d, b)'
      /\ ~Inserted(c)' /\ ~Clearing(c)'
  BY <1>3, <1>5, MovingOthers DEF Busy, Aimed, Halting, Cleared, Halted, Inserted, Clearing
<1>7. \A b \in Agents : /\ agent'[b].listed = agent[b].listed /\ agent'[b].client = agent[b].client
                        /\ agent'[b].proc = agent[b].proc
                        /\ agent[b].exit => agent'[b].exit
                        /\ b # a => agent'[b].status = agent[b].status
  <2> SUFFICES ASSUME NEW b \in Agents
               PROVE  /\ agent'[b].listed = agent[b].listed /\ agent'[b].client = agent[b].client
                      /\ agent'[b].proc = agent[b].proc
                      /\ agent[b].exit => agent'[b].exit
                      /\ b # a => agent'[b].status = agent[b].status
    OBVIOUS
  <2> DEFINE r == Released(Listed)[b]
  <2>1. agent[b] \in AgentRec /\ (r = agent[b] \/ r = [agent[b] EXCEPT !.exit = TRUE])
    BY DEF Released, SInv, Typed
  <2>2. /\ r.listed = agent[b].listed /\ r.client = agent[b].client /\ r.proc = agent[b].proc
        /\ r.status = agent[b].status /\ (agent[b].exit => r.exit)
    BY <2>1 DEF AgentRec
  <2>3. agent'[b] = r \/ (b = a /\ agent'[b] = [r EXCEPT !.status = "confirmed_done"])
    BY <1>1 DEF Released
  <2> HIDE DEF r
  <2> QED
    BY <2>1, <2>2, <2>3 DEF AgentRec
<1>8. \A t \in Tasks : task[t].of = a => task[t].pc \notin {"new", "launch", "telling", "turn"}
  BY <1>5, NotStarting DEF AtWork, TasksOf, Alive
<1>9. Local(a)'
  <2>1. Steady(a) /\ Aims(a)'
    BY <1>1, <1>2, <1>6, SteadyIf, Unaimed
  <2>2. ASSUME ~SDK, NEW t \in Tasks, task[t].of = a
        PROVE  ProcFits(t, a)'
    <3>1. ProcFits(t, a) /\ ~Dying(t)
      BY <1>2, <1>5, <2>2 DEF Local, CliAgent, Dying, Kills, Busy
    <3> QED
      BY <1>1, <1>8, <2>2, <3>1 DEF ProcFits, Live
  <2> QED
    BY <1>1, <1>2, <1>7, <1>8, <2>1, <2>2, SteadyKeeps
<1>10. \A b \in Agents \ {a} : AgentSame(b) /\ TasksSame(b)
  BY <1>1, <1>7 DEF AgentSame, TasksSame
<1>11. \A b \in Agents \ {a} : CommandsSame(b)
  BY <1>5, <1>6 DEF CommandsSame, Moving, NoCommand
<1>12. Table'
  BY <1>3, <1>5, <1>6, <1>7, TableKeeps
<1>13. Fresh'
  BY <1>5, <1>6, NotInserted
<1> QED
  BY <1>2, <1>5, <1>9, <1>10, <1>11, <1>12, <1>13, OneAgentStep

(* A command that ends, and changes nothing else.                           *)
LEMMA EndsOrderly ==
  ASSUME SInv, Orderly, NEW c \in Commands, Busy(c), command[c].op # "kill", Ends(c),
         UNCHANGED <<harness, task, work, results>>,
         \A b \in Agents : AgentSame(b) /\ agent'[b].exit = agent[b].exit
  PROVE  Orderly'
<1>1. command'[c].pc = "over" /\ command'[c].op = "over" /\ \A d \in Commands \ {c} : command'[d] = command[d]
  BY DEF Ends, NoCommand, SInv, Typed
<1>2. Moving(c) /\ SDK' = SDK
  BY <1>1, CommandMoves DEF SDK
<1>3. \A b \in Agents : ~Aimed(c, b)' /\ ~Cleared(c, b)' /\ ~Halted(c, b)'
  BY <1>1 DEF Aimed, Halting, Cleared, Halted
<1>4. \A b \in Agents : AgentSame(b) /\ TasksSame(b)
  BY DEF TasksSame
<1>5. \A b \in Agents : CommandsSame(b)
  BY <1>1, <1>3 DEF CommandsSame
<1>6. Table'
  <2>1. ~Clearing(c)'
    BY <1>1 DEF Clearing
  <2> QED
    BY <1>1, <1>2, <2>1, TableKeeps DEF AgentSame
<1>7. Fresh'
  BY <1>1, <1>2, NotInserted DEF Inserted
<1>8. {} \in SUBSET Agents
  OBVIOUS
<1> QED
  BY <1>2, <1>4, <1>5, <1>6, <1>7, <1>8, CommandStepKeeps

LEMMA StopReturnsOrderly ==
  ASSUME SInv, Orderly, NEW c \in Commands, StopReturns(c)
  PROVE  Orderly'
<1>1. Busy(c) /\ command[c].op # "kill" /\ Ends(c) /\ UNCHANGED <<harness, agent, task, work, results>>
  BY DEF StopReturns, At, Busy
<1> QED
  BY <1>1, EndsOrderly DEF AgentSame

-----------------------------------------------------------------------------
(* spawn_agent goes on: it takes a out of the table once a has no query and *)
(* no subprocess that was not told to end.                                  *)
LEMMA PopOrderly ==
  ASSUME SInv, Orderly, NEW c \in Commands, Clearing(c), NEW a \in command[c].todo,
         NEW com \in CommandRec, com.op = "spawn", com.pc = "clearing", com.of = command[c].of,
         com.todo = command[c].todo \ {a}, command' = [command EXCEPT ![c] = com],
         agent' = Popped(a), UNCHANGED <<harness, task, work, results>>,
         \A t \in Tasks : SDK /\ task[t].of = a /\ Runner(t) /\ task[t].pc = "turn" => Interrupted(work[a]),
         \A t \in Tasks : task[t].of = a => ~Live(t)
  PROVE  Orderly'
<1>1. /\ a \in Agents /\ Local(a) /\ SDK' = SDK /\ Busy(c) /\ command[c] \in CommandRec
      /\ command[c].op = "spawn" /\ Aimed(c, a)
  BY DEF SInv, Typed, CommandRec, Orderly, SDK, Clearing, Busy, Aimed
<1>2. command'[c] = com /\ Moving(c)
  <2>1. command'[c] = com /\ \A d \in Commands \ {c} : command'[d] = command[d]
    BY DEF SInv, Typed
  <2> QED
    BY <1>1, <2>1, CommandMoves
<1>3. \A b \in Agents, d \in Commands : /\ Aimed(d, b)' => Aimed(d, b)
                                        /\ command'[d].pc # "hinting" /\ ~Cleared(d, b)' /\ ~Halted(d, b)'
  <2>1. \A b \in Agents : /\ Aimed(c, b)' => Aimed(c, b)
                          /\ command'[c].pc # "hinting" /\ ~Cleared(c, b)' /\ ~Halted(c, b)'
    BY <1>2 DEF Aimed, Halting, Cleared, Halted, Clearing
  <2>2. \A d \in Commands \ {c} : command'[d].pc = "over"
    BY <1>2, MovingOthers DEF Busy
  <2> QED
    BY <1>2, <2>1, <2>2, MovingOthers
<1>4. /\ \A b \in Agents : /\ b # a => agent'[b] = agent[b]
                           /\ agent'[b].client = agent[b].client
      /\ agent'[a].proc = agent[a].proc /\ agent'[a].exit /\ ~agent'[a].listed
  BY <1>1 DEF Popped, SInv, Typed, AgentRec
<1>5. \A t \in Tasks : task[t].of = a /\ Main(t) => task[t].pc \notin {"new", "launch"}
  BY <1>1 DEF Local, Aims, Aim
<1>6. Local(a)'
  <2>1. Steady(a)
    BY SteadyIf
  <2>2. Aims(a)'
    BY <1>1, <1>3, <2>1, AimsKept DEF Local
  <2>3. ASSUME ~SDK, NEW t \in Tasks, task[t].of = a
        PROVE  ProcFits(t, a)'
    <3>1. ~(task[t].pc \in {"new", "launch", "telling"} /\ task[t].cancel # "no")
      <4>1. \A d \in Commands : Busy(d) => d = c
        BY <1>1 DEF Orderly, Serial
      <4> QED
        BY <1>1, <2>3, <4>1, NotCancelled DEF Busy
    <3> QED
      BY <2>3, <3>1 DEF ProcFits, Live
  <2> QED
    BY <1>1, <1>4, <1>5, <2>1, <2>2, <2>3, SteadyKeeps
<1>7. \A b \in Agents \ {a} : AgentSame(b) /\ TasksSame(b)
  BY <1>4 DEF AgentSame, TasksSame
<1>8. \A b \in Agents \ {a} : CommandsSame(b)
  BY <1>1, <1>2, <1>3 DEF CommandsSame, Moving
<1>9. Table'
  <2>1. Clearing(c)' => \A b \in Agents : agent'[b].listed => b \in command'[c].todo
    BY <1>2, <1>4 DEF Orderly, Table
  <2>2. command'[c].op \notin {"kill", "hint"}
    BY <1>2
  <2>3. \A b \in Agents : /\ agent'[b].listed => agent[b].listed
                          /\ agent[b].exit => agent'[b].exit
                          /\ agent'[b].client # "none" => agent[b].client # "none"
                          /\ agent[b].listed /\ ~agent'[b].listed => agent'[b].exit
    BY <1>4
  <2> QED
    BY <1>2, <2>1, <2>2, <2>3, TableKeeps
<1>10. Fresh'
  BY <1>2, NotInserted DEF Inserted
<1> QED
  BY <1>1, <1>2, <1>6, <1>7, <1>8, <1>9, <1>10, OneAgentStep

LEMMA SpawnClearsOrderly ==
  ASSUME SInv, Orderly, NEW c \in Commands, SpawnClears(c), ~overlap'
  PROVE  Orderly'
<1>0. PICK a : a = First(command[c].todo)
  OBVIOUS
<1>1. /\ At(c, "spawn", "clearing") /\ command[c].todo # {} /\ UNCHANGED <<harness, results>>
      /\ command[c] \in CommandRec /\ SDK' = SDK
  BY DEF SpawnClears, SInv, Typed, SDK
<1>2. a \in command[c].todo /\ a \in Agents /\ Local(a) /\ Aimed(c, a) /\ Clearing(c) /\ Busy(c)
  <2>1. command[c].todo \in SUBSET Nat /\ command[c].todo \in SUBSET Agents
    BY <1>1 DEF CommandRec, Agents
  <2> QED
    BY <1>0, <1>1, <2>1, FirstIn DEF Orderly, Aimed, At, Clearing, Busy
<1>3. LiveProc(a) \in {0} \cup Tasks
  BY <1>2, LiveProcIn
<1>4. (agent[a].listed /\ Working(a)) \/ ~(agent[a].listed /\ Working(a))
  OBVIOUS
<1>5. \A d \in Commands : d # c => ~Busy(d)
  BY <1>2 DEF Orderly, Serial
<1>6. CASE agent[a].listed /\ Working(a)
  <2> DEFINE com == [command[c] EXCEPT !.pc = "stopping", !.proc = LiveProc(a)]
  <2>1. /\ com.op = "spawn" /\ com.pc = "stopping" /\ com.todo = command[c].todo /\ com.of = command[c].of
    BY <1>1 DEF CommandRec, At
  <2>2. command' = [command EXCEPT ![c] = com] /\ agent' = [agent EXCEPT ![a].status = "paused"] /\ Interrupt(a)
    BY <1>0, <1>6 DEF SpawnClears, InterruptFails, SInv, Typed
  <2> HIDE DEF com
  <2>3. command'[c] = com /\ Moving(c)
    <3>1. command'[c] = com /\ \A d \in Commands \ {c} : command'[d] = command[d]
      BY <2>2 DEF SInv, Typed
    <3> QED
      BY <1>2, <3>1, CommandMoves
  <2>4. a = First(com.todo)
    BY <1>0, <2>1
  <2>5. TasksSteady /\ Quiet(a) /\ \A b \in Agents \ {a} : TasksSame(b) /\ work'[b] = work[b]
    BY <1>1, <1>2, <2>2, InterruptQuiets
  <2>6. /\ \A b \in Agents : /\ agent'[b].listed = agent[b].listed /\ agent'[b].client = agent[b].client
                             /\ agent'[b].exit = agent[b].exit /\ agent'[b].proc = agent[b].proc
                             /\ b # a => agent'[b].status = agent[b].status
        /\ agent'[a].status = "paused"
    BY <1>2, <2>2 DEF SInv, Typed, AgentRec
  <2>7. \A b \in Agents, d \in Commands : /\ Aimed(d, b)' => Aimed(d, b)
                                          /\ command'[d].pc # "hinting"
                                          /\ Cleared(d, b)' \/ Halted(d, b)' => b = a
    <3>1. \A b \in Agents : /\ Aimed(c, b)' => Aimed(c, b)
                            /\ command'[c].pc # "hinting"
                            /\ Cleared(c, b)' \/ Halted(c, b)' => b = a
      BY <1>1, <2>1, <2>3, <2>4 DEF Aimed, Halting, Cleared, Halted, At
    <3>2. \A d \in Commands \ {c} : command'[d].pc = "over"
      BY <2>3, MovingOthers DEF Busy
    <3> QED
      BY <2>3, <3>1, <3>2, MovingOthers
  <2>8. Aims(a)'
    <3>1. Steady(a)
      BY <2>5, SteadyIf
    <3>2. \A t \in Tasks : task[t].of = a => ~Live(t)'
      BY <2>5 DEF Quiet
    <3> QED
      BY <1>1, <1>2, <2>6, <2>7, <3>1, <3>2, AimsKept DEF Local
  <2>9. Local(a)'
    <3>1. \A d \in Commands : command[d].op = "kill" => ~Busy(d)
      BY <1>1, <1>5 DEF At
    <3> QED
      BY <1>1, <1>2, <2>5, <2>6, <2>8, <3>1, QuietKeeps
  <2>10. \A b \in Agents \ {a} : AgentSame(b) /\ TasksSame(b)
    BY <1>1, <2>5, <2>6 DEF AgentSame
  <2>11. \A b \in Agents \ {a} : CommandsSame(b)
    BY <1>1, <2>3, <2>7 DEF CommandsSame, Moving, At
  <2>12. Table'
    <3>1. Clearing(c)' => \A b \in Agents : agent'[b].listed => b \in command'[c].todo
      BY <1>2, <2>1, <2>3, <2>6 DEF Orderly, Table
    <3>2. command'[c].op \notin {"kill", "hint"}
      BY <2>1, <2>3
    <3> QED
      BY <2>3, <2>6, <3>1, <3>2, TableKeeps
  <2>13. Fresh'
    BY <2>1, <2>3, NotInserted DEF Inserted
  <2> QED
    BY <1>1, <1>2, <2>3, <2>9, <2>10, <2>11, <2>12, <2>13, OneAgentStep
<1>7. CASE ~(agent[a].listed /\ Working(a))
  <2> DEFINE com == [command[c] EXCEPT !.todo = @ \ {a}]
  <2>1. /\ com \in CommandRec /\ com.op = "spawn" /\ com.pc = "clearing" /\ com.of = command[c].of
        /\ com.todo = command[c].todo \ {a}
    BY <1>1 DEF CommandRec, At
  <2>2. command' = [command EXCEPT ![c] = com] /\ agent' = Popped(a) /\ UNCHANGED <<task, work>>
    BY <1>0, <1>7 DEF SpawnClears, SInv, Typed
  <2> HIDE DEF com
  <2>3. ~(agent[a].listed /\ agent[a].status = "running")
    BY <1>7 DEF Working
  <2>4. ASSUME NEW t \in Tasks, SDK, task[t].of = a, Runner(t), task[t].pc = "turn"
        PROVE  Interrupted(work[a])
    BY <1>2, <2>3, <2>4 DEF Local, SdkAgent, RunnerFits
  <2>5. ASSUME NEW t \in Tasks, task[t].of = a, Live(t)
        PROVE  FALSE
    <3>1. ~SDK
      BY <2>5 DEF SInv, Modes, Live
    <3>2. Dying(t) /\ agent[a].listed
      BY <1>2, <2>3, <2>5, <3>1 DEF Local, CliAgent, ProcFits
    <3> QED
      BY <1>1, <1>5, <3>2 DEF Dying, Kills, Busy, At
  <2> QED
    BY <1>1, <1>2, <2>1, <2>2, <2>4, <2>5, PopOrderly
<1> QED
  BY <1>4, <1>6, <1>7

LEMMA SpawnStoppedOrderly ==
  ASSUME SInv, Orderly, NEW c \in Commands, SpawnStopped(c)
  PROVE  Orderly'
<1> DEFINE a == First(command[c].todo)
           com == [command[c] EXCEPT !.pc = "clearing", !.todo = @ \ {a}, !.proc = 0]
<1>1. /\ At(c, "spawn", "stopping") /\ UNCHANGED <<harness, results, task, work>> /\ agent' = Popped(a)
      /\ command[c] \in CommandRec
  BY DEF SpawnStopped, SInv, Typed
<1>2. command[c].todo # {} /\ command[c].todo \in SUBSET Nat /\ command[c].todo \in SUBSET Agents
  BY <1>1 DEF SInv, SpawnsOwn, Sound, At, CommandRec, Agents
<1>3. a \in command[c].todo /\ a \in Agents /\ Local(a) /\ Halting(c, a) /\ Clearing(c)
  BY <1>1, <1>2, FirstIn DEF Orderly, Halting, At, Clearing
<1>4. /\ com \in CommandRec /\ com.op = "spawn" /\ com.pc = "clearing" /\ com.of = command[c].of
      /\ com.todo = command[c].todo \ {a} /\ command' = [command EXCEPT ![c] = com]
  BY <1>1 DEF SpawnStopped, SInv, Typed, CommandRec, At
<1> HIDE DEF a, com
<1>5. ASSUME NEW t \in Tasks, SDK, task[t].of = a, Runner(t), task[t].pc = "turn"
      PROVE  Interrupted(work[a])
  <2>1. agent[a].status # "running"
    BY <1>3, <1>5 DEF Local, Aims, Aim, Halted
  <2> QED
    BY <1>3, <1>5, <2>1 DEF Local, SdkAgent, RunnerFits
<1>6. \A t \in Tasks : task[t].of = a => ~Live(t)
  BY <1>3 DEF Local, Aims, Aim, Cleared
<1> QED
  BY <1>1, <1>3, <1>4, <1>5, <1>6, PopOrderly

LEMMA SpawnInsertsOrderly ==
  ASSUME SInv, Orderly, NEW c \in Commands, SpawnInserts(c)
  PROVE  Orderly'
<1>1. PICK n \in Nat : Made = 1..n
  BY DEF SInv, Blank
<1>2. PICK a \in Nat : a = Cardinality(Made) + 1 /\ a \notin Made
  <2>1. Cardinality(Made) = n
    BY <1>1, FS_Interval
  <2> QED
    BY <1>1, <2>1
<1> DEFINE A == [NoAgent EXCEPT !.status = "starting", !.listed = TRUE]
           com == [command[c] EXCEPT !.pc = "inserted", !.of = a]
<1>3. /\ command[c].op = "spawn" /\ command[c].pc = "clearing" /\ command[c].todo = {} /\ a \in Agents
      /\ UNCHANGED <<harness, task, work, results>> /\ SDK' = SDK
      /\ agent' = [agent EXCEPT ![a] = A]
  BY <1>2 DEF SpawnInserts, At, SDK
<1>4. A.client = "none" /\ A.listed /\ A.status = "starting"
  BY DEF NoAgent
<1>5. com.op = "spawn" /\ com.pc = "inserted" /\ com.of = a /\ com.todo = {}
  BY <1>3 DEF SInv, Typed, CommandRec
<1>6. command' = [command EXCEPT ![c] = com]
  BY <1>2 DEF SpawnInserts, SInv, Typed
<1> HIDE DEF A, com
<1>7. /\ \A b \in Agents : agent'[b] = IF b = a THEN A ELSE agent[b]
      /\ \A d \in Commands : command'[d] = IF d = c THEN com ELSE command[d]
      /\ work[a] = <<>> /\ results[a] = <<>>
  BY <1>2, <1>3, <1>6 DEF SInv, Typed, Blank
<1>8. \A t \in Tasks : task[t].of # a
  <2>1. \A t \in Tasks : task[t].pc = "none" => task[t].of = 0
    BY DEF SInv, Blank, NoTask
  <2> QED
    BY <1>2, <1>3, <2>1 DEF SInv, Blank, Agents
<1>9. Moving(c) /\ command'[c] = com
  BY <1>3, <1>7, CommandMoves DEF Busy
<1>10. ~Clearing(c)' /\ ~Aimed(c, a)' /\ \A b \in Agents : ~Aimed(c, b)' /\ ~Cleared(c, b)' /\ ~Halted(c, b)'
  BY <1>5, <1>9 DEF Clearing, Aimed, Cleared, Halted, Halting
<1>11. Local(a)'
  <2>1. \A t \in Tasks : task'[t].of # a
    BY <1>3, <1>8
  <2>2. Aims(a)' /\ Alone(a)' /\ Begins(a)'
    BY <2>1 DEF Aims, Alone, Begins
  <2>3. agent'[a].client = "none"
    BY <1>3, <1>4, <1>7
  <2>4. SdkAgent(a)' /\ CliAgent(a)'
    BY <2>1, <2>3 DEF SdkAgent, CliAgent
  <2> QED
    BY <2>2, <2>4 DEF Local
<1>12. \A b \in Agents \ {a} : AgentSame(b) /\ TasksSame(b)
  BY <1>3, <1>7 DEF AgentSame, TasksSame
<1>13. \A b \in Agents \ {a} : CommandsSame(b)
  BY <1>3, <1>7, <1>10 DEF CommandsSame
<1>14. Table'
  <2>1. \A b \in Agents : agent'[b].listed => b = a
    BY <1>3, <1>7 DEF Orderly, Table, Clearing
  <2>2. \A d \in Commands : ~Clearing(d)'
    BY <1>9, <1>10, MovingOthers
  <2>3. \A b \in Agents : agent'[b].client # "none" /\ ~agent'[b].listed => agent'[b].exit
    BY <1>4, <1>7 DEF Orderly, Table
  <2>4. \A d \in Commands : command'[d].op = "kill" => agent'[command'[d].of].exit
    <3>1. \A d \in Commands : command[d].op = "kill" =>
            /\ command[d].of \in Agents /\ command[d].of # a /\ agent[command[d].of].exit
      BY <1>2 DEF SInv, SpawnsOwn, Sound, Made, Orderly, Table
    <3> QED
      BY <1>5, <1>7, <3>1
  <2>5. \A d \in Commands : Busy(d)' /\ command'[d].op = "hint" => agent'[command'[d].of].listed
    BY <1>5, <1>9, MovingOthers
  <2> QED
    BY <2>1, <2>2, <2>3, <2>4, <2>5 DEF Table
<1>15. Fresh'
  <2>1. \A d \in Commands : Inserted(d)' => d = c
    BY <1>9, MovingOthers
  <2>2. command'[c].of = a /\ agent'[a].listed /\ work'[a] = <<>> /\ results'[a] = <<>>
    BY <1>3, <1>4, <1>5, <1>7, <1>9
  <2> QED
    BY <1>3, <1>8, <2>1, <2>2 DEF Fresh
<1> QED
  BY <1>3, <1>9, <1>11, <1>12, <1>13, <1>14, <1>15, OneAgentStep

LEMMA SpawnStartsOrderly ==
  ASSUME SInv, Orderly, NEW c \in Commands, SpawnStarts(c)
  PROVE  Orderly'
<1>1. PICK a : a = command[c].of
  OBVIOUS
<1>2. /\ command[c].op = "spawn" /\ Inserted(c) /\ Busy(c) /\ Unused # {} /\ SDK' = SDK
      /\ task' = Created(task, a, "runner") /\ agent' = [agent EXCEPT ![a].task = NextTask]
      /\ Ends(c) /\ UNCHANGED <<harness, work, results>>
  BY <1>1 DEF SpawnStarts, At, Inserted, Busy, SDK
<1>3. a \in Agents /\ Local(a) /\ agent[a] \in AgentRec
  BY <1>1, <1>2 DEF SInv, SpawnsOwn, Made, Typed, Orderly
<1>4. agent[a].listed /\ Idle(a) /\ \A t \in Tasks : task[t].of # a
  BY <1>1, <1>2 DEF Orderly, Fresh, Idle
<1>5. PICK n \in Tasks : n = NextTask /\ task[n].pc = "none"
  BY <1>2, NextTaskUnused
<1>6. PICK N \in TaskRec :
        /\ task' = [task EXCEPT ![n] = N]
        /\ N.of = a /\ N.kind = "runner" /\ N.pc = "new" /\ N.cancel = "no" /\ N.proc = "none"
  BY <1>2, <1>3, <1>5, CreatedFacts
<1>7. task'[n] = N /\ \A u \in Tasks : u # n => task'[u] = task[u]
  BY <1>6 DEF SInv, Typed
<1>8. \A b \in Agents : /\ b # a => agent'[b] = agent[b]
                        /\ agent'[b].listed = agent[b].listed /\ agent'[b].exit = agent[b].exit
                        /\ agent'[b].client = agent[b].client
  BY <1>2, <1>3 DEF SInv, Typed, AgentRec
<1>9. command'[c].pc = "over" /\ command'[c].op = "over" /\ Moving(c)
  <2>1. command'[c].pc = "over" /\ command'[c].op = "over" /\ \A d \in Commands \ {c} : command'[d] = command[d]
    BY <1>2 DEF Ends, SInv, Typed, NoCommand
  <2> QED
    BY <1>2, <2>1, CommandMoves
<1>10. \A b \in Agents, d \in Commands : ~Aimed(d, b)' /\ ~Cleared(d, b)' /\ ~Halted(d, b)'
  <2>1. \A b \in Agents : ~Aimed(c, b)' /\ ~Cleared(c, b)' /\ ~Halted(c, b)'
    BY <1>9 DEF Aimed, Halting, Cleared, Halted
  <2> QED
    BY <1>9, <2>1, MovingOthers
<1>11. Local(a)'
  <2>1. Idle(a)'
    BY <1>2, <1>4 DEF Idle
  <2> QED
    BY <1>2, <1>3, <1>4, <1>6, <1>7, <1>8, <1>10, <2>1, CreationOrderly
<1>12. \A b \in Agents \ {a} : AgentSame(b) /\ TasksSame(b)
  <2>1. task[n].of = 0
    BY <1>5 DEF SInv, Blank, NoTask
  <2>2. \A b \in Agents \ {a} : AgentSame(b)
    BY <1>2, <1>8 DEF AgentSame
  <2>3. \A b \in Agents \ {a} : TasksSame(b)
    BY <1>6, <1>7, <2>1 DEF TasksSame, Agents
  <2> QED
    BY <2>2, <2>3
<1>13. \A b \in Agents \ {a} : CommandsSame(b)
  BY <1>2, <1>9, <1>10 DEF CommandsSame, Moving
<1>14. Table'
  <2>1. ~Clearing(c)'
    BY <1>9 DEF Clearing
  <2> QED
    BY <1>8, <1>9, <2>1, TableKeeps
<1>15. Fresh'
  BY <1>9, NotInserted DEF Inserted
<1> QED
  BY <1>2, <1>3, <1>9, <1>11, <1>12, <1>13, <1>14, <1>15, OneAgentStep

(* inject_hint goes on: no turn of its agent is at work or evaluated.       *)
LEMMA HintInterruptsOrderly ==
  ASSUME SInv, Orderly, NEW c \in Commands, HintInterrupts(c), ~overlap'
  PROVE  Orderly'
<1>1. PICK a : a = command[c].of
  OBVIOUS
<1>2. /\ command[c].op = "hint" /\ command[c].pc = "sent" /\ Busy(c) /\ UNCHANGED <<harness, results>>
      /\ SDK' = SDK /\ ~AtWork(a) /\ ~Judging(a) /\ command[c] \in CommandRec
  BY <1>1 DEF HintInterrupts, At, Busy, SDK, SInv, Typed
<1>3. a \in Agents /\ Local(a) /\ Aimed(c, a)
  BY <1>1, <1>2, WorksOn DEF Orderly, Aimed
<1>4. CASE Ends(c) /\ UNCHANGED <<agent, task, work>>
  BY <1>2, <1>4, EndsOrderly DEF AgentSame
<1>5. CASE /\ command' = [command EXCEPT ![c].pc = "hinting", ![c].proc = LiveProc(a)]
           /\ agent' = [agent EXCEPT ![a].hinted = TRUE]
           /\ Interrupt(a) \/ UNCHANGED <<task, work>>
  <2>1. /\ command'[c].pc = "hinting" /\ command'[c].op = "hint" /\ command'[c].of = a
        /\ command'[c].todo = command[c].todo /\ Moving(c)
    <3>1. /\ command'[c].pc = "hinting" /\ command'[c].op = "hint" /\ command'[c].of = a
          /\ command'[c].todo = command[c].todo /\ \A d \in Commands \ {c} : command'[d] = command[d]
      BY <1>1, <1>2, <1>5 DEF SInv, Typed, CommandRec
    <3> QED
      BY <1>2, <3>1, CommandMoves
  <2>2. \A b \in Agents : /\ agent'[b].listed = agent[b].listed /\ agent'[b].client = agent[b].client
                          /\ agent'[b].exit = agent[b].exit /\ agent'[b].proc = agent[b].proc
                          /\ agent'[b].status = agent[b].status
    BY <1>3, <1>5 DEF SInv, Typed, AgentRec
  <2>3. \A t \in Tasks : task[t].of = a => task[t].pc \notin {"telling", "turn", "judge"}
    BY <1>2 DEF AtWork, Judging, TasksOf, Alive
  <2>4. \A d \in Commands : d # c => ~Busy(d)
    BY <1>2 DEF Orderly, Serial
  <2>5. \A t \in Tasks : task[t].of = a => ~Live(t)
    <3> SUFFICES ASSUME NEW t \in Tasks, task[t].of = a, Live(t)
                 PROVE  FALSE
      OBVIOUS
    <3>1. ~SDK
      BY DEF SInv, Modes, Live
    <3>2. Dying(t)
      BY <1>3, <2>3, <3>1 DEF Local, CliAgent, ProcFits
    <3> QED
      BY <1>2, <2>4, <3>2 DEF Dying, Kills, Busy
  <2>6. TasksSteady /\ Quiet(a) /\ \A b \in Agents \ {a} : TasksSame(b) /\ work'[b] = work[b]
    <3>1. CASE Interrupt(a)
      BY <1>2, <1>3, <3>1, InterruptQuiets
    <3>2. CASE UNCHANGED <<task, work>>
      <4>1. TasksSteady /\ \A b \in Agents \ {a} : TasksSame(b) /\ work'[b] = work[b]
        BY <3>2 DEF TasksSteady, TasksSame
      <4>2. Quiet(a)
        BY <1>2, <1>3, <2>3, <2>5, <3>2 DEF Quiet, SInv, Typed, Live
      <4> QED
        BY <4>1, <4>2
    <3> QED
      BY <1>5, <3>1, <3>2
  <2>7. \A b \in Agents, d \in Commands : /\ Aimed(d, b)' => Aimed(d, b)
                                          /\ command'[d].pc = "hinting" => d = c
                                          /\ (Cleared(d, b)' => b = a) /\ ~Halted(d, b)'
    <3>1. \A b \in Agents : /\ Aimed(c, b)' => Aimed(c, b)
                            /\ (Cleared(c, b)' => b = a) /\ ~Halted(c, b)'
      BY <1>1, <1>2, <2>1 DEF Aimed, Halting, Cleared, Halted
    <3>2. \A d \in Commands \ {c} : command'[d].pc = "over"
      BY <2>1, MovingOthers DEF Busy
    <3> QED
      BY <2>1, <3>1, <3>2, MovingOthers
  <2>8. Aims(a)'
    <3>1. Steady(a) /\ \A t \in Tasks : task[t].of = a => ~Live(t)'
      BY <2>6, SteadyIf DEF Quiet
    <3> QED
      BY <1>2, <1>3, <2>3, <2>7, <3>1, AimsKept DEF Local
  <2>9. Local(a)'
    <3>1. \A d \in Commands : command[d].op = "kill" => ~Busy(d)
      BY <1>2, <2>4
    <3> QED
      BY <1>2, <1>3, <2>2, <2>6, <2>8, <3>1, QuietKeeps
  <2>10. \A b \in Agents \ {a} : AgentSame(b) /\ TasksSame(b)
    BY <1>2, <2>2, <2>6 DEF AgentSame
  <2>11. \A b \in Agents \ {a} : CommandsSame(b)
    BY <1>2, <2>1, <2>7 DEF CommandsSame, Moving
  <2>12. Table'
    <3>1. ~Clearing(c)'
      BY <2>1 DEF Clearing
    <3>2. agent'[command'[c].of].listed
      BY <1>1, <1>2, <1>3, <2>1, <2>2 DEF Orderly, Table
    <3> QED
      BY <2>1, <2>2, <3>1, <3>2, TableKeeps
  <2>13. Fresh'
    BY <2>1, NotInserted DEF Inserted
  <2> QED
    BY <1>2, <1>3, <2>1, <2>9, <2>10, <2>11, <2>12, <2>13, OneAgentStep
<1>6. CASE Ends(c) /\ agent' = [agent EXCEPT ![a].hinted = TRUE] /\ Interrupt(a)
  <2>1. command'[c].pc = "over" /\ command'[c].op = "over" /\ Moving(c)
    <3>1. command'[c].pc = "over" /\ command'[c].op = "over" /\ \A d \in Commands \ {c} : command'[d] = command[d]
      BY <1>6 DEF Ends, SInv, Typed, NoCommand
    <3> QED
      BY <1>2, <3>1, CommandMoves
  <2>2. \A b \in Agents : /\ agent'[b].listed = agent[b].listed /\ agent'[b].client = agent[b].client
                          /\ agent'[b].exit = agent[b].exit /\ agent'[b].proc = agent[b].proc
                          /\ agent'[b].status = agent[b].status
    BY <1>3, <1>6 DEF SInv, Typed, AgentRec
  <2>3. \A b \in Agents, d \in Commands : ~Aimed(d, b)' /\ ~Halting(d, b)' /\ ~Cleared(d, b)' /\ ~Halted(d, b)'
    <3>1. \A b \in Agents : ~Aimed(c, b)' /\ ~Halting(c, b)' /\ ~Cleared(c, b)' /\ ~Halted(c, b)'
      BY <2>1 DEF Aimed, Halting, Cleared, Halted
    <3> QED
      BY <2>1, <3>1, MovingOthers
  <2>4. TasksSteady /\ Quiet(a) /\ \A b \in Agents \ {a} : TasksSame(b) /\ work'[b] = work[b]
    BY <1>2, <1>3, <1>6, InterruptQuiets
  <2>5. \A d \in Commands : command[d].op = "kill" => ~Busy(d)
    BY <1>2 DEF Orderly, Serial
  <2>6. Local(a)'
    BY <1>2, <1>3, <2>2, <2>3, <2>4, <2>5, Unaimed, QuietKeeps
  <2>7. \A b \in Agents \ {a} : AgentSame(b) /\ TasksSame(b)
    BY <1>2, <2>2, <2>4 DEF AgentSame
  <2>8. \A b \in Agents \ {a} : CommandsSame(b)
    BY <1>2, <2>1, <2>3 DEF CommandsSame, Moving
  <2>9. Table'
    <3>1. ~Clearing(c)' /\ ~Busy(c)'
      BY <2>1 DEF Clearing, Busy
    <3> QED
      BY <2>1, <2>2, <3>1, TableKeeps
  <2>10. Fresh'
    BY <2>1, NotInserted DEF Inserted
  <2> QED
    BY <1>2, <1>3, <2>1, <2>6, <2>7, <2>8, <2>9, <2>10, OneAgentStep
<1> QED
  BY <1>1, <1>4, <1>5, <1>6 DEF HintInterrupts

LEMMA HintStartsOrderly ==
  ASSUME SInv, Orderly, NEW c \in Commands, HintStarts(c)
  PROVE  Orderly'
<1>1. PICK a : a = command[c].of
  OBVIOUS
<1> DEFINE asked == ~SDK \/ agent[a].client = "open"
<1>2. /\ command[c].op = "hint" /\ command[c].pc = "hinting" /\ Busy(c) /\ Unused # {} /\ SDK' = SDK
      /\ work' = IF SDK /\ asked THEN [work EXCEPT ![a] = Append(@, FALSE)] ELSE work
      /\ task' = IF asked THEN Created(task, a, "hint") ELSE task
      /\ agent' = [agent EXCEPT ![a].status = "running", ![a].task = IF asked THEN NextTask ELSE @]
      /\ Ends(c) /\ UNCHANGED <<harness, results>>
  BY <1>1 DEF HintStarts, At, Busy, SDK
<1>3. a \in Agents /\ Local(a) /\ agent[a] \in AgentRec /\ Aimed(c, a) /\ Cleared(c, a) /\ agent[a].listed
  BY <1>1, <1>2, WorksOn DEF SInv, Typed, Orderly, Table, Aimed, Cleared
<1>4. \A t \in Tasks : task[t].of = a => ~Live(t) /\ (Main(t) => ~Engaged(t))
  BY <1>1, <1>2, <1>3 DEF Local, Aims, Aim, Engaged
<1>5. PICK n \in Tasks : n = NextTask /\ task[n].pc = "none"
  BY <1>2, NextTaskUnused
<1>6. PICK N \in TaskRec :
        /\ Created(task, a, "hint") = [task EXCEPT ![n] = N]
        /\ N.of = a /\ N.kind = "hint" /\ N.pc = "new" /\ N.cancel = "no" /\ N.proc = "none"
  BY <1>2, <1>3, <1>5, CreatedFacts
<1>7. /\ \A b \in Agents : /\ b # a => agent'[b] = agent[b] /\ work'[b] = work[b]
                           /\ agent'[b].listed = agent[b].listed /\ agent'[b].exit = agent[b].exit
                           /\ agent'[b].client = agent[b].client
      /\ agent'[a].proc = agent[a].proc
  <2>1. \A b \in Agents : b # a => work'[b] = work[b]
    BY <1>2 DEF SInv, Typed
  <2> HIDE DEF asked
  <2> QED
    BY <1>2, <1>3, <2>1 DEF SInv, Typed, AgentRec
<1>8. command'[c].pc = "over" /\ command'[c].op = "over" /\ Moving(c)
  <2>1. command'[c].pc = "over" /\ command'[c].op = "over" /\ \A d \in Commands \ {c} : command'[d] = command[d]
    BY <1>2 DEF Ends, SInv, Typed, NoCommand
  <2> QED
    BY <1>2, <2>1, CommandMoves
<1>9. \A b \in Agents, d \in Commands : ~Aimed(d, b)' /\ ~Halting(d, b)' /\ ~Cleared(d, b)' /\ ~Halted(d, b)'
  <2>1. \A b \in Agents : ~Aimed(c, b)' /\ ~Halting(c, b)' /\ ~Cleared(c, b)' /\ ~Halted(c, b)'
    BY <1>8 DEF Aimed, Halting, Cleared, Halted
  <2> QED
    BY <1>8, <2>1, MovingOthers
<1>10. task[n].of = 0 /\ a # 0
  BY <1>3, <1>5 DEF SInv, Blank, NoTask, Agents
<1>11. \A u \in Tasks : task'[u] = task[u] \/ (u = n /\ asked /\ task'[u] = N)
  BY <1>2, <1>5, <1>6 DEF SInv, Typed
<1>12. Local(a)'
  <2>1. CASE asked
    <3>1. task'[n] = N /\ \A u \in Tasks \ {n} : task'[u] = task[u]
      BY <1>2, <1>6, <2>1 DEF SInv, Typed
    <3>2. ~Runner(n)' /\ (Main(n)' => ~SDK)
      BY <1>2, <1>6, <3>1 DEF Runner, Main
    <3>3. \A u \in Tasks : task[u].of = a /\ (Main(u) \/ Main(n)') => ~Engaged(u)
      BY <1>4, <3>2 DEF Main
    <3>4. \A u \in Tasks : task[u].of = a /\ Runner(u) => task'[u] = task[u]
      BY <1>10, <3>1
    <3> QED
      BY <1>2, <1>3, <1>6, <1>7, <1>9, <1>10, <3>1, <3>2, <3>3, <3>4, CreationOrderly
  <2>2. CASE ~asked
    <3>1. SDK /\ task' = task /\ work' = work
      BY <1>2, <2>2
    <3>2. Steady(a) /\ Aims(a)'
      BY <1>3, <1>9, <3>1, SteadyIf, Unaimed
    <3>3. \A t \in Tasks : task[t].of = a /\ Runner(t) => task[t].pc # "turn"
      BY <1>4 DEF Main, Engaged
    <3> QED
      BY <1>2, <1>3, <1>7, <3>1, <3>2, <3>3, SteadyKeeps
  <2> QED
    BY <2>1, <2>2
<1>13. \A b \in Agents \ {a} : AgentSame(b) /\ TasksSame(b)
  <2>1. \A b \in Agents \ {a} : AgentSame(b)
    BY <1>2, <1>7 DEF AgentSame
  <2>2. \A b \in Agents \ {a} : TasksSame(b)
    BY <1>6, <1>10, <1>11 DEF TasksSame, Agents
  <2> QED
    BY <2>1, <2>2
<1>14. \A b \in Agents \ {a} : CommandsSame(b)
  BY <1>2, <1>8, <1>9 DEF CommandsSame, Moving
<1>15. Table'
  <2>1. ~Clearing(c)'
    BY <1>8 DEF Clearing
  <2> QED
    BY <1>7, <1>8, <2>1, TableKeeps
<1>16. Fresh'
  BY <1>8, NotInserted DEF Inserted
<1> QED
  BY <1>2, <1>3, <1>8, <1>12, <1>13, <1>14, <1>15, <1>16, OneAgentStep

-----------------------------------------------------------------------------
(* kill_agent goes on from pc to com.pc; the agent keeps what it has.       *)
KillMoves(c, a, com) ==
  /\ command[c].op = "kill" /\ command[c].pc \in {"killing", "waiting", "cancelled"} /\ command[c].of = a
  /\ com.op = "kill" /\ com.pc \in {"waiting", "cancelled", "telling"} /\ com.of = a
  /\ com.todo = command[c].todo /\ command' = [command EXCEPT ![c] = com]
  /\ UNCHANGED <<harness, agent, work, results>>

LEMMA KillOrderly ==
  ASSUME SInv, Orderly, NEW c \in Commands, NEW a, NEW com \in CommandRec, KillMoves(c, a, com), Steady(a),
         \A b \in Agents \ {a} : TasksSame(b),
         com.pc = "telling" => \A t \in Tasks : task[t].of = a => ~Live(t)',
         ~SDK => \A t \in Tasks : task[t].of = a => ProcFits(t, a)'
  PROVE  Orderly'
<1>1. a \in Agents /\ Local(a) /\ SDK' = SDK /\ Busy(c) /\ Aimed(c, a) /\ Halted(c, a)
  <2>1. a \in Agents
    BY WorksOn DEF KillMoves
  <2> QED
    BY <2>1 DEF KillMoves, Orderly, SDK, Busy, Aimed, Halted
<1>2. command'[c] = com /\ Moving(c)
  <2>1. command'[c] = com /\ \A d \in Commands \ {c} : command'[d] = command[d]
    BY DEF KillMoves, SInv, Typed
  <2> QED
    BY <1>1, <2>1, CommandMoves
<1>3. \A b \in Agents, d \in Commands : /\ Aimed(d, b)' => Aimed(d, b)
                                        /\ command'[d].pc # "hinting"
                                        /\ Cleared(d, b)' => b = a /\ com.pc = "telling"
                                        /\ Halted(d, b)' => b = a /\ d = c
  <2>1. \A b \in Agents : /\ Aimed(c, b)' => Aimed(c, b)
                          /\ command'[c].pc # "hinting"
                          /\ Cleared(c, b)' => b = a /\ com.pc = "telling"
                          /\ Halted(c, b)' => b = a
    BY <1>2 DEF KillMoves, Aimed, Halting, Cleared, Halted, Busy
  <2>2. \A d \in Commands \ {c} : command'[d].pc = "over"
    BY <1>2, MovingOthers DEF Busy
  <2> QED
    BY <1>2, <2>1, <2>2, MovingOthers
<1>4. agent' = agent /\ work' = work /\ results' = results
  BY DEF KillMoves
<1>5. Aims(a)'
  BY <1>1, <1>3, <1>4, AimsKept DEF Local
<1>6. Local(a)'
  BY <1>1, <1>4, <1>5, SteadyKeeps
<1>7. \A b \in Agents \ {a} : AgentSame(b) /\ TasksSame(b)
  BY <1>4 DEF AgentSame
<1>8. \A b \in Agents \ {a} : CommandsSame(b)
  BY <1>2, <1>3 DEF CommandsSame, Moving, KillMoves
<1>9. Table'
  <2>1. ~Clearing(c)' /\ command'[c].op = "kill" /\ command'[c].of = a
    BY <1>2 DEF Clearing, KillMoves
  <2>2. agent[a].exit
    BY DEF KillMoves, Orderly, Table
  <2> QED
    BY <1>2, <1>4, <2>1, <2>2, TableKeeps
<1>10. Fresh'
  BY <1>2, NotInserted DEF Inserted, KillMoves
<1> QED
  BY <1>1, <1>2, <1>6, <1>7, <1>8, <1>9, <1>10, OneAgentStep

(* No task was cancelled before its turn if the kill does not wait for it.  *)
LEMMA KillWaitsFor ==
  ASSUME SInv, Orderly, ~SDK, NEW c \in Commands, Busy(c), NEW a \in Agents, NEW t \in Tasks, task[t].of = a,
         command[c].pc # "waiting" \/ command[c].task # t
  PROVE  ~(task[t].pc \in {"new", "launch", "telling"} /\ task[t].cancel # "no")
<1>1. \A d \in Commands : Busy(d) => d = c
  BY DEF Orderly, Serial
<1> QED
  BY <1>1, NotCancelled DEF Orderly, Busy

LEMMA KillCancelsOrderly ==
  ASSUME SInv, Orderly, NEW c \in Commands, KillCancels(c)
  PROVE  Orderly'
<1>1. PICK a : a = command[c].of
  OBVIOUS
<1>2. PICK x : x = agent[a].task
  OBVIOUS
<1>3. /\ command[c].op = "kill" /\ command[c].pc = "killing" /\ Busy(c) /\ command[c] \in CommandRec
      /\ UNCHANGED <<harness, agent, work, results>>
  BY DEF KillCancels, At, Busy, SInv, Typed
<1>4. a \in Agents /\ Local(a) /\ agent[a].task \in {0} \cup Tasks
  BY <1>1, <1>3, WorksOn DEF Orderly, SInv, Typed, AgentRec
<1>5. CASE /\ x # 0 /\ Alive(x) /\ command' = [command EXCEPT ![c].pc = "waiting", ![c].task = x]
           /\ task' = [task EXCEPT ![x].cancel = IF task[x].pc = "reaping" THEN "again"
                                                 ELSE IF @ = "no" THEN "kill" ELSE @]
  <2>1. x \in Tasks /\ task[x].of = a
    BY <1>2, <1>4, <1>5 DEF SInv, ProcKnown
  <2> DEFINE com == [command[c] EXCEPT !.pc = "waiting", !.task = x]
  <2>2. /\ com \in CommandRec /\ com.op = "kill" /\ com.pc = "waiting" /\ com.of = a /\ com.task = x
        /\ com.todo = command[c].todo
    BY <1>1, <1>3, <2>1 DEF CommandRec
  <2>3. command' = [command EXCEPT ![c] = com]
    BY <1>5 DEF SInv, Typed
  <2> HIDE DEF com
  <2>4. command'[c] = com
    BY <2>3 DEF SInv, Typed
  <2>5. \A t \in Tasks : /\ t # x => task'[t] = task[t]
                         /\ task'[t].of = task[t].of /\ task'[t].kind = task[t].kind
                         /\ task'[t].pc = task[t].pc /\ task'[t].proc = task[t].proc
    BY <1>5, <2>1 DEF SInv, Typed, TaskRec
  <2>6. Steady(a) /\ \A b \in Agents \ {a} : TasksSame(b)
    BY <2>1, <2>5 DEF Steady, Live, TasksSame
  <2>7. ASSUME ~SDK, NEW t \in Tasks, task[t].of = a
        PROVE  ProcFits(t, a)'
    <3>1. ProcFits(t, a)
      BY <1>4, <2>7 DEF Local, CliAgent
    <3>2. Live(t)' <=> Live(t)
      BY <2>5 DEF Live
    <3>3. Dying(t)'
      BY <2>2, <2>4, <2>5, <2>7 DEF Dying, Kills
    <3>4. task'[t].pc \in {"new", "launch", "telling"} /\ task'[t].cancel # "no" =>
            \E d \in Commands : Kills(d, t, {"waiting"})' /\ command'[d].task = t
      <4>1. CASE t = x
        BY <2>2, <2>4, <2>5, <2>7, <4>1 DEF Kills
      <4>2. CASE t # x
        BY <1>3, <1>4, <2>5, <2>7, <4>2, KillWaitsFor
      <4> QED
        BY <4>1, <4>2
    <3> QED
      BY <1>3, <3>1, <3>2, <3>3, <3>4 DEF ProcFits
  <2>8. KillMoves(c, a, com)
    BY <1>1, <1>3, <2>2, <2>3 DEF KillMoves
  <2> QED
    BY <2>2, <2>6, <2>7, <2>8, KillOrderly
<1>6. CASE Goes(c, "cancelled") /\ UNCHANGED task
  <2> DEFINE com == [command[c] EXCEPT !.pc = "cancelled"]
  <2>1. /\ com \in CommandRec /\ com.op = "kill" /\ com.pc = "cancelled" /\ com.of = a
        /\ com.todo = command[c].todo
    BY <1>1, <1>3 DEF CommandRec
  <2>2. command' = [command EXCEPT ![c] = com] /\ command'[c] = com
    BY <1>6 DEF Goes, SInv, Typed
  <2> HIDE DEF com
  <2>3. Steady(a) /\ \A b \in Agents \ {a} : TasksSame(b)
    BY <1>6, SteadyIf DEF TasksSame
  <2>4. ASSUME ~SDK, NEW t \in Tasks, task[t].of = a
        PROVE  ProcFits(t, a)'
    <3>1. ProcFits(t, a) /\ ~(task[t].pc \in {"new", "launch", "telling"} /\ task[t].cancel # "no")
      BY <1>3, <1>4, <2>4, KillWaitsFor DEF Local, CliAgent
    <3>2. Dying(t)'
      BY <1>6, <2>1, <2>2, <2>4 DEF Dying, Kills
    <3> QED
      BY <1>3, <1>6, <3>1, <3>2 DEF ProcFits, Live
  <2>5. KillMoves(c, a, com)
    BY <1>1, <1>3, <2>1, <2>2 DEF KillMoves
  <2> QED
    BY <2>1, <2>3, <2>4, <2>5, KillOrderly
<1> QED
  BY <1>1, <1>2, <1>5, <1>6 DEF KillCancels

LEMMA KillWaitedOrderly ==
  ASSUME SInv, Orderly, NEW c \in Commands, KillWaited(c)
  PROVE  Orderly'
<1>1. PICK a : a = command[c].of
  OBVIOUS
<1>2. /\ command[c].op = "kill" /\ command[c].pc = "waiting" /\ Busy(c) /\ command[c] \in CommandRec
      /\ ~Alive(command[c].task) /\ UNCHANGED <<harness, agent, task, work, results>>
  BY DEF KillWaited, At, Busy, SInv, Typed
<1>3. a \in Agents /\ Local(a)
  BY <1>1, <1>2, WorksOn DEF Orderly
<1> DEFINE com == [command[c] EXCEPT !.pc = "cancelled"]
<1>4. /\ com \in CommandRec /\ com.op = "kill" /\ com.pc = "cancelled" /\ com.of = a
      /\ com.todo = command[c].todo
  BY <1>1, <1>2 DEF CommandRec
<1>5. command' = [command EXCEPT ![c] = com] /\ command'[c] = com
  BY DEF KillWaited, Goes, SInv, Typed
<1> HIDE DEF com
<1>6. Steady(a) /\ \A b \in Agents \ {a} : TasksSame(b)
  BY <1>2, SteadyIf DEF TasksSame
<1>7. ASSUME ~SDK, NEW t \in Tasks, task[t].of = a
      PROVE  ProcFits(t, a)'
  <2>1. ProcFits(t, a)
    BY <1>3, <1>7 DEF Local, CliAgent
  <2>2. ~(task[t].pc \in {"new", "launch", "telling"} /\ task[t].cancel # "no")
    <3>1. CASE command[c].task = t
      BY <1>2, <3>1 DEF Alive
    <3>2. CASE command[c].task # t
      BY <1>2, <1>3, <1>7, <3>2, KillWaitsFor
    <3> QED
      BY <3>1, <3>2
  <2>3. Dying(t)'
    BY <1>2, <1>4, <1>5, <1>7 DEF Dying, Kills
  <2> QED
    BY <1>2, <2>1, <2>2, <2>3 DEF ProcFits, Live
<1>8. KillMoves(c, a, com)
  BY <1>1, <1>2, <1>4, <1>5 DEF KillMoves
<1> QED
  BY <1>4, <1>6, <1>7, <1>8, KillOrderly

LEMMA KillSignalsOrderly ==
  ASSUME SInv, Orderly, NEW c \in Commands, KillSignals(c)
  PROVE  Orderly'
<1>1. PICK a : a = command[c].of
  OBVIOUS
<1>2. /\ command[c].op = "kill" /\ command[c].pc = "cancelled" /\ Busy(c) /\ command[c] \in CommandRec
      /\ UNCHANGED <<harness, agent, work, results>>
  BY DEF KillSignals, At, Busy, SInv, Typed
<1>3. a \in Agents /\ Local(a)
  BY <1>1, <1>2, WorksOn DEF Orderly
<1>4. PICK p : p = LiveProc(a)
  OBVIOUS
<1>5. /\ p \in {0} \cup Tasks /\ (p # 0 => p = agent[a].proc /\ task[p].of = a)
      /\ task' = IF p = 0 THEN task ELSE Signalled(task, p)
  <2>1. p # 0 => task[p].of = a
    BY <1>3, <1>4, LiveProcIn DEF SInv, ProcKnown
  <2> QED
    BY <1>1, <1>3, <1>4, <2>1, LiveProcIn DEF KillSignals
<1>6. \A t \in Tasks : /\ t # p => task'[t] = task[t]
                       /\ task'[t].of = task[t].of /\ task'[t].kind = task[t].kind
                       /\ task'[t].pc = task[t].pc /\ task'[t].cancel = task[t].cancel
                       /\ (Live(t)' => Live(t) /\ t # p)
  <2>1. CASE p = 0
    BY <1>5, <2>1 DEF Live, Tasks
  <2>2. CASE p \in Tasks
    <3>1. PICK R : R = [task[p] EXCEPT !.proc = IF @ = "live" THEN "signalled" ELSE @]
      OBVIOUS
    <3>2. p # 0
      BY <2>2 DEF Tasks
    <3>3. task' = [task EXCEPT ![p] = R]
      BY <1>5, <2>2, <3>1, <3>2 DEF Signalled, SInv, Typed
    <3>4. /\ R.of = task[p].of /\ R.kind = task[p].kind /\ R.pc = task[p].pc /\ R.cancel = task[p].cancel
          /\ R.proc # "live"
      BY <2>2, <3>1 DEF SInv, Typed, TaskRec
    <3>5. \A t \in Tasks : task'[t] = IF t = p THEN R ELSE task[t]
      BY <2>2, <3>3 DEF SInv, Typed
    <3> QED
      BY <3>4, <3>5 DEF Live
  <2> QED
    BY <1>5, <2>1, <2>2
<1>7. \A t \in Tasks : task[t].of = a => ~Live(t)'
  <2> SUFFICES ASSUME NEW t \in Tasks, task[t].of = a, Live(t)
               PROVE  t = p
    BY <1>6
  <2>1. ~SDK
    BY DEF SInv, Modes, Live
  <2>2. agent[a].proc = t /\ t # 0
    BY <1>3, <2>1 DEF Local, CliAgent, ProcFits, Tasks
  <2> QED
    BY <1>4, <2>2 DEF LiveProc, Live
<1> DEFINE com == [command[c] EXCEPT !.pc = "telling"]
<1>8. /\ com \in CommandRec /\ com.op = "kill" /\ com.pc = "telling" /\ com.of = a
      /\ com.todo = command[c].todo
  BY <1>1, <1>2 DEF CommandRec
<1>9. command' = [command EXCEPT ![c] = com] /\ command'[c] = com
  BY DEF KillSignals, Goes, SInv, Typed
<1> HIDE DEF com
<1>10. Steady(a) /\ \A b \in Agents \ {a} : TasksSame(b)
  <2>1. \A t \in Tasks : task[t].of # a => t # p
    BY <1>5, <1>6 DEF Tasks
  <2> QED
    BY <1>6, <2>1 DEF Steady, TasksSame
<1>11. ASSUME ~SDK, NEW t \in Tasks, task[t].of = a
       PROVE  ProcFits(t, a)'
  <2>1. ~(task[t].pc \in {"new", "launch", "telling"} /\ task[t].cancel # "no")
    BY <1>2, <1>3, <1>11, KillWaitsFor
  <2> QED
    BY <1>6, <1>7, <1>11, <2>1 DEF ProcFits
<1>12. KillMoves(c, a, com)
  BY <1>1, <1>2, <1>8, <1>9 DEF KillMoves
<1> QED
  BY <1>7, <1>8, <1>10, <1>11, <1>12, KillOrderly

LEMMA KillPopsOrderly ==
  ASSUME SInv, Orderly, NEW c \in Commands, KillPops(c)
  PROVE  Orderly'
<1>1. PICK a : a = command[c].of
  OBVIOUS
<1>2. /\ command[c].op = "kill" /\ command[c].pc = "telling" /\ Busy(c) /\ SDK' = SDK
      /\ agent' = [agent EXCEPT ![a].listed = FALSE]
      /\ Ends(c) /\ UNCHANGED <<harness, task, work, results>>
  BY <1>1 DEF KillPops, At, Busy, SDK
<1>3. /\ a \in Agents /\ Local(a) /\ Aimed(c, a) /\ Cleared(c, a) /\ Halted(c, a)
      /\ agent[a].exit
  BY <1>1, <1>2, WorksOn DEF Orderly, Table, Aimed, Cleared, Halted
<1>4. /\ \A b \in Agents : /\ b # a => agent'[b] = agent[b]
                           /\ agent'[b].exit = agent[b].exit /\ agent'[b].client = agent[b].client
      /\ agent'[a].proc = agent[a].proc /\ ~agent'[a].listed
  BY <1>2, <1>3 DEF SInv, Typed, AgentRec
<1>5. command'[c].pc = "over" /\ command'[c].op = "over" /\ Moving(c)
  <2>1. command'[c].pc = "over" /\ command'[c].op = "over" /\ \A d \in Commands \ {c} : command'[d] = command[d]
    BY <1>2 DEF Ends, SInv, Typed, NoCommand
  <2> QED
    BY <1>2, <2>1, CommandMoves
<1>6. \A b \in Agents, d \in Commands : ~Aimed(d, b)' /\ ~Halting(d, b)' /\ ~Cleared(d, b)' /\ ~Halted(d, b)'
  <2>1. \A b \in Agents : ~Aimed(c, b)' /\ ~Halting(c, b)' /\ ~Cleared(c, b)' /\ ~Halted(c, b)'
    BY <1>5 DEF Aimed, Halting, Cleared, Halted
  <2> QED
    BY <1>5, <2>1, MovingOthers
<1>7. Local(a)'
  <2>1. Steady(a) /\ Aims(a)'
    BY <1>2, <1>3, <1>6, SteadyIf, Unaimed
  <2>2. \A t \in Tasks : task[t].of = a /\ Main(t) => task[t].pc \notin {"new", "launch"}
    BY <1>3 DEF Local, Aims, Aim
  <2>3. ASSUME NEW t \in Tasks, SDK, task[t].of = a, Runner(t), task[t].pc = "turn"
        PROVE  Interrupted(work[a])
    <3>1. agent[a].status # "running"
      BY <1>3, <2>3 DEF Local, Aims, Aim
    <3> QED
      BY <1>3, <2>3, <3>1 DEF Local, SdkAgent, RunnerFits
  <2>4. ASSUME ~SDK, NEW t \in Tasks, task[t].of = a
        PROVE  ProcFits(t, a)'
    <3>1. ~(task[t].pc \in {"new", "launch", "telling"} /\ task[t].cancel # "no")
      BY <1>2, <1>3, <2>4, KillWaitsFor
    <3>2. ~Live(t)
      BY <1>3, <2>4 DEF Local, Aims, Aim
    <3> QED
      BY <1>2, <3>1, <3>2 DEF ProcFits, Live
  <2> QED
    BY <1>2, <1>3, <1>4, <2>1, <2>2, <2>3, <2>4, SteadyKeeps
<1>8. \A b \in Agents \ {a} : AgentSame(b) /\ TasksSame(b)
  BY <1>2, <1>4 DEF AgentSame, TasksSame
<1>9. \A b \in Agents \ {a} : CommandsSame(b)
  BY <1>1, <1>5, <1>6 DEF CommandsSame, Moving
<1>10. Table'
  <2>1. ~Clearing(c)'
    BY <1>5 DEF Clearing
  <2>2. \A b \in Agents : /\ agent'[b].listed => agent[b].listed
                          /\ agent[b].exit => agent'[b].exit
                          /\ agent'[b].client # "none" => agent[b].client # "none"
                          /\ agent[b].listed /\ ~agent'[b].listed => agent'[b].exit
    BY <1>3, <1>4
  <2> QED
    BY <1>5, <2>1, <2>2, TableKeeps
<1>11. Fresh'
  BY <1>5, NotInserted DEF Inserted
<1> QED
  BY <1>2, <1>3, <1>5, <1>7, <1>8, <1>9, <1>10, <1>11, OneAgentStep

-----------------------------------------------------------------------------
LEMMA StutterOrderly ==
  ASSUME Orderly, UNCHANGED vars
  PROVE  Orderly'
<1>1. UNCHANGED <<harness, agent, task, work, results, command>> /\ SDK' = SDK
  BY DEF vars, SDK
<1>2. \A b \in Agents : Local(b)'
  BY <1>1, Elsewhere DEF Orderly, AgentSame, TasksSame, CommandsSame
<1>3. Serial' /\ Table' /\ Fresh'
  BY <1>1 DEF Orderly, Serial, Busy, Table, Clearing, Fresh, Inserted
<1> QED
  BY <1>2, <1>3 DEF Orderly

(* Nothing is under way, and nobody was made.                               *)
LEMMA InitOrderly == Init => Orderly
<1> SUFFICES ASSUME Init PROVE Orderly
  OBVIOUS
<1>1. /\ \A a \in Agents : agent[a] = NoAgent /\ ~agent[a].listed /\ agent[a].client = "none"
      /\ \A t \in Tasks : task[t] = NoTask /\ task[t].of = 0
      /\ \A c \in Commands : command[c] = NoCommand /\ command[c].pc = "over" /\ command[c].op = "none"
  BY DEF Init, NoAgent, NoTask, NoCommand
<1>2. Serial /\ Table /\ Fresh
  BY <1>1 DEF Serial, Busy, Table, Clearing, Fresh, Inserted
<1>3. ASSUME NEW a \in Agents
      PROVE  Local(a)
  <2>1. \A t \in Tasks : task[t].of # a
    BY <1>1 DEF Agents
  <2> QED
    BY <1>1, <2>1 DEF Local, Aims, Alone, Begins, SdkAgent, CliAgent
<1> QED
  BY <1>2, <1>3 DEF Orderly

LEMMA CallOrderly ==
  ASSUME SInv, Orderly, ~overlap', SpawnCalled \/ StopCalled \/ HintCalled \/ KillCalled \/ ConfirmCalled
  PROVE  Orderly'
BY SpawnCalledOrderly, StopCalledOrderly, HintCalledOrderly, KillCalledOrderly, ConfirmCalledOrderly

LEMMA CommandOrderly ==
  ASSUME SInv, Orderly, ~overlap', NEW c \in Commands, CommandStep(c)
  PROVE  Orderly'
<1>1. CASE StopReturns(c) \/ SpawnClears(c) \/ SpawnStopped(c) \/ SpawnInserts(c) \/ SpawnStarts(c)
  BY <1>1, StopReturnsOrderly, SpawnClearsOrderly, SpawnStoppedOrderly, SpawnInsertsOrderly, SpawnStartsOrderly
<1>2. CASE HintInterrupts(c) \/ HintStarts(c)
  BY <1>2, HintInterruptsOrderly, HintStartsOrderly
<1>3. CASE KillCancels(c) \/ KillWaited(c) \/ KillSignals(c) \/ KillPops(c)
  BY <1>3, KillCancelsOrderly, KillWaitedOrderly, KillSignalsOrderly, KillPopsOrderly
<1> QED
  BY <1>1, <1>2, <1>3 DEF CommandStep

LEMMA TaskOrderly ==
  ASSUME SInv, Orderly, ~overlap', NEW t \in Tasks, TaskStep(t) \/ ProcExits(t) \/ FourHours(t)
  PROVE  Orderly'
<1>1. CASE TaskBegins(t) \/ Launched(t) \/ LaunchFails(t) \/ Told(t)
  BY <1>1, TaskBeginsOrderly, LaunchedOrderly, LaunchFailsOrderly, ToldOrderly
<1>2. CASE ResultReceived(t) \/ NoResult(t) \/ SubprocessOver(t) \/ Judged(t)
  BY <1>2, ResultReceivedOrderly, NoResultOrderly, SubprocessOverOrderly, JudgedOrderly
<1>3. CASE RestEnds(t) \/ Cancelled(t) \/ ProcExits(t) \/ FourHours(t)
  BY <1>3, RestEndsOrderly, CancelledOrderly, ProcExitsOrderly, FourHoursOrderly
<1> QED
  BY <1>1, <1>2, <1>3 DEF TaskStep

(* What has overlapped once has overlapped for good.                        *)
LEMMA OverlapStays ==
  ASSUME [Next]_vars, overlap
  PROVE  overlap'
<1>1. CASE SpawnCalled \/ StopCalled \/ HintCalled \/ KillCalled \/ ConfirmCalled
  BY <1>1 DEF SpawnCalled, StopCalled, HintCalled, KillCalled, ConfirmCalled, Called
<1>2. ASSUME NEW c \in Commands, CommandStep(c)
      PROVE  overlap'
  BY <1>2 DEF CommandStep, StopReturns, SpawnClears, SpawnStopped, SpawnInserts, SpawnStarts,
              HintInterrupts, HintStarts, KillCancels, KillWaited, KillSignals, KillPops
<1>3. ASSUME NEW t \in Tasks, TaskStep(t) \/ ProcExits(t) \/ FourHours(t)
      PROVE  overlap'
  BY <1>3 DEF TaskStep, ProcExits, FourHours, TaskBegins, Launched, LaunchFails, Told, ResultReceived,
              NoResult, SubprocessOver, Judged, RestEnds, Cancelled
<1>4. ASSUME NEW a \in Agents, WorkEnds(a)
      PROVE  overlap'
  BY <1>4 DEF WorkEnds
<1>5. CASE UNCHANGED vars
  BY <1>5 DEF vars
<1> QED
  BY <1>1, <1>2, <1>3, <1>4, <1>5 DEF Next

LEMMA OrderlyStep ==
  ASSUME SInv, OInv, [Next]_vars
  PROVE  OInv'
<1> SUFFICES ASSUME ~overlap'
             PROVE  Orderly'
  BY DEF OInv
<1>1. Orderly
  BY OverlapStays DEF OInv
<1>2. CASE UNCHANGED vars
  BY <1>1, <1>2, StutterOrderly
<1>3. ASSUME NEW a \in Agents, WorkEnds(a)
      PROVE  Orderly'
  BY <1>1, <1>3, WorkEndsOrderly
<1> QED
  BY <1>1, <1>2, <1>3, CallOrderly, CommandOrderly, TaskOrderly DEF Next

(* While commands come one at a time, meet no agent that is starting and    *)
(* every interrupt reaches its client, no two agents develop the skill,     *)
(* whatever the one that is replaced was doing: spawn_agent                 *)
(* (agent_orchestrator.py:1697) stops or outlives every turn of it before   *)
(* the new one begins.                                                      *)
THEOREM OneTurnHolds == Spec => []OneTurn
<1>1. Init => OInv
  BY InitOrderly DEF OInv
<1>2. SInv /\ SInv' /\ OInv /\ [Next]_vars => OInv'
  BY OrderlyStep
<1>3. SInv /\ OInv => OneTurn
  BY OneTurnFollows
<1> QED
  BY <1>1, <1>2, <1>3, SessionInvariant, PTL DEF Spec

=============================================================================
