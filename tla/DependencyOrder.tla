-------------------------- MODULE DependencyOrder --------------------------
(***************************************************************************)
(* What the skill orchestrator promises to the author of a skill graph,    *)
(* without agents, evaluators, locks or retries:                           *)
(*                                                                         *)
(*  - development of a skill starts by itself only once every skill it     *)
(*    depends on has been finished;                                        *)
(*  - outside autonomous mode a skill is finished by a human and by nobody *)
(*    else; in autonomous mode it is finished only after it was started.   *)
(*                                                                         *)
(* SkillPipeline implements this specification.                            *)
(***************************************************************************)
CONSTANTS
  Skills,      \* the skills of the graph
  Deps,        \* Deps[s]: the skills s depends on
  Reused,      \* skills the graph file already lists as done
  Autonomous   \* the --autonomous flag

VARIABLES
  started,     \* skills whose development was started by the orchestrator
  handled,     \* skills a human started, or marked as done, by hand
  approved,    \* skills a human marked as done
  finished     \* skills that have been done at some moment

orderVars == <<started, handled, approved, finished>>

Init ==
  /\ started = {}
  /\ handled = {}
  /\ approved = {}
  /\ finished = Reused

(* The orchestrator starts a skill: the dependency gate.                   *)
Start(s) ==
  /\ Deps[s] \subseteq finished
  /\ started' = started \cup {s}
  /\ UNCHANGED <<handled, approved, finished>>

(* A human starts a skill by hand; the gate does not apply.                *)
TakeOver(s) ==
  /\ handled' = handled \cup {s}
  /\ UNCHANGED <<started, approved, finished>>

(* A human marks a skill as done.                                          *)
Approve(s) ==
  /\ handled' = handled \cup {s}
  /\ approved' = approved \cup {s}
  /\ finished' = finished \cup {s}
  /\ UNCHANGED started

(* Autonomous mode marks a skill as done.                                  *)
Promote(s) ==
  /\ Autonomous
  /\ s \in started \cup handled
  /\ finished' = finished \cup {s}
  /\ UNCHANGED <<started, handled, approved>>

Next == \E s \in Skills : Start(s) \/ TakeOver(s) \/ Approve(s) \/ Promote(s)

Spec == Init /\ [][Next]_orderVars

-----------------------------------------------------------------------------

(* No skill is under development by the orchestrator's own decision before *)
(* everything it builds on was finished once.                              *)
Gate == \A s \in started : Deps[s] \subseteq finished

=============================================================================
