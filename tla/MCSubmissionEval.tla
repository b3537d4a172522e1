-------------------------- MODULE MCSubmissionEval --------------------------
(***************************************************************************)
(* Skill graphs for model checking SubmissionEval.                         *)
(***************************************************************************)
EXTENDS SubmissionEval, TLC

(* One skill, which is the root of its graph.                               *)
Solo == 1 :> {}
=============================================================================
