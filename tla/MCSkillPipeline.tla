-------------------------- MODULE MCSkillPipeline --------------------------
(***************************************************************************)
(* Skill graphs for model checking SkillPipeline.                          *)
(***************************************************************************)
EXTENDS SkillPipeline, TLC

(* One skill, which is the root of its graph.                               *)
Solo == 1 :> {}

(* A root that builds on one other skill.                                   *)
Chain == 1 :> {} @@ 2 :> {1}

(* A root that builds on two independent skills.                            *)
Join == 1 :> {} @@ 2 :> {} @@ 3 :> {1, 2}
=============================================================================
