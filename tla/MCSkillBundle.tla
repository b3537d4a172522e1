---------------------------- MODULE MCSkillBundle ----------------------------
(***************************************************************************)
(* Model-checking instance of SkillBundle: three skills in any graph.      *)
(***************************************************************************)
EXTENDS SkillBundle, TLC

L(i, k, n) == [indent |-> i, kind |-> k, name |-> n]

(* A function of its own, a helper that other skills copied too, between    *)
(* two blocks, and a class whose method has a common name.                  *)
Script(own, helper) ==
  << L(0, "import", "rpc"), L(0, "def", helper), L(1, "import", "math"), L(1, "other", "body"),
     L(0, "other", "class"), L(1, "def", "init"), L(2, "other", "body"),
     L(0, "main", ""), L(1, "other", "call"), L(0, "def", own), L(1, "other", "body") >>

(* Every name is a skill's function; the helper is copied or not.           *)
Copies   == [s \in Skills |-> Script(s, "helper")]
Separate == [s \in Skills |-> Script(s, s \o "_helper")]
BothLibraries == {Copies, Separate}

Lists == {<<>>} \cup {<<s>> : s \in Skills} \cup {<<p[1], p[2]>> : p \in {p \in Skills \X Skills : p[1] # p[2]}}
=============================================================================
