-------------------------- MODULE MCAdvisorTokens ---------------------------
(***************************************************************************)
(* Model-checking instance of AdvisorTokens: the replies the provider may  *)
(* give, and requests that all ask the same.                               *)
(***************************************************************************)
EXTENDS AdvisorTokens

Cheap == [text |-> "wait", tokens |-> 0]
Short == [text |-> "regrasp", tokens |-> 1]
Long  == [text |-> "replan", tokens |-> 2]

ThreeReplies == {Cheap, Short, Long}

OneQuestion == [r \in Requests |-> "grasp"]
=============================================================================
