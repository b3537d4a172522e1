--------------------------- MODULE MCRobotEpisode ---------------------------
(***************************************************************************)
(* Two runs for model checking RobotEpisode: the second asks for the       *)
(* environment of the first or for another one.                            *)
(***************************************************************************)
EXTENDS RobotEpisode

TwoRuns == <<[configs |-> {"lift"}, calls |-> 2],
             [configs |-> {"lift", "stack"}, calls |-> 1]>>
=============================================================================
