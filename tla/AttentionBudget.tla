--------------------------- MODULE AttentionBudget ---------------------------
(***************************************************************************)
(* What the attention store and runtime promise of the assistance budget   *)
(* of a run: a request takes a credit before anybody may answer it, keeps  *)
(* the first answer it gets, pays for it with that credit, and gives the   *)
(* credit back only if it gets none.                                       *)
(***************************************************************************)
EXTENDS Integers, FiniteSets

CONSTANTS
  Requests,   \* the requests of one run
  Limit       \* its assistance_credits

VARIABLES
  credit,     \* of each request: "none" yet, "held", "spent" or given "back"
  answer      \* of each request: "none" yet, or who gave it

Responders == {"human", "proxy"}

Taken == {r \in Requests : credit[r] \in {"held", "spent"}}

Take(r) ==
  /\ credit[r] = "none" /\ Cardinality(Taken) < Limit
  /\ credit' = [credit EXCEPT ![r] = "held"]
  /\ UNCHANGED answer

Spend(r, who) ==
  /\ credit[r] = "held"
  /\ credit' = [credit EXCEPT ![r] = "spent"]
  /\ answer' = [answer EXCEPT ![r] = who]

GiveBack(r) ==
  /\ credit[r] = "held"
  /\ credit' = [credit EXCEPT ![r] = "back"]
  /\ UNCHANGED answer

budgetVars == <<credit, answer>>

Init ==
  /\ credit = [r \in Requests |-> "none"]
  /\ answer = [r \in Requests |-> "none"]

Next == \E r \in Requests : Take(r) \/ GiveBack(r) \/ \E who \in Responders : Spend(r, who)

Spec == Init /\ [][Next]_budgetVars

(* No more credits are held and spent than the run has.                     *)
WithinLimit == Cardinality(Taken) <= Limit

=============================================================================
