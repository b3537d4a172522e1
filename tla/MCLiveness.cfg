\* Autonomous mode without faults, under fairness.
SPECIFICATION FairSpec
CONSTANTS
  NumSkills = 2
  Deps <- Chain
  Reused = {}
  NumTargets = 1
  Agents = {a1, a2, a3, a4}
  Loops = {l1, l2}
  Harness = "openclaw"
  Autonomous = TRUE
  TaskEnv = TRUE
  MaxEvalRetries = 2
  MaxRootTestAttempts = 2
  MaxCommands = 3
  Env = {"xbot-start"}
  a1 = a1
  a2 = a2
  a3 = a3
  a4 = a4
  l1 = l1
  l2 = l2
PROPERTIES
  ReadyStarts
  Settles
  EvaluationEnds
\* The pipeline really ends: every skill is done or in review, no command is left.
CHECK_DEADLOCK FALSE
