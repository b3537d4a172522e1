\* One evaluator rejection with an SDK agent.
SPECIFICATION Spec
CONSTANTS
  NumSkills = 2
  Deps <- Chain
  Reused = {}
  NumTargets = 1
  Agents = {a1, a2, a3, a4}
  Loops = {l1}
  Harness = "sdk"
  Autonomous = TRUE
  TaskEnv = FALSE
  MaxEvalRetries = 2
  MaxRootTestAttempts = 2
  MaxCommands = 1
  Env = {"xbot-start"}
  a1 = a1
  a2 = a2
  a3 = a3
  a4 = a4
  l1 = l1
INVARIANTS
  WorkIsServed
\* The pipeline really ends: every skill is done or in review, no command is left.
CHECK_DEADLOCK FALSE
