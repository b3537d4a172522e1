\* Two submissions beside the pipeline, agents that are stopped, killed or restarted.
SPECIFICATION SubFairSpec
CONSTANTS
  Submissions = {c1, c2}
  PollsExpire = TRUE
  c1 = c1
  c2 = c2
  NumSkills = 1
  Deps <- Solo
  Reused = {}
  NumTargets = 1
  Agents = {a1, a2, a3}
  Loops = {l1}
  Harness = "openclaw"
  Autonomous = TRUE
  TaskEnv = FALSE
  MaxEvalRetries = 1
  MaxRootTestAttempts = 2
  MaxCommands = 2
  Env = {"xbot-start", "stop", "restart"}
  a1 = a1
  a2 = a2
  a3 = a3
  l1 = l1
INVARIANTS
  EvaluationsSerialized
  FutureServed
  VerdictGivenOnce
PROPERTIES
  ScriptsEnd
\* The pipeline really ends: agents, evaluators and scripts are over, no command is left.
CHECK_DEADLOCK FALSE
