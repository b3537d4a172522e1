\* Two targets, whose agents submit at the same time.
SPECIFICATION SubSpec
CONSTANTS
  Submissions = {c1, c2}
  PollsExpire = FALSE
  c1 = c1
  c2 = c2
  NumSkills = 1
  Deps <- Solo
  Reused = {}
  NumTargets = 2
  Agents = {a1, a2, a3, a4}
  Loops = {l1}
  Harness = "openclaw"
  Autonomous = TRUE
  TaskEnv = FALSE
  MaxEvalRetries = 2
  MaxRootTestAttempts = 2
  MaxCommands = 1
  Env = {"xbot-start"}
  a1 = a1
  a2 = a2
  a3 = a3
  a4 = a4
  l1 = l1
INVARIANTS
  VerdictIsOwn
\* The pipeline really ends: agents, evaluators and scripts are over, no command is left.
CHECK_DEADLOCK FALSE
