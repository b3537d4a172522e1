\* Autonomous mode with SDK agents, no task root, every fault.
SPECIFICATION Spec
CONSTANTS
  NumSkills = 3
  Deps <- Join
  Reused = {}
  NumTargets = 1
  Agents = {a1, a2, a3, a4, a5, a6}
  Loops = {l1}
  Harness = "sdk"
  Autonomous = TRUE
  TaskEnv = FALSE
  MaxEvalRetries = 2
  MaxRootTestAttempts = 2
  MaxCommands = 4
  Env = {"xbot-start", "timeout", "restart", "kill", "error", "stop"}
  a1 = a1
  a2 = a2
  a3 = a3
  a4 = a4
  a5 = a5
  a6 = a6
  l1 = l1
INVARIANTS
  DoneIsQuiet
PROPERTIES
  DoneStays
\* The pipeline really ends: every skill is done or in review, no command is left.
CHECK_DEADLOCK FALSE
