\* Autonomous mode with subprocess agents: a skill and a task root built on it.
SPECIFICATION Spec
CONSTANTS
  NumSkills = 2
  Deps <- Chain
  Reused = {}
  NumTargets = 1
  Agents = {a1, a2, a3, a4}
  Loops = {l1, l2}
  Harness = "openclaw"
  Autonomous = TRUE
  TaskEnv = TRUE
  MaxEvalRetries = 2
  MaxRootTestAttempts = 3
  MaxCommands = 4
  Env = {"xbot-start", "error", "timeout", "restart"}
  a1 = a1
  a2 = a2
  a3 = a3
  a4 = a4
  l1 = l1
  l2 = l2
INVARIANTS
  TypeOK
  EvalLockOwned
  SpawnLockOwned
  WorkIsServed
  OneDevPerTarget
PROPERTIES
  ImplementsOrder
\* The pipeline really ends: every skill is done or in review, no command is left.
CHECK_DEADLOCK FALSE
