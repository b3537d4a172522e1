\* A human reviews; two targets; every command that marks or starts a skill.
SPECIFICATION Spec
CONSTANTS
  NumSkills = 2
  Deps <- Chain
  Reused = {}
  NumTargets = 2
  Agents = {a1, a2, a3, a4, a5}
  Loops = {l1, l2}
  Harness = "openclaw"
  Autonomous = FALSE
  TaskEnv = TRUE
  MaxEvalRetries = 2
  MaxRootTestAttempts = 2
  MaxCommands = 2
  Env = {"xbot-start", "confirm", "patch", "retry", "kill", "restart"}
  a1 = a1
  a2 = a2
  a3 = a3
  a4 = a4
  a5 = a5
  l1 = l1
  l2 = l2
INVARIANTS
  ReviewGate
  DependencyGate
  TestLoopFlag
\* The pipeline really ends: every skill is done or in review, no command is left.
CHECK_DEADLOCK FALSE
