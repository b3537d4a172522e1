\* Three commands on two agents of one skill, under either harness.
SPECIFICATION FairSpec
CONSTANTS
  Harnesses = {"sdk", "openclaw"}
  MaxAgents = 2
  MaxTasks = 3
  MaxCommands = 3
INVARIANTS
  OneTurn
  StopIsNoAnswer
  OrphansSignalled
PROPERTIES
  AgentsLeave
CHECK_DEADLOCK FALSE
