\* Two benchmark runs over one service in which every library call may raise and every wait end.
SPECIFICATION EpisodeFairSpec
CONSTANTS
  Clients = {"harness", "worker"}
  Configs = {"lift", "stack"}
  Faults = {"make", "reset", "step", "render", "close"}
  Policies = {"no-op", "reference", "frozen-public"}
  MaxReference = 2
  MaxRequests = 16
  Plan <- TwoRuns
  MaxSteps = 2
  SinkFails = TRUE
INVARIANTS
  OneLiveEnvironment
  BackendCoherent
  StepsAccounted
  VerdictOnFinalState
  EventsFollowCalls
  ReportedRunIsOver
PROPERTIES
  RunsEnd
CHECK_DEADLOCK FALSE
