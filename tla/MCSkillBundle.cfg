\* Three skills in any graph, cycles included, with one change during the run.
SPECIFICATION Spec
CONSTANTS
  Skills = {"pick", "center", "grasp"}
  Main = "pick"
  DepLists <- Lists
  Libraries <- BothLibraries
  MaxEdits = 1
INVARIANTS
  DependenciesFirst
  BundleComplete
  CallsDefined
\* The program ends.
CHECK_DEADLOCK FALSE
