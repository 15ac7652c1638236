CONSTANTS
  Agents = {a1}
  Runs = {r1, r2}
  Stoppers = {s1}
  Graphs = {g1}
  Shutdown = shutdown
  None = None
  EarlyStop = TRUE
  Resistant = TRUE
  StopTimeout = FALSE
  MaxRestarts = 1
CHECK_DEADLOCK FALSE
SPECIFICATION FairSpec
INVARIANTS
  OneActiveRunPerAgent
PROPERTIES
  OnlyFailedRunsRevive
  EveryRunEnds
