CONSTANTS
  Agents = {a1, a2}
  Runs = {r1, r2}
  Stoppers = {s1, s2}
  Graphs = {g1}
  Shutdown = shutdown
  None = None
  EarlyStop = FALSE
  Resistant = TRUE
  StopTimeout = TRUE
  MaxRestarts = 2
CHECK_DEADLOCK FALSE
SPECIFICATION Spec
SYMMETRY Ids
INVARIANTS
  IInv
  AgentStatusAgrees
  EndedIsQuiet
PROPERTIES
  ImplementsContract
