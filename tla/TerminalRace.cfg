CONSTANTS
  Agents = {a1}
  Runs = {r1}
  Stoppers = {s1}
  Graphs = {g1}
  Shutdown = shutdown
  None = None
  EarlyStop = TRUE
  Resistant = FALSE
  StopTimeout = FALSE
  MaxRestarts = 0
CHECK_DEADLOCK FALSE
SPECIFICATION Spec
PROPERTIES
  TerminalIsFinal
