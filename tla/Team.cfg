CONSTANTS
    w1 = w1
    w2 = w2
    w3 = w3
    s1 = s1
    None = None
    Nodes = {w1, w2, w3}
    Stoppers = {s1}
    MaxParallel = 2
    StopTimeout = FALSE
    MaxWorkers = 3
    MaxEdges = 3
    MaxLength = 4
SPECIFICATION PSpec
SYMMETRY Ids
PROPERTY ImplementsTeamContract
INVARIANT TeamNeverStuck
INVARIANT BoundedParallelism
INVARIANT WorkersSettleFirst
INVARIANT ParsedTeamsAreSchedulable
CHECK_DEADLOCK FALSE
