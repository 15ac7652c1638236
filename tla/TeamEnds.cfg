CONSTANTS
    w1 = w1
    w2 = w2
    s1 = s1
    None = None
    Nodes = {w1, w2}
    Stoppers = {s1}
    MaxParallel = 1
    StopTimeout = FALSE
SPECIFICATION FairSpec
PROPERTY TeamEnds
CHECK_DEADLOCK FALSE
