\* Two agents, either of which can be a team of the other; two requests at once;
\* two memories; at most one task of an agent about to revive its row.
CONSTANTS
    NumAgents = 2
    Requests = {r1, r2}
    MaxMemories = 2
    MaxResults = 2
    MaxOvertaken = 1
    None = None
SPECIFICATION Spec
INVARIANTS DanglingNeedsARace OnlyRevivedRunsLoseAgents UsageIsComplete
SYMMETRY Symmetry
