CONSTANTS
    Nodes = {n1}
    Sockets = {s1, s2}
    Calls = {c1}
    Admins = {a1}
    Loop = Loop
    None = None
    MaxConnections = 1
    MaxTasks = 1
    MaxMessages = 1
    MaxRestarts = 1
SPECIFICATION FairSpec
INVARIANT PendingIsExact
PROPERTY ImplementsSessionContract
PROPERTY DisabledLosesSession
PROPERTY SilentGoesOffline
CHECK_DEADLOCK FALSE
