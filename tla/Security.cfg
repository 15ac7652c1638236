\* Two requests at once, two approvals, one name for credentials.
CONSTANTS
    Requests = {r1, r2}
    Names = {n1}
    MaxApprovals = 2
SPECIFICATION Spec
INVARIANTS GrantMatchesDecision LockdownRevokesGrants
PROPERTIES RevokedStaysRevoked
SYMMETRY Symmetry
