\* Two requests at once; two challenges, so that a user has two devices, or a device
\* two sessions; two enrolments, the second one an UPDATE.
CONSTANTS
    Requests = {r1, r2}
    MaxUsers = 2
    MaxChallenges = 2
    MaxFactors = 2
SPECIFICATION Spec
INVARIANTS ChallengeUsedOnce RevokedDeviceIsSignedOut BootstrapsAreBounded
PROPERTIES RevocationIsFinal
SYMMETRY Symmetry
