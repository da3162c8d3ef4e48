CONSTANTS
    MaxAttempts = 2
    MaxPages = 1
    MaxFaults = 1
SPECIFICATION Spec
INVARIANTS TypeOK NoEventMissed EarlyStreamSeesResult OwnProgress IdentityKept
PROPERTIES PhaseGoesForward
CHECK_DEADLOCK FALSE
