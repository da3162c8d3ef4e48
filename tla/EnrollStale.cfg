CONSTANTS
    MaxAttempts = 2
    MaxPages = 1
    MaxFaults = 0
SPECIFICATION Spec
INVARIANTS NoStaleEnrolled
CHECK_DEADLOCK FALSE
