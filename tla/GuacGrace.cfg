CONSTANTS
    MaxConns = 3
    MaxSessions = 1
    Grace = 2
    MaxCrashes = 0
SPECIFICATION Spec
PROPERTIES GraceHonoured
CHECK_DEADLOCK FALSE
