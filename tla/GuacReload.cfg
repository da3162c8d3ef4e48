CONSTANTS
    MaxConns = 2
    MaxSessions = 2
    Grace = 1
    MaxCrashes = 0
SPECIFICATION Spec
PROPERTIES ReloadResumes
CHECK_DEADLOCK FALSE
