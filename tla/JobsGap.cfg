CONSTANTS
    Hosts = {h1}
    Jobs = {j1}
    NoHost = NoHost
    NoJob = NoJob
    MaxCrashes = 0
SPECIFICATION Spec
PROPERTIES EveryJobIsDone
CHECK_DEADLOCK FALSE
