CONSTANTS
    Hosts = {h1, h2}
    Jobs = {j1, j2}
    NoHost = NoHost
    NoJob = NoJob
    MaxCrashes = 1
SPECIFICATION Spec
INVARIANTS TypeOK
PROPERTIES ImplementsBoard QueuedIsDone LeftoverIsDone
CHECK_DEADLOCK FALSE
