CONSTANTS
    r1 = r1
    r2 = r2
    SlotCount = 1
    Requests = {r1, r2}
    Plans <- MCPlans
    Ports <- MCPorts
    MaxConns = 1
    Timeout = 1
SPECIFICATION Spec
INVARIANTS SessionsEndWithSlot
CHECK_DEADLOCK FALSE
