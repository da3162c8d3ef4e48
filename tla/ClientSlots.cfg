CONSTANTS
    r1 = r1
    r2 = r2
    SlotCount = 2
    Requests = {r1, r2}
    Plans <- MCPlans
    Ports <- MCPorts
    MaxConns = 2
    Timeout = 1
SPECIFICATION Spec
INVARIANTS TypeOK OneResponsible LoopsEndWithSlot OnlyCaughtLoopsLeak FreeIsShown
PROPERTIES ImplementsPool TakenIsShown QuietSlotIsFreed
CHECK_DEADLOCK FALSE
