CONSTANTS
    MaxConns = 3
    MaxSessions = 1
    Grace = 1
    MaxCrashes = 1
SPECIFICATION Spec
INVARIANTS TypeOK OneHolder SettledWhenReleased ParkHasTimer
PROPERTIES ImplementsLifecycle OwnTimerHonoursGrace ClosedIsSettled GoneBrowserReleases
CHECK_DEADLOCK FALSE
