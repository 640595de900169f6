SPECIFICATION Spec
CONSTANTS
    Fds = {f1, f2}
    TicksPerMilli = 2
    AresTimeout = 3
    AresTries = 2
    MaxIndicated = 2
INVARIANTS
    TypeOK
    NothingUsedAfterFree
    WatchMatchesAres
    NothingLeaks
    WakesUp
PROPERTIES
    TimerNotEarly
    ImplementsContract
