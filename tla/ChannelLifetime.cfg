SPECIFICATION Spec
CONSTANTS
    Watches = {w1, w2}
    Conditions = {{}, {"IN"}}
INVARIANTS
    TypeOK
    NothingUsedAfterFree
    LivesAsLongAsUsed
PROPERTIES
    TellsWhatIsReady
    ClosedIsTold
