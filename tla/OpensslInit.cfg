SPECIFICATION Spec
CONSTANTS
    Threads = {t1, t2}
    Contexts = {c1}
    Legacy = TRUE
    MaxHeld = 1
INVARIANTS
    TypeOK
    SafeWhileUsed
    CountIsOwed
    ContextsCounted
PROPERTIES
    CallsReturn
