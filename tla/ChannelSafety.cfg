SPECIFICATION Spec
CONSTANTS
    Kinds = {"plain", "client", "server"}
    Cbs = {"none", "completion", "switch"}
    FailConds = {"HUP", "ERR"}
    OtherSources = TRUE
INVARIANTS
    TypeOK
    RefsBalanced
    SslWhereUsed
    DeferredSound
    DeferredArmed
    FlushedBeforeControl
    NoLostWakeup
    TimerIsReset
    NoForgottenRequest
    DescriptorOwned
    OnlySslAssertFails
PROPERTIES
    CallbackOwed
    CallbackTellsOutcome
    ErrorsStick
    DeferredByteKept
    ImplementsContract
