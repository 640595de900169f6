SPECIFICATION LiveSpec
CONSTANTS
    Kinds = {"client", "server"}
    Cbs = {"completion"}
    FailConds = {"HUP"}
    OtherSources = FALSE
PROPERTIES
    RequestsComplete
    DeferredOutputRetried
