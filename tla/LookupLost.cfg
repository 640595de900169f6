SPECIFICATION Spec
CONSTANTS
    Kinds = {"server"}
    Cbs = {"completion"}
    FailConds = {}
    OtherSources = FALSE
INVARIANTS
    FailureReported
