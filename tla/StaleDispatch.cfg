SPECIFICATION Spec
CONSTANTS
    Kinds = {"server"}
    Cbs = {"completion"}
    FailConds = {}
    OtherSources = TRUE
INVARIANTS
    OnePollrec
