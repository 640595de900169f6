SPECIFICATION Spec
CONSTANTS
    Kinds = {"server"}
    Cbs = {"completion"}
    FailConds = {}
    OtherSources = FALSE
PROPERTIES
    StartFailureReported
