SPECIFICATION Spec
CONSTANT ConfigsUsed <- MCConfigs
INVARIANTS
    BudgetTypeOK
    ReturnsTheTruth
    LinearBackoff
    AtMostOneLateCall
PROPERTIES
    ReplaysOnlyTransient
    DoReturns
CHECK_DEADLOCK FALSE
