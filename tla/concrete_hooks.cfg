CONSTANTS
    Top = 1
    Registers = {"sp", "pc", "r"}
    NumHooks = 3
    Policies = {3}
    Operations <- AllOperations
    Touchable <- ConditionAndCell
    LinkRegister = FALSE
    ExtraPop = 1
SPECIFICATION Spec
INVARIANT
    TypeOK
    FailsClean
    ViolationsAnswered
    BranchesAsHeld
    SkippedCallReturns
PROPERTY
    OpsEnd
CHECK_DEADLOCK FALSE
