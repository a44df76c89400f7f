SPECIFICATION Spec
CONSTANTS
    Users = {u1, u2}
    FeeVault = fv
    InitLp = 5
    Amounts = {3}
    RatioSteps = 2
    MaxJobs = 2
SYMMETRY MCSymmetry
INVARIANT MoveCreatesEscrow
CHECK_DEADLOCK FALSE
