SPECIFICATION Spec
CONSTANTS
    Users = {u1, u2}
    FeeVault = fv
    InitLp = 5
    Amounts = {3}
    RatioSteps = 2
    MaxJobs = 3
SYMMETRY MCSymmetry
INVARIANTS LockedAsAsked LockNeverMissesAccounts QuietLockLands
CHECK_DEADLOCK FALSE
