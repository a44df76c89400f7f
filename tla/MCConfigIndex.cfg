SPECIFICATION Spec
CONSTANTS
    Calls = {k1, k2, k3}
    MaxIndex = 3
    Bps = {25, 600}
    Keys = {w1, public}
    Default = public
SYMMETRY CallSymmetry
INVARIANTS NoGaps FailedForARival FeesAsAsked OwnConfigsFound
CHECK_DEADLOCK FALSE
