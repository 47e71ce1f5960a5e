SPECIFICATION LockSpec
CONSTANTS
    Window = {w1, w2, w3}
    StaleMinutes = 2
    Overlap = TRUE
    Dawdle = FALSE
    SetBack = FALSE
SYMMETRY WindowSymmetry
INVARIANTS
    MutualExclusion
