SPECIFICATION FairLockSpec
CONSTANTS
    Window = {w1, w2}
    StaleMinutes = 2
    Overlap = TRUE
    Dawdle = TRUE
    SetBack = TRUE
PROPERTIES
    LeftoverExpires
