SPECIFICATION Spec
CONSTANTS
    NSlot = 4
    Striped = TRUE
    Dmmax = 4
    Initial <- SwapInitial
    Later <- SwapLater
    Swap = TRUE
    Gets = FALSE
INVARIANTS
    InArray
    InOneStripe
PROPERTIES
    LosesOnlyWhenFull
