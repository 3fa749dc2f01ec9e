SPECIFICATION Spec
CONSTANTS
    NSlot = 6
    Striped = FALSE
    Dmmax = 4
    Initial <- WholeInitial
    Later <- WholeLater
    Swap = FALSE
    Gets = TRUE
INVARIANTS
    TableOK
    DoubleFreeCaught
    FirstFitExact
PROPERTIES
    ImplementsFreeSpace
