SPECIFICATION Spec
CONSTANTS
    RowCap = 2
    ByteCap = 8
    MaxBytes = 5
    Prefix = 1
    Layouts <- MCLayouts
    Costs <- MCCosts
    Lengths <- MCLengths
INVARIANTS
    TablesArePrefixes
    BudgetHeld
    WarningsTell
    LinksHold
    CheckFindsBrokenLinks
    CellsAreLocated
CHECK_DEADLOCK FALSE
