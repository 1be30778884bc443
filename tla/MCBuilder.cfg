SPECIFICATION Spec
CONSTANTS
    MaxCells = 4
    RefWidth = 4
    Texts = {"a"}
    MaxLossy = 3
    MaxNodes = 2
    MaxItems = 2
    MaxHeld = 1
    Scalars <- MCScalars
INVARIANTS
    NoDangling
    CountsExact
PROPERTY BuildsDocument
