SPECIFICATION Spec
CONSTANTS
    Documents <- MCDocuments
    Defaults = {0, 4, 6}
    MaxFailures = 2
    MaxDepth = 13
INVARIANTS
    NothingLeft
    VerdictExact
PROPERTY NoStaleUse
