SPECIFICATION Spec
CONSTANTS
    Documents <- Relative
    Defaults = {6}
    MaxFailures = 0
    MaxDepth = 13
INVARIANT RelativeEnds
