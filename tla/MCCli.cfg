SPECIFICATION Spec
CONSTANTS
    IntMax = 31
    Args <- MCArgs
    MaxArgs = 3
    Files <- MCFiles
    Documents <- MCDocuments
    Number <- MCNumber
    Nesting <- MCNesting
    Encoded <- Encode
    IsSchema <- MCIsSchema
    Accepts <- MCAccepts
    Rooms <- MCRooms
    Width = 8
INVARIANTS
    SuccessAsAsked
    OutputReadsBack
    ReleasedAtEnd
PROPERTY Ends
