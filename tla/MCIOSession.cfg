SPECIFICATION Spec
CONSTANTS
    FileSize = 5
    MaxRead = 8
    MaxSize = 20
INVARIANT UnreadIntact
