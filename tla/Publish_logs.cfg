SPECIFICATION FairSpec
CONSTANTS
    MaxStarts = 2
    MaxChunks = 2
    MaxFaults = 3
INVARIANTS
    TypeOK
    SuccessMeansAccepted
    DroppedOnlyBad
    StreamerHearsState
    UnsetNotSent
PROPERTIES
    Recovers
