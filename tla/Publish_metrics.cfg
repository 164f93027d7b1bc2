SPECIFICATION Spec
CONSTANTS
    MaxStarts = 1
    MaxChunks = 2
INVARIANTS
    SuccessMeansSent
