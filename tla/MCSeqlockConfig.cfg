SPECIFICATION FairSpec
CONSTANTS
    NumFields = 3
    MaxAttempts = 2
    MaxVersion = 3
    RejectZero = TRUE
INVARIANTS
    NoTornRead
PROPERTIES
    ImplementsRegister
    Converges
