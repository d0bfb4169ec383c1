SPECIFICATION FairSpec
CONSTANTS
    InitialBackoff = 1
    MaxBackoff = 32
    Multiplier = 2
    MaxAttempts = 10
INVARIANTS
    OneChannel
    NeverStranded
    GivesUpExactly
    ClosedByConsumer
PROPERTIES
    Settles
