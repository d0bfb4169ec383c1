SPECIFICATION WsSpec
CONSTANTS
    MaxFrames = 3
    MaxLen = 2
    Rejected = {3}
INVARIANTS
    Reassembled
    FailsOnlyOnRejection
