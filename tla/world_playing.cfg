SPECIFICATION Spec
CONSTANTS
    MaxSessionsOption = 2
    LastSid = 1
    MaxStrand = 2
    alice = alice
    bob = bob
    a1 = a1
    a2 = a2
    b1 = b1
    Users <- BothUsers
    Tokens <- ThreeTokens
    UserOf <- ThreeUserOf
    SnapshotIds = {1, 2}
    FrameLists <- OverlappingFrames
    MaxPackets = 2
    MaxMoveInputPackets = 1
    MaxDrops = 1
CHECK_DEADLOCK FALSE
INVARIANTS
    InputAppliedOnce
PROPERTIES
    ProgressIsKept
