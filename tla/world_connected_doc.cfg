SPECIFICATION Spec
CONSTANTS
    MaxSessionsOption = 2
    LastSid = 2
    MaxStrand = 2
    alice = alice
    bob = bob
    a1 = a1
    a2 = a2
    b1 = b1
    Users <- BothUsers
    Tokens <- ThreeTokens
    UserOf <- ThreeUserOf
    SnapshotIds <- NoIds
    FrameLists <- NoFrames
    MaxPackets = 1
    MaxMoveInputPackets = 0
    MaxDrops = 0
CHECK_DEADLOCK FALSE
INVARIANT
    SnapshotsGoToConnected
