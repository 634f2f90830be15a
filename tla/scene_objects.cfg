SPECIFICATION SceneSpec
CONSTANTS
    Entities <- ThreePlayers
    MaxPlayers = 3
    MaxID = 12
    Frames = 5
INVARIANTS
    SceneIsSound
    ScreenMatchesSnapshot
CHECK_DEADLOCK FALSE
