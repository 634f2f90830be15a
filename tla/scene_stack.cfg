SPECIFICATION FairSpec
CONSTANTS
    s1 = s1
    s2 = s2
    s3 = s3
    Scenes <- ThreeScenes
    NoScene = NoScene
    MaxPending = 2
INVARIANTS
    LifecycleKept
    StackIsSound
PROPERTIES
    RequestsAreApplied
CHECK_DEADLOCK FALSE
