SPECIFICATION TreeSpec
CONSTANTS
    o1 = o1  o2 = o2  o3 = o3  e1 = e1  e2 = e2
    NoUnit = NoUnit
    Objects <- ThreeObjects
    Animated <- OneAnimated
    Effects <- TwoEffects
    Bones <- TwoBones
    Id <- OwnIds
INVARIANT TreeIsSound
CHECK_DEADLOCK FALSE
