SPECIFICATION FairSpec
CONSTANTS
    MaxSessionsOption = 1
    LastSid = 1
    MaxStrand = 1
    alice = alice
    bob = bob
    t1 = t1
    t2 = t2
    t3 = t3
    NoToken = NoToken
    Users <- BothUsers
    Tokens <- ThreeTokens
    TokenTtl = 2
CHECK_DEADLOCK FALSE
PROPERTIES
    ActiveTokenIsKept
    NewLoginSurvives
    LockoutEnds
