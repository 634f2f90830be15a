SPECIFICATION FairSpec
CONSTANTS
    MaxStarts = 2
    MaxPackets = 3
INVARIANTS
    ThreadsAgree
PROPERTIES
    StopIsFinal
    StopReturns
    EnterIsSent
    IncomingPipe
CHECK_DEADLOCK FALSE
