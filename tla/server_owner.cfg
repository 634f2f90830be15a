SPECIFICATION Spec
CONSTANTS
    MaxSessionsOption = 2
    LastSid = 3
    MaxStrand = 3
    LastMessage = 3
CHECK_DEADLOCK FALSE
INVARIANTS
    SessionLimitKept
    AcceptingWhileRunning
    ReportedLeaveTheMap
    OnlyOwnRepliesOvertake
