SPECIFICATION ClockSpec
CONSTANTS
    Step = 2
    MaxDt = 3
    MaxFrame = 4
    MaxDelay = 6
    Interval = 3
    MaxTick = 2
    Window = 4
    MaxMoves = 6
INVARIANT HonestInputsPass
PROPERTY SnapshotsArePaced
CHECK_DEADLOCK FALSE
