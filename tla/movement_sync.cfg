SPECIFICATION FairSpec
CONSTANTS
    Local = Local
    other = other
    Others <- MCOthers
    MaxInputs = 3
    MaxSnapshots = 4
    MaxDrops = 1
    MaxInFlight = 3
INVARIANTS
    ViewIsSound
PROPERTIES
    InputsAreCounted
    SnapshotsInOrder
    InputsSettle
    DepartedVanish
CHECK_DEADLOCK FALSE
