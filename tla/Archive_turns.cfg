SPECIFICATION FairSpec
CONSTANTS
    A = A
    B = B
    Everyone = Everyone
    Nobody = Nobody
    Machines = {A, B}
    Gap = FALSE
    MaxSaves = 1
    MaxOutages = 1
    MaxTurns = 1
    MaxCloses = 0
    MaxLost = 1
INVARIANTS
    Covered
PROPERTIES
    RowsClear
    SavesArrive
CHECK_DEADLOCK FALSE
