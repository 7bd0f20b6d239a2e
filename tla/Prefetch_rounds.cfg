SPECIFICATION FairSpec
CONSTANTS
    A = A
    B = B
    C = C
    T1 = T1
    T2 = T2
    T3 = T3
    T4 = T4
    NoFile = NoFile
    NoThread = NoThread
    Threads = {T1, T2}
    Files = {A, B, C}
    Beside <- Three
    Stages = 1
    Asks = {"picture", "export"}
    MaxEdits = 0
    MaxActs = 2
INVARIANTS
    WaitingIsBeside
PROPERTIES
    NeighborsEnd
CHECK_DEADLOCK FALSE
