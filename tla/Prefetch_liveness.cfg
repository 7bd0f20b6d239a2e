SPECIFICATION FairSpec
CONSTANTS
    A = A
    B = B
    C = C
    T1 = T1
    T2 = T2
    T3 = T3
    T4 = T4
    NoFile = NoFile
    NoThread = NoThread
    Threads = {T1, T2}
    Files = {A, B}
    Beside <- Two
    Stages = 1
    Asks = {}
    MaxEdits = 1
    MaxActs = 1
PROPERTIES
    ReservationEnds
    EditsEnd
CHECK_DEADLOCK FALSE
