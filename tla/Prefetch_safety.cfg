SPECIFICATION Spec
CONSTANTS
    A = A
    B = B
    C = C
    T1 = T1
    T2 = T2
    T3 = T3
    T4 = T4
    NoFile = NoFile
    NoThread = NoThread
    Threads = {T1, T2, T3, T4}
    Files = {A, B}
    Beside <- Two
    Stages = 1
    Asks = {}
    MaxEdits = 2
    MaxActs = 2
INVARIANTS
    NoSleepReserved
    TypeOK
    NeverBoth
    AloneIsAlone
    AwakeIfReady
PROPERTIES
    ReservedIsNext
SYMMETRY Alike
CHECK_DEADLOCK FALSE
