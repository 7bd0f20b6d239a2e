SPECIFICATION Spec
CONSTANTS
    A = A
    B = B
    Everyone = Everyone
    Nobody = Nobody
    Machines = {A, B}
    Gap = FALSE
    MaxSaves = 2
    MaxOutages = 0
    MaxTurns = 1
    MaxCloses = 0
    MaxLost = 0
INVARIANT RecordIsTrue
CHECK_DEADLOCK FALSE
