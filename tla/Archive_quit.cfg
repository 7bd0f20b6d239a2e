SPECIFICATION Spec
CONSTANTS
    A = A
    B = B
    Everyone = Everyone
    Nobody = Nobody
    Machines = {A, B}
    Gap = FALSE
    MaxSaves = 2
    MaxOutages = 0
    MaxTurns = 0
    MaxCloses = 1
    MaxLost = 0
PROPERTY NotedStands
CHECK_DEADLOCK FALSE
