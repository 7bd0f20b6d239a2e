SPECIFICATION Spec
CONSTANTS
    A = A
    B = B
    Neutral = Neutral
    Bright = Bright
    Healed = Healed
    NoFile = NoFile
    NoEdit = NoEdit
    Files = {A, B}
    Edits = {Neutral, Bright, Healed}
    Plain = Neutral
    DevelopOf <- MCDevelopOf
    Fills <- MCFills1
    Device = TRUE
    Asks = {"look", "export", "mask"}
    MaxActs = 3
INVARIANTS
    TypeOK
    BusyIsOwed
    ScreenIsPanels
    HandIsOpened
    KeptIsTheEdits
    InOrder
SYMMETRY FramesAlike
CHECK_DEADLOCK FALSE
