SPECIFICATION FairSpec
CONSTANTS
    A = A
    B = B
    Neutral = Neutral
    Bright = Bright
    Healed = Healed
    NoFile = NoFile
    NoEdit = NoEdit
    Files = {A, B}
    Edits = {Neutral, Healed}
    Plain = Neutral
    DevelopOf <- MCDevelopOf
    Fills <- MCFills1
    Device = TRUE
    Asks = {}
    MaxActs = 2
PROPERTIES
    BusyEnds
    FillsEnd
    StopEnds
    SaveIsAnswered
    NewestWins
CHECK_DEADLOCK FALSE
