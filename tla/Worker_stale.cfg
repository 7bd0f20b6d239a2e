SPECIFICATION Spec
CONSTANTS
    A = A
    B = B
    Neutral = Neutral
    Bright = Bright
    Healed = Healed
    NoFile = NoFile
    NoEdit = NoEdit
    Files = {A, B}
    Edits = {Neutral, Healed}
    Plain = Neutral
    DevelopOf <- MCDevelopOf
    Fills <- MCFills
    Device = FALSE
    Asks = {}
    MaxActs = 3
INVARIANT ScreenIsCurrentFrame
SYMMETRY FramesAlike
CHECK_DEADLOCK FALSE
