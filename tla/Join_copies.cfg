SPECIFICATION FairSpec
CONSTANTS
    History = 3
    HashRank <- MCHashRank
    Machines = {1, 2}
    Skew <- MCSkew
    Looks <- MCLooks
    Ratings <- MCRatings
    MaxActs <- MCActs
INVARIANTS
    TypeOK
    JoinsAgree
    OnlyCapLoses
    OneUndoAway
    CapKeepsOwn
    JoinGoesAhead
    RejoinsTheSame
    AheadKnowsAll
PROPERTIES
    SavesSpread
    KeptOrPutAside
    Converges
CHECK_DEADLOCK FALSE
