SPECIFICATION Spec
CONSTANTS
    History = 3
    HashRank <- MCHashRank
    Machines = {1, 2, 3}
    Skew <- MCNoSkew
    Looks <- MCLooksOfThree
    Ratings <- MCRatingsOfThree
    MaxActs <- MCActsOfThree
INVARIANTS
    RatingStands
CHECK_DEADLOCK FALSE
