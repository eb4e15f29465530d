SPECIFICATION Spec
CONSTANTS
    n1 = n1
    n2 = n2
    n3 = n3
    Node <- MCNode
    Legacy <- MCLegacy
    NoNode = NoNode
    MaxTerm = 2
    MaxRound <- MCMaxRound
PROPERTY
    LeaderGrantsNoPreVote
CHECK_DEADLOCK FALSE
