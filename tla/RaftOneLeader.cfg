SPECIFICATION EngineSpec
CONSTANTS
    n1 = n1
    n2 = n2
    Node = {n1, n2, n3}
    Legacy = {}
    NoNode = NoNode
    MaxTerm = 2
    MaxRound <- MCMaxRound
    Command = {a}
    NoSnapshot = NoSnapshot
    Candidates = {n1, n2}
    MaxIndex = 1
    MaxSnapshots = 0
    MaxCrashes = 0
SYMMETRY Symmetry
INVARIANT
    OneLeaderPerTerm
CHECK_DEADLOCK FALSE
