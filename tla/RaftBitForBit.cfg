SPECIFICATION EngineSpec
CONSTANTS
    n1 = n1
    n2 = n2
    Node = {n1, n2}
    Legacy = {}
    NoNode = NoNode
    MaxTerm = 1
    MaxRound <- MCMaxRound
    Command = {a}
    NoSnapshot = NoSnapshot
    Candidates = {n1}
    MaxIndex = 2
    MaxSnapshots = 1
    MaxCrashes = 0
INVARIANT
    RestartBitForBit
CHECK_DEADLOCK FALSE
