SPECIFICATION Spec
CONSTANTS
    n1 = n1
    n2 = n2
    n3 = n3
    v1 = v1
    noNode = noNode
    nil = nil
    Node = {n1, n2, n3}
    Bootstrap = {n1, n2, n3}
    Value = {v1}
    NoNode = noNode
    Nil = nil
    MaxTerm = 2
    MaxLogLen = 3
    MaxRpcs = 1
    MaxLate = 1
VIEW SafetyView
SYMMETRY NodeSymmetry
CHECK_DEADLOCK FALSE
INVARIANTS
    LogMatching
    MatchIndexSound
    LeaderCompleteness
PROPERTIES
    ImplementsReplicatedLog
