SPECIFICATION LedSpec
CONSTANTS
    n1 = n1
    n2 = n2
    n3 = n3
    v1 = v1
    r1 = r1
    noNode = noNode
    nil = nil
    noReader = noReader
    Node = {n1, n2, n3}
    Bootstrap = {n1, n2, n3}
    Value = {v1}
    NoNode = noNode
    Nil = nil
    Reader = {r1}
    NoReader = noReader
    MaxTerm = 2
    MaxLogLen = 4
    MaxRpcs = 2
    MaxLate = 0
    MinElectionTimeout = 1
    LeaderQuorumLivenessTimeout = 1
VIEW ReadView
SYMMETRY FollowerSymmetry
CHECK_DEADLOCK FALSE
INVARIANTS
    LeaseReadsFresh
