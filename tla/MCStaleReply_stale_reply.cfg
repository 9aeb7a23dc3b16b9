SPECIFICATION StaleReplySpec
CONSTANTS
    n1 = n1
    n2 = n2
    n3 = n3
    n4 = n4
    n5 = n5
    v1 = v1
    noNode = noNode
    nil = nil
    Node = {n1, n2, n3, n4, n5}
    Bootstrap = {n1, n2, n3, n4, n5}
    Value = {v1}
    NoNode = noNode
    Nil = nil
    MaxTerm = 4
    MaxLogLen = 3
    MaxRpcs = 2
    MaxLate = 0
VIEW StaleReplyView
CHECK_DEADLOCK FALSE
INVARIANTS
    LeaderCompleteness
