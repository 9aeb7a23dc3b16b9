SPECIFICATION Spec
CONSTANTS
    n1 = n1
    n2 = n2
    n3 = n3
    v1 = v1
    noNode = noNode
    nil = nil
    Node = {n1, n2, n3}
    Bootstrap = {n1, n2, n3}
    Value = {}
    NoNode = noNode
    Nil = nil
    MaxTerm = 2
    MaxLogLen = 0
    MaxRpcs = 2
    MaxLate = 0
VIEW ElectionView
SYMMETRY NodeSymmetry
CHECK_DEADLOCK FALSE
INVARIANTS
    TypeOK
    ElectionInv
    OneVotePerTerm
    ElectionSafety
