SPECIFICATION RivalsSpec
CONSTANTS
    n1 = n1
    n2 = n2
    n3 = n3
    n4 = n4
    noNode = noNode
    nil = nil
    Node = {n1, n2, n3, n4}
    Bootstrap = {n1, n2, n3, n4}
    Value = {}
    NoNode = noNode
    Nil = nil
    MaxTerm = 3
    MaxLogLen = 0
    MaxRpcs = 1
    MaxLate = 0
    CatchUpThreshold = 2
    MaxChanges = 1
VIEW ChangeView
CHECK_DEADLOCK FALSE
INVARIANTS
    StateMachineSafety
