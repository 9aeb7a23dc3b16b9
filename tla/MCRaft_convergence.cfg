SPECIFICATION DivergedSpec
CONSTANTS
    n1 = n1
    n2 = n2
    n3 = n3
    v1 = v1
    noNode = noNode
    nil = nil
    Node = {n1, n2, n3}
    Bootstrap = {n1, n2, n3}
    Value = {v1}
    NoNode = noNode
    Nil = nil
    MaxTerm = 4
    MaxLogLen = 3
    MaxRpcs = 1
    MaxLate = 0
VIEW ReplicationView
CHECK_DEADLOCK FALSE
INVARIANTS
    LogInv
    CommitInv
    LeaderCompleteness
    StateMachineSafety
PROPERTIES
    Converges
