SPECIFICATION SteadySpec
CONSTANTS
    n1 = n1
    n2 = n2
    n3 = n3
    n4 = n4
    noNode = noNode
    nil = nil
    Node = {n1, n2, n3}
    Bootstrap = {n1, n2}
    Value = {}
    NoNode = noNode
    Nil = nil
    MaxTerm = 2
    MaxLogLen = 0
    MaxRpcs = 1
    MaxLate = 0
    CatchUpThreshold = 2
    MaxChanges = 3
VIEW ChangeView
CHECK_DEADLOCK FALSE
INVARIANTS
    MembershipTypeOK
    
    TermInv
    
    LogMatching
    StateMachineSafety
PROPERTIES
    CommittedNeverLost
    RemovedNeverElected
    CommitBacked
