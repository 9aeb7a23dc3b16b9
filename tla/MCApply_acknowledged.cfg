SPECIFICATION Spec
CONSTANTS
    c1 = c1
    c2 = c2
    noFuture = noFuture
    nil = nil
    other = other
    Client = {c1, c2}
    FutureId = {1, 2, 3, 4}
    NoFuture = noFuture
    Nil = nil
    Other = other
    MaxTerm = 2
    MaxLogLen = 3
    Stops = FALSE
SYMMETRY ClientSymmetry
CHECK_DEADLOCK FALSE
INVARIANTS
    AcknowledgedIsApplied
