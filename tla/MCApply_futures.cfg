SPECIFICATION FairSpec
CONSTANTS
    c1 = c1
    c2 = c2
    noFuture = noFuture
    nil = nil
    other = other
    Client = {c1, c2}
    FutureId = {1, 2, 3, 4}
    NoFuture = noFuture
    Nil = nil
    Other = other
    MaxTerm = 3
    MaxLogLen = 2
    Stops = TRUE
CHECK_DEADLOCK FALSE
INVARIANTS
    ApplyTypeOK
    MachineInOrder
    NoWaiterForgotten
    NoLeakedFutures
    AnswersAfterApply
PROPERTIES
    CommittedAnswered
    StopEndsApplier
