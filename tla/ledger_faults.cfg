CONSTANTS
    a = a  b = b
    Torn = Torn
    NoProc = NoProc
    Proc = {p1, p2, p3}
    Body = {a, b}
    Plans <- MCPlans
SPECIFICATION FairSpec
INVARIANTS
    TypeOK
    ChainToTheTail
    NoDuplicateNeighbours
    AckedUnlessUnreadable
PROPERTIES
    UnreadableIsFinal
    ImplementsShared
    EveryInvocationEnds
