CONSTANTS
    a = a  b = b
    Torn = Torn
    NoProc = NoProc
    Proc = {p1, p2, p3}
    Body = {a, b}
    Plans <- MCPlans
SPECIFICATION FairSpec
PROPERTIES
    AckMeansRecorded
