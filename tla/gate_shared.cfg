SPECIFICATION FairSpec
CONSTANTS
    t1 = t1
    t2 = t2
    s1 = s1
    s2 = s2
    Run = {r1, r2}
    Tree = {t1, t2}
    Sig = {s1, s2}
    Inputs <- MCInputs
INVARIANTS
    SameInputsSameOutcome
