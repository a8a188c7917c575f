SPECIFICATION Spec
CONSTANTS
    s1 = s1
    s2 = s2
    t1 = t1
    Run = {r1, r2}
    NumFiles = 2
    Parsed = {1}
    Content = {t1, t2}
    Text = {t1, t2}
    Setting = {s1, s2}
    Catalog = {c1}
    None = none
    Requests <- MCRequests
    Trees <- MCTrees
    MaxEdits = 2
INVARIANTS
    ContentIsAnalyzed
