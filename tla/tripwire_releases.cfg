SPECIFICATION FairSpec
CONSTANTS
    s1 = s1
    Run = {r1, r2}
    Ref = {1, 2}
    Sig = {s1}
    Unit = 2
    Ratio <- MCRatio
    Inputs <- MCTagInputs
    Past <- MCPast
INVARIANTS
    ReleasesNeverLower
