SPECIFICATION FairSpec
CONSTANTS
    a = a
    b = b
    scope = scope
    leaky = leaky
    bad = bad
    p1 = p1
    p2 = p2
    p3 = p3
    f = f
    g = g
    Proc <- MCProc
    Cand <- MCCand
    Fixture <- MCFixture
    Job <- MCJob
    Given <- MCGiven
    Holds <- MCHolds
    Patched <- MCPatched
    OutOfScope <- MCOutOfScope
    Conflict <- MCConflict
INVARIANTS
    RelandingIsNoop
