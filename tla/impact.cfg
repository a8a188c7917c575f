SPECIFICATION Spec
CONSTANTS
    n1 = n1
    n2 = n2
    n3 = n3
    n4 = n4
    Object = {n1, n2, n3, n4}
    None = none
    Impacts <- MCImpacts
    Orders <- MCOrders
    Predictions <- MCPredictions
    Policies <- MCPolicies
INVARIANTS
    TypeOK
    WalkSound
    ImpactExact
    NoSilentLoss
    StrongestRow
    CleanMeansNoGaps
    AllowedIsExplained
    TopologicalOrder
    LeftoverIsStuck
PROPERTIES
    EveryCallEnds
CHECK_DEADLOCK FALSE
