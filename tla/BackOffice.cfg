SPECIFICATION MCBackSpec
CONSTANTS
    b1 = b1
    n1 = n1
    k1 = k1
    pen = pen
    pens = pens
    Products = {b1}
    DashboardRequests = {}
    ConversationRequests = {w1, w2, w3}
    OtherRequests = {}
    NoRequest = NoRequest
    MaxInteger = 3
    Quantities <- MCQuantities
    Thresholds <- MCThresholds
    Deltas <- MCDeltas
    OldRows = {b1}
    DirRequests = {w1, w2, w3}
    Names = {n1, n2}
    Labels = {pen, pens}
    Null = Null
    Queries <- MCQueries
    NoProduct = NoProduct
    OldTokens = {k1}
    SessionRequests = {w1, w2, w3}
    AccessTTL = 1
    RefreshTTL = 2
    MaxTime = 3
INVARIANTS
    OneLiveRowPerKey
    ReferencesResolve
    EveryBusinessHasOwner
    LastMovementIsQuantity
PROPERTIES
    DeletedStaysDeleted
    ResolutionIsAtomic
    RevokedStaysRefused
SYMMETRY Symmetry
