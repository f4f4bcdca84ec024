SPECIFICATION InvSpec
CONSTANTS
    Products = {rice}
    DashboardRequests = {d1}
    ConversationRequests = {w1}
    OtherRequests = {}
    NoRequest = NoRequest
    MaxInteger = 3
    Quantities <- MCQuantities
    Thresholds <- MCThresholds
    Deltas <- MCDeltas
INVARIANTS
    Balanced
