SPECIFICATION InvFairSpec
CONSTANTS
    Products = {rice}
    DashboardRequests = {d1, d2, d3}
    ConversationRequests = {w1}
    OtherRequests = {}
    NoRequest = NoRequest
    MaxInteger = 3
    Quantities <- MCQuantities
    Thresholds <- MCThresholds
    Deltas <- MCDeltas
CONSTRAINT CommandsAlone
INVARIANTS
    InvTypeOK
    LockDiscipline
    LockedCopyIsCurrent
PROPERTIES
    LedgerSpec
    LowStockDecidedAtCommit
    Answered
