SPECIFICATION OrdersFairSpec
CONSTANTS
    rice = rice
    dal = dal
    o1 = o1
    o2 = o2
    Products = {rice, dal}
    OrderIds = {o1, o2}
    Lines <- MCLines
    DashboardRequests = {d1}
    ConversationRequests = {}
    OrderRequests = {t1, t2}
    OtherRequests = {t1, t2}
    NoRequest = NoRequest
    NoOrder = NoOrder
    MaxInteger = 3
    Quantities <- MCQuantities
    Thresholds <- MCThresholds
    Deltas <- MCDeltas
INVARIANTS
    OrderLockDiscipline
PROPERTIES
    LedgerSpec
    WholeOrderMoves
    OrdersAnswered
