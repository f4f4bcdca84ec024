SPECIFICATION MCShopSpec
CONSTANTS
    rice = rice
    x1 = x1
    p1 = p1
    o1 = o1
    o2 = o2
    Products = {rice}
    OrderIds = {o1, o2}
    Lines <- MCLines
    DashboardRequests = {d1}
    ConversationRequests = {}
    OrderRequests = {t1}
    OtherRequests = {t1}
    NoRequest = NoRequest
    NoOrder = NoOrder
    MaxInteger = 3
    Quantities <- MCQuantities
    Thresholds <- MCThresholds
    Deltas <- MCDeltas
    OldPayments = {x1, x2}
    PaymentRequests = {p1, p2}
    Keys = {}
    NoKey = NoKey
    Refs = {g1}
    NoRef = NoRef
    NoPayment = NoPayment
    ReadRequests = {m1}
INVARIANTS
    NotificationsAreTrue
PROPERTIES
    NoEventVanishes
    LifecycleSpec
    PublishersAnswered
