SPECIFICATION Spec
CONSTANTS
    rice = rice
    Products = {rice}
    OrderIds = {o1}
    Lines <- MCLines
    DashboardRequests = {}
    ConversationRequests = {}
    OrderRequests = {t1}
    OtherRequests = {t1}
    NoRequest = NoRequest
    NoOrder = NoOrder
    MaxInteger = 3
    Quantities <- MCQuantities
    Thresholds <- MCThresholds
    Deltas <- MCDeltas
    OldPayments = {x1}
    PaymentRequests = {p1}
    Keys = {}
    NoKey = NoKey
    Refs = {g1}
    NoRef = NoRef
    NoPayment = NoPayment
INVARIANTS
    MoneyMatchesStatus
