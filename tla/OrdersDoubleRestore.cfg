SPECIFICATION MCCancellations
CONSTANTS
    rice = rice
    Products = {rice}
    OrderIds = {o1}
    Lines <- MCLines
    DashboardRequests = {}
    ConversationRequests = {}
    OrderRequests = {t1, t2}
    OtherRequests = {t1, t2}
    NoRequest = NoRequest
    NoOrder = NoOrder
    MaxInteger = 3
    Quantities <- MCQuantities
    Thresholds <- MCThresholds
    Deltas <- MCDeltas
    OldPayments = {}
    PaymentRequests = {}
    Keys = {}
    NoKey = NoKey
    Refs = {}
    NoRef = NoRef
    NoPayment = NoPayment
INVARIANTS
    StockHeldOnce
