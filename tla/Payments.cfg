SPECIFICATION Spec
CONSTANTS
    rice = rice
    Products = {rice}
    OrderIds = {o1, o2}
    Lines <- MCLines
    DashboardRequests = {d1}
    ConversationRequests = {}
    OrderRequests = {t1}
    OtherRequests = {t1}
    NoRequest = NoRequest
    NoOrder = NoOrder
    MaxInteger = 3
    Quantities <- MCQuantities
    Thresholds <- MCThresholds
    Deltas <- MCDeltas
    OldPayments = {x1, x2}
    PaymentRequests = {p1, p2}
    Keys = {k1}
    NoKey = NoKey
    Refs = {g1}
    NoRef = NoRef
    NoPayment = NoPayment
CONSTRAINT AdjustmentLast
INVARIANTS
    TypeOK
    PaymentLockDiscipline
    OneSuccessPerOrder
    RefBacksOnePayment
    KeyNamesOnePayment
    PaidOrdersHaveMoney
PROPERTIES
    SettledIsFinal
SYMMETRY MCSymmetry
