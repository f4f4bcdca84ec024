SPECIFICATION MCInvoicesSpec
CONSTANTS
    OrderIds = {o1, o2}
    Generations = {g1, g2}
    Downloads = {w1}
    Years = {y1, y2}
    None = None
INVARIANTS
    InvoicesTypeOK
    GapFreeNumbers
    InvoicedOrdersArePaid
    NoFakeReference
PROPERTIES
    BookSpec
    GenerationsEnd
