SPECIFICATION MCDraftsSpec
CONSTANTS
    Drafts = {d1, d2}
    Calls = {c1, c2, c3}
    Keys = {k1}
    Skus = {s1, s2}
    Prices = {p1}
    None = None
INVARIANTS
    DraftsTypeOK
    ApprovedHasItsProduct
    OneDraftPerKey
    NoProductIsForgotten
PROPERTIES
    PendingIsAnswered
    SerialApprovals
