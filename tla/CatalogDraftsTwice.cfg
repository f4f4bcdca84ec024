SPECIFICATION DraftsSpec
CONSTANTS
    Drafts = {d1}
    Calls = {c1, c2}
    Keys = {}
    Skus = {s1, s2}
    Prices = {p1}
    None = None
SYMMETRY DraftsSymmetry
INVARIANT OneProductPerDraft
