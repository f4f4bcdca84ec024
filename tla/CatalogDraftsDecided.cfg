SPECIFICATION DraftsSpec
CONSTANTS
    Drafts = {d1}
    Calls = {c1, c2}
    Keys = {}
    Skus = {s1}
    Prices = {p1}
    None = None
PROPERTIES
    DecisionsAreFinal
