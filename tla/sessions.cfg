SPECIFICATION Spec
CONSTANTS
    b1 = b1 b2 = b2 t1 = t1 t2 = t2 t3 = t3
    Browsers = {b1, b2}
    Tabs = {t1, t2, t3}
    BrowserOf <- TwoTabsAndOne
    MaxTokens = 4
    MaxLost = 1
SYMMETRY Symmetry
INVARIANTS TypeOK TokenRotatesOnce ReuseEndsSessions SessionEndsForAReason
