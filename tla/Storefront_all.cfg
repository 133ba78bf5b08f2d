CONSTANTS
    w1 = w1  w2 = w2  m1 = m1  m2 = m2
    Deliveries = {w1, w2}
    Messages = {m1, m2}
    OrderKeys = {x1}
    NoKey = NoKey
    Carried <- MCCarried
    MaxConvs = 2
    MaxAgentOrders = 1
    MaxFaults = 1
    Variants = {v1, v2}
    Absent = Absent
    Alone = {v1}
    MaxOrders = 2
    p1 = p1  p2 = p2  p3 = p3  gown = gown  gift = gift  red = red
    Products = {p1, p2, p3}
    Words = {gown, gift}
    Colours = {red}
    Prices = {1, 2}
    None = None
    CoreWords = {gown}
    Text <- MCText
    Category <- MCCategory
    VariantsOf <- MCVariantsOf
    Related <- MCRelated
    Limit = 2
    Sayings <- MCSayings
    MaxTurns = 3
    k1 = k1  k2 = k2
    Makers = {k1, k2}
    Kinds <- MCKinds
    Senders = {a1}
    Orders = {o1}
    MaxOpps = 2
    MaxTries = 2
    Changers = {g1, g2}
    Untracked = Untracked
    MaxStock = 2
    LowStock = 1
    r1 = r1  r2 = r2  n1 = n1  s1 = s1
    Rows = {r1, r2}
    Names = {n1, n2}
    Skus = {s1}
    NoSku = NoSku
    Files <- MCFiles
    Commits = {b1, b2}
    MaxEdits = 1
SPECIFICATION Spec
CHECK_DEADLOCK FALSE
INVARIANTS
    StorefrontTypeOK
    HandledOnce
    PromptHasItsItem
    WithinBudget
    FunnelIsTrue
    OneLiveNudge
    OneActiveAlert
    RowsImportedOnce
PROPERTIES
    FollowedUp
    AddressIsFresh
    AlternativesAreNew
