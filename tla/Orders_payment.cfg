CONSTANTS
    Orders = {o1, o2}
    Variants = {v1}
    v1 = v1
    Links = {l1, l2}
    NoOrder = NoOrder
    NoLink = NoLink
    MaxQty = 2
    Limit = 1
    TotalOf <- MCTotal
    Supply <- MCSupply
    Handlers = {h1, h2}
    Requests <- PaymentPath
    MaxRequests = 4
    MaxCrashes = 1
    Answers <- Configured
SPECIFICATION Spec
SYMMETRY SymmetricOrders
CHECK_DEADLOCK FALSE
INVARIANTS
    NeverOversold
    OneLinkOffered
    ReviewedBeforePaid
