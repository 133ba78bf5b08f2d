CONSTANTS
    Orders = {o1}
    Variants = {v1}
    v1 = v1
    Links = {l1, l2}
    NoOrder = NoOrder
    NoLink = NoLink
    MaxQty = 2
    Limit = 1
    TotalOf <- MCTotal
    Supply <- MCSupply
    Handlers = {h1}
    Requests <- ReviewedAmendment
    MaxRequests = 3
    MaxCrashes = 0
    Answers <- AllAnswers
SPECIFICATION Spec
SYMMETRY Symmetric
CHECK_DEADLOCK FALSE
INVARIANTS
    ReviewedBeforePaid
