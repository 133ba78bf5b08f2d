CONSTANTS
    Orders = {o1}
    Variants = {v1}
    v1 = v1
    Links = {l1, l2}
    NoOrder = NoOrder
    NoLink = NoLink
    MaxQty = 2
    Limit = 1
    TotalOf <- MCTotal
    Supply <- MCSupply
    Handlers = {h1, h2}
    Requests <- Kinds
    MaxRequests = 3
    MaxCrashes = 1
    Answers <- Configured
SPECIFICATION Spec
SYMMETRY Symmetric
CHECK_DEADLOCK FALSE
INVARIANTS
    TypeOK
    Strengthening
    NeverOversold
    StockBalances
    ConfirmedOncePerOpening
    ShippedOnlyAfterPaid
PROPERTIES
    TerminalIsFinal
    ConfirmedAtItsTotal
