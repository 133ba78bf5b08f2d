CONSTANTS
    Carts = {c1, c2}
    Orders = {o1, o2}
    NoCart = NoCart
    NoOrder = NoOrder
    Handlers = {h1}
    Failures <- FailureKinds
    MaxTaps = 5
    MaxCrashes = 0
SPECIFICATION Spec
SYMMETRY Symmetric
CHECK_DEADLOCK FALSE
INVARIANTS
    BoughtOnce
