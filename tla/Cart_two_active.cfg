CONSTANTS
    Carts = {c1, c2}
    Orders = {o1, o2}
    NoCart = NoCart
    NoOrder = NoOrder
    Handlers = {h1, h2}
    Failures <- FailureKinds
    MaxTaps = 2
    MaxCrashes = 0
SPECIFICATION Spec
SYMMETRY Symmetric
CHECK_DEADLOCK FALSE
INVARIANTS
    OneActiveCart
