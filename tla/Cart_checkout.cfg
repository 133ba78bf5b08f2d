CONSTANTS
    Carts = {c1, c2}
    Orders = {o1, o2}
    NoCart = NoCart
    NoOrder = NoOrder
    Handlers = {h1, h2}
    Failures <- Recovered
    MaxTaps = 5
    MaxCrashes = 1
SPECIFICATION Spec
SYMMETRY Symmetric
CHECK_DEADLOCK FALSE
INVARIANTS
    TypeOK
    BoughtOnce
    OneHolder
    SoldIsClosed
PROPERTIES
    CheckoutIsOneStep
