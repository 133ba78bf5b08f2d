CONSTANTS
    w1 = w1  w2 = w2  m1 = m1
    Deliveries = {w1, w2}
    Messages = {m1}
    OrderKeys = {x1}
    NoKey = NoKey
    Carried <- MCCarried
    MaxConvs = 1
    MaxAgentOrders = 2
    MaxFaults = 0
SPECIFICATION Spec
CHECK_DEADLOCK FALSE
INVARIANTS
    AgentOrdersOnce
