SPECIFICATION Spec
CONSTANTS
    w1 = w1
    w2 = w2
    Workers = {w1, w2}
    CompNs = {1}
    Comps <- MCDownlinkOnly
    UpFlows = {"u1", "u3"}
    UeQos = {}
    Aggregate <- MCAggregate
    MaxReq = 3
    Sponsored = FALSE
INVARIANT AggregateHeld
CHECK_DEADLOCK FALSE
