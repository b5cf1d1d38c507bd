SPECIFICATION Spec
CONSTANTS
    w1 = w1
    w2 = w2
    Workers = {w1, w2}
    CompNs = {1, 2}
    Comps <- MCMatched
    UpFlows = {"u1", "u3"}
    UeQos <- MCUeQos
    Aggregate <- MCAggregate
    MaxReq = 3
    Sponsored = TRUE
INVARIANTS TypeOK NoOverReservation
PROPERTY RuleNeverReborn
SYMMETRY Symmetry
CHECK_DEADLOCK FALSE
