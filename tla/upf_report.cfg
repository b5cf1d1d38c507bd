CONSTANTS
  u1 = u1 u2 = u2 p1 = p1 p2 = p2
  Urrs = {u1, u2} Periods = {p1} EvtLen = 2 SrLen = 1 QLen = 1 Shutdown = TRUE
SPECIFICATION Spec
INVARIANTS TypeOK PerioFollows TickerPerGroup OnlyFullChannelsBlock 
CHECK_DEADLOCK FALSE
SYMMETRY Symmetry
