CONSTANTS
  p1 = p1 p2 = p2 a1 = a1 a2 = a2
  Psis = {p1, p2} Ips = {a1, a2}
  Msgs = {"ReleaseRequest", "Dup", "Deactivated", "Release"}
  MaxRef = 2 MaxSend = 1 MaxEvents = 1 MaxRetry = 1
SPECIFICATION Spec
INVARIANTS TypeOK UeIpAccounting PolicyEnds  NoOrphanSession
PROPERTY StraysOnlyStale
CHECK_DEADLOCK FALSE
SYMMETRY Symmetry
