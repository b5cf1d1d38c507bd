CONSTANTS
  p1 = p1 p2 = p2 a1 = a1 a2 = a2
  Psis = {p1} Ips = {a1, a2}
  Msgs = {"ReleaseRequest", "Dup", "Deactivated", "Activating", "Release"}
  MaxRef = 2 MaxSend = 2 MaxEvents = 0 MaxRetry = 0
SPECIFICATION FairSpec
PROPERTY RequestAnswered
CHECK_DEADLOCK FALSE
