CONSTANTS
  n1 = n1 n2 = n2 s1 = s1 s2 = s2 p1 = p1 p2 = p2 u1 = u1 r1 = r1
  NodeIDs = {n1, n2} RSEIDs = {s1, s2} PDRs = {p1} URRs = {} Rules = {}
  MaxSess = 3 MaxNodes = 2 MaxIEs = 0 MaxSeq = 0 Flaky = {} Takeover = TRUE
SPECIFICATION Spec
INVARIANTS TypeOK FreeListExact OwnerAgrees
PROPERTY LiveSessionKept
CHECK_DEADLOCK FALSE
