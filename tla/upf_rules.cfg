CONSTANTS
  n1 = n1 n2 = n2 s1 = s1 s2 = s2 p1 = p1 p2 = p2 u1 = u1 r1 = r1
  NodeIDs = {n1} RSEIDs = {s1} PDRs = {p1, p2} URRs = {u1} Rules = {r1}
  MaxSess = 1 MaxNodes = 2 MaxIEs = 2 MaxSeq = 2 Flaky = {p1} Takeover = FALSE
SPECIFICATION Spec
INVARIANTS KernelMatchesTables 
PROPERTIES SetupClearsNode FailedRemovalKept
CHECK_DEADLOCK FALSE
