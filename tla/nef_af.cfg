CONSTANTS
  t1 = t1 t2 = t2 t3 = t3 a1 = a1 a2 = a2 x1 = x1 x2 = x2
  Threads = {t1, t2} Afs = {a1} KnownAfs = {a1} Apps = {x1}
  Ops = {"qosPost", "qosPatch", "qosDelete", "tiPost", "tiPostGroup", "tiPut", "tiPatch",
         "tiDelete", "pfdPost", "pfdPut", "pfdDelete", "pfdDeleteAll", "pfdPutApp",
         "pfdPatchApp", "pfdDeleteApp", "smfNotify"}
  Lossy = TRUE MaxPosts = 2
SPECIFICATION Spec
INVARIANTS TypeOK OnlyLockOrderBlocks 
PROPERTIES DeletedOnlyWithSession PfdsNotForgotten
CHECK_DEADLOCK FALSE
