CONSTANTS
  Reqs = {1} MaxTx = 1 SeqMod = 16
  RetransTimeout = 2 MaxRetrans = 3 MaxDelay = 1 PeerSpan = 6
SPECIFICATION FairSpec
INVARIANT TypeOK
PROPERTIES ImplementsService TransactionsEnd
CHECK_DEADLOCK FALSE
