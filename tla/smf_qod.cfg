SPECIFICATION FairSpec
CONSTANTS
    InitRules = {1, 2}
    AfRules = {11, 12}
    InfluenceRules = {}
    BadRules = {}
    DefRule = 0
    Qos = {5, 11, 12}
    NoQos = 0
    SharedQos = 5
    Gbr = {12}
    Rates = {10, 20}
    AmbrRate = 99
    PathIds = {1,2,3,4,5,6,7,8,9,10,11,12}
    QerIds = {1,2,3,4,5,6,7}
    MaxQFI = 7
    Sequential = TRUE
    LossyN4 = FALSE
    PartialPcf = FALSE
    RefQos <- MCRefQos
    InitQos <- MCInitQos
INVARIANT UpfMatchesPool
INVARIANT RatesInstalled
INVARIANT QerRemovalUnshared
INVARIANT NoOrphanPath
INVARIANT RulesConverge
PROPERTY DeletedRuleGone
