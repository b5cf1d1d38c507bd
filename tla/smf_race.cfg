SPECIFICATION FairSpec
CONSTANTS
    InitRules = {}
    AfRules = {11, 12}
    InfluenceRules = {}
    BadRules = {}
    DefRule = 0
    Qos = {5, 11, 12}
    NoQos = 0
    SharedQos = 5
    Gbr = {12}
    Rates = {10}
    AmbrRate = 99
    PathIds = {1,2,3,4,5,6,7,8,9,10,11,12}
    QerIds = {1,2,3,4,5,6,7}
    MaxQFI = 6
    Sequential = FALSE
    LossyN4 = FALSE
    PartialPcf = FALSE
    RefQos <- MCRefQos
    InitQos <- MCInitQos
PROPERTY EventuallyInstalled
