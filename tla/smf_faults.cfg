SPECIFICATION Spec
CONSTANTS
    InitRules = {3}
    AfRules = {11, 12}
    InfluenceRules = {21}
    BadRules = {21}
    DefRule = 3
    Qos = {11, 12}
    NoQos = 0
    SharedQos = 5
    Gbr = {12}
    Rates = {10, 20}
    AmbrRate = 99
    PathIds = {1,2,3,4,5,6,7,8}
    QerIds = {1,2,3,4,5,6}
    MaxQFI = 2
    Sequential = TRUE
    LossyN4 = TRUE
    PartialPcf = TRUE
    RefQos <- MCRefQos
    InitQos <- MCInitQos
INVARIANT TypeOK
INVARIANT QerMapLive
INVARIANT AmbrInstalled
