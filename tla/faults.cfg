SPECIFICATION Spec
CONSTANTS
    i1 = i1  s1 = s1  pa = pa  pb = pb  a1 = a1  a2 = a2  h1 = h1  h2 = h2
    Isp <- OneIsp
    Seg <- OneSeg
    Ip <- OneIp
    CidrOf <- AllInS1
    SampleIp <- OneIp
    Agent = {a1}
    IspOf <- AllServeI1
    Handler = {h1}
    BatchSize = 1
    MayLose = TRUE
    ClaimLimit = 1
    MaxRound = 1
    MaxSpeed = 2
    MayGoStale = TRUE
    MayGoOld = FALSE
    MaxCrash = 1
INVARIANTS
    TypeOK
    AliveHasEvidence
    SilentIsExhaustive
    OneActiveSpeedTask
    InductiveInv
PROPERTIES
    QueueIsWorkQueue
