SPECIFICATION Spec
CONSTANTS
    i1 = i1  s1 = s1  pa = pa  pb = pb  a1 = a1  a2 = a2  h1 = h1  h2 = h2
    Isp <- OneIsp
    Seg <- OneSeg
    Ip <- TwoIps
    CidrOf <- AllInS1
    SampleIp <- OneIp
    Agent = {a1}
    IspOf <- AllServeI1
    Handler = {h1}
    BatchSize = 1
    MayLose = FALSE
    ClaimLimit = 1
    MaxRound = 1
    MaxSpeed = 0
    MayGoStale = FALSE
    MayGoOld = FALSE
    MaxCrash = 0
INVARIANTS
    ExpandedHitsAreCandidates
