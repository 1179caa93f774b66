SPECIFICATION Spec
CONSTANTS
    pa = pa  pb = pb
    Ip <- Ips
    Isp = {"telecom", "unicom"}
    Region <- SomeRegions
    Targets <- SomeTargets
    Colo <- SomeColos
    Handshakes <- SomeHandshakes
    Rtt = {1, 2}
    MinSpeed = 200
    MaxLatency = 18
    MaxJitter = 12
    TopN = 1
    SpeedRequired = TRUE
    RouteQualityEnabled = FALSE
    Day = 4
    Lookback = 2
    Window = 1
    Percent = 50
    Scale = 12
    Enough = 2
    MaxBytes = 2
    Timeout = 2
    Slack = 1
    Chunk = 2
    MaxHead = 2
    HeadChunk = 2
    FirstHour = 2
    MaxTime = 5
    MaxRows = 3
    MaxRunning = 1
    MaxHandshakes = 7
    PingTimes = {1, 2, 3}
INVARIANTS
    TypeOK
    DownloadIsBounded
    OperatorsDoNotMix
    CandidatesAreUsable
    FailuresDoNotCount
    PublishedIsAlive
    FastestIsTested
    PingsAreSound
CHECK_DEADLOCK FALSE
