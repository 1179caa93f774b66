SPECIFICATION Spec
CONSTANTS
    pa = pa  pb = pb
    Ip <- TwoIps
    Isp = {"telecom", "unicom"}
    Region <- TwoColos
    Rows <- TwoRows
    Paths <- SomePaths
    MinSpeed = 10
    MaxLatency = 100
    MaxJitter = 100
    TopN = 1
    SpeedRequired = TRUE
    RouteQualityEnabled = TRUE
    Interval = 1
    TraceTopN = 1
    RecordsPerLine = 1
    MaxTime = 0
    MaxExport = 2
    MaxTrace = 0
    MaxRelabel = 0
    MaxSent = 1
    MaxFault = 2
    ScoredRows <- RowsAtLimits
    ScoredLabels <- BothLabels
    SomeAnswers <- FewCountries
INVARIANTS
    BestIsPublished
    HopsAreLocated
    PublishedIsRecorded
    ExportersFailAlone
PROPERTY
    ReadersSeeBatches
CHECK_DEADLOCK FALSE
