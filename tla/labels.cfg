SPECIFICATION Spec
CONSTANTS
    pa = pa  pb = pb
    Ip <- OneIp
    Isp = {"telecom", "unicom"}
    Region <- TwoColos
    Rows <- FastRow
    Paths <- SomePaths
    MinSpeed = 10
    MaxLatency = 100
    MaxJitter = 100
    TopN = 1
    SpeedRequired = TRUE
    RouteQualityEnabled = TRUE
    Interval = 1
    TraceTopN = 1
    RecordsPerLine = 1
    MaxTime = 1
    MaxExport = 1
    MaxTrace = 1
    MaxRelabel = 2
    MaxSent = 2
    MaxFault = 1
    ScoredRows <- RowsAtLimits
    ScoredLabels <- BothLabels
    SomeAnswers <- FewCountries
INVARIANTS
    TypeOK
    LabelsAreEarned
PROPERTIES
    LabelsNeverGoBack
CHECK_DEADLOCK FALSE
