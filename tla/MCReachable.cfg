SPECIFICATION Spec
CONSTANTS
    Threshold = 90
    HighDuration = 1
    UptimeTolerance = 1
    None = None
    Radios = {r1}
    Samples <- SnapshotSamples
    ProbeIds = {couchcast}
    Reports = {new}
    Interval = 2
    DiscoveryInterval = 3
    ReportGap = 3
    MaxAge = 3
INVARIANT OnMeansAnsweredLatest
