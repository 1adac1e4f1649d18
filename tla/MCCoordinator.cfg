SPECIFICATION FairSpec
CONSTANTS
    Threshold = 90
    HighDuration = 1
    UptimeTolerance = 1
    None = None
    Radios = {r1, r2}
    Samples <- SnapshotSamples
    ProbeIds = {couchcast}
    Reports = {old, new}
    Interval = 2
    DiscoveryInterval = 3
    ReportGap = 3
    MaxAge = 3
INVARIANTS
    TypeOK
    ProbesKept
    LastSuccessMatches
    TrackersFollowData
PROPERTIES
    ReplayOnlyRaisesHigh
    EntitiesKeepPromise
    PollsRecur
    DiscoveryRecurs
