SPECIFICATION Spec
CONSTANTS
    Threshold = 90
    HighDuration = 2
    UptimeTolerance = 2
    None = None
    Busy <- BusySamples
    FirstUptimes <- UptimeSamples
    MaxTime = 4
    MaxObs = 4
INVARIANTS
    TypeOK
    TrackerConsistent
    HighHasEvidence
    SustainedIsReported
PROPERTIES
    RebootIsReal
    KeepsPromise
