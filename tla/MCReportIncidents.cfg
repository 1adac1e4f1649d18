SPECIFICATION Spec
CONSTANTS
    Radios <- SmallRadios
    Answers <- SmallAnswers
    Discoveries <- SmallDiscoveries
    Causes <- NoneElse
    LastInFull = {TRUE}
    Utilization <- SmallUtilization
    Threshold = 90
    StatesOrder <- SmallStatesOrder
    MaxTime = 5
    Unavailable = Unavailable
    Unknown = Unknown
    None = None
INVARIANTS
    IncidentsAreReported
