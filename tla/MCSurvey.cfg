SPECIFICATION FairSpec
CONSTANTS
    N = 3
    Target = 2
    Family <- SmallFamily
    DevicesOf <- SmallDevices
    BssOf <- SmallBss
    Air <- SmallAir
    Surveys <- SmallSurveys
    Others <- SmallOthers
    MaxNetworks = 2
    None = None
    Invalid = Invalid
INVARIANTS
    TypeOK
    StrongestAreStored
PROPERTIES
    OnlyOwnersReclassify
    SurveysAreStored
    RadiosKeepPlace
    SurveysArrive
