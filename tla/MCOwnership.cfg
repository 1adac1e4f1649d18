SPECIFICATION Spec
CONSTANTS
    N = 3
    Macs = {"mac1", "mac2"}
    Ips = {"ip1"}
    MacOf <- SmallMac
    MacsIn <- SmallMacsIn
    IpOf <- SmallIp
    Size <- SmallSize
    Within <- SmallWithin
    Terms <- SmallTerms
    Before <- SmallBefore
    GenericNames <- Generic
    RootTerms <- Roots
    MaxSuggestions = 2
    Written = {"MAC1", "not-a-mac"}
    Entries <- SmallEntries
    ClientNames <- Names
    Areas = {"kitchen"}
    None = None
INVARIANTS
    TypeOK
    MatchHasOneOwner
    ConfirmationsInForce
    BestIsSuggested
    SuggestionsHaveEvidence
