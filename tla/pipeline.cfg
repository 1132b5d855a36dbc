SPECIFICATION Spec
CONSTANTS
    Resolvers = {r1, r2}
    Owners = {"q", "c", "e"}
    QName = "q"
    MaxHops = 1
    FailedRetry = 1
    NegativeMin = 1
    NegativeMax = 3
    Null = Null
    Responses <- MCResponses
    k1 = k1
    k2 = k2
    g1 = g1
    Domains = {d1, d2}
    Addresses = {a1}
    Holds <- OneAddress
    Keys = {k1, k2}
    Regions = {g1}
    Places <- TwoPlaces
    RegionsAt <- Coverage
    ApiConcurrency = 2
    AnycastLookup = TRUE
SYMMETRY Symmetry
INVARIANTS
    OutcomeJustified
    NoRefusedLookup
    PlacedWhereItIs
PROPERTIES
    RegionKept
