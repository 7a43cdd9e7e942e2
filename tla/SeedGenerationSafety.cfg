SPECIFICATION Spec
CONSTANTS
    NaN = NaN
    NoIndex = NoIndex
    NStations = 3
    StationZ <- MCStationZ
    ZWindow = 3
    IndexRange = 4
    TimeWindow = 5
    MaxHits = 4
    Spills <- MCSpills
INVARIANTS
    TypeOK
    LinksResolve
    SeedsBelowCursor
    SeedsAreAllPairs
