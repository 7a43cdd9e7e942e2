SPECIFICATION Spec
CONSTANTS
    NaN = NaN
    NoIndex = NoIndex
    NStations = 3
    StationZ <- MCStationZ
    ZWindow = 3
    IndexRange = 4
    TimeWindow = 5
    MaxHits = 2
    Spills <- MCSpills
INVARIANTS
    SeedsAreForwardGoing
