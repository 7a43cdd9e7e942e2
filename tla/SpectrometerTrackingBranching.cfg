SPECIFICATION TrackingSpec
CONSTANTS
    NaN = NaN
    NoIndex = NoIndex
    NStations = 4
    StationZ <- MCStationZ
    ZWindow = 3
    IndexRange = 8
    TimeWindow = 5
    MinHits = 4
    Predictions <- MCPredictions
    Spills <- MCSpills
INVARIANTS
    EveryCandidateIsKept
