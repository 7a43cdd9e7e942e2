SPECIFICATION FairTrackingSpec
CONSTANTS
    NaN = NaN
    NoIndex = NoIndex
    NStations = 4
    StationZ <- MCStationZ
    ZWindow = 3
    IndexRange = 8
    TimeWindow = 5
    MinHits = 4
    Predictions <- MCPredictions
    Spills <- MCSpills
INVARIANTS
    CandidatesAreWhole
    ResultsFollowCandidates
    OneTrackPerSeed
    OnlyForwardPairsAreFitted
PROPERTIES
    SpillCompletes
