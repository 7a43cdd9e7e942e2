\* Every geometry of four volumes, two stations.
CONSTANTS
    Volumes <- MCVolumes
    World = 1
    NumStations = 2
    Geometries <- MCGeometries
    Margin = 1
SPECIFICATION FairSpec
INVARIANTS
    StationsArePlaced
    ContainerSpansStations
    CleanExitOnceProvided
PROPERTIES
    RefusedIfMissing
    Ends
