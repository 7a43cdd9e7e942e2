\* Two spills of at most one seed.
CONSTANTS
    Files <- MCFiles
    Existing <- MCExisting
    NSpills = 2
    MaxSeeds = 1
    NTracks <- MCNTracks
    Slices <- MCSlices
SPECIFICATION MCJobSpec
INVARIANTS
    WritersExist
    SameProducts
    OutputsDifferIfComparable
    CleanJobIsComplete
PROPERTIES
    LedgerSpec
    JobEnds
