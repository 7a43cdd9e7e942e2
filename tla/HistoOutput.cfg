SPECIFICATION FairSpec
CONSTANTS
    Threads = {t1, t2, t3}
    fitA = fitA
    fitB = fitB
    truth = truth
    Histogrammers <- MCHistogrammers
    Calls <- MCCalls
    TargetOf <- MCTargetOf
    Sizes <- MCSizes
    SpillOf <- MCSpillOf
    MaxFaults = 2
    MaxContextFaults = 1
    NoCall = NoCall
    NoHistogrammer = NoHistogrammer
INVARIANTS
    FillsHaveContexts
    FileIsExact
    ClosedFileIsComplete
PROPERTIES
    Closes
