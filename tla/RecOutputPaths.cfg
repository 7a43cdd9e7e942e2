\* The same configurations, without the restriction to comparable paths.
CONSTANTS
    Files <- MCFiles
    Existing <- MCExisting
SPECIFICATION Spec
INVARIANT
    OutputsDiffer
