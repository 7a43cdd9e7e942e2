\* Containers of up to three of eighteen identifiers, every query; field lookups at
\* coordinates inside, on and beyond each bound of the map.
CONSTANTS
    VolumeRange = 3
    LayerRange = 3
    SensitiveRange = 2
    MaxElements = 3
    Infinity = 1000
    NaN = NaN
    Coordinates <- MCCoordinates
SPECIFICATION MCSpec
INVARIANTS
    GroupsAreWhole
    FieldIsSafe
PROPERTY
    SelectionIsExact
