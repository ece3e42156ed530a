CONSTANTS
    installed = installed
    removed = removed
    Map = {m1, m2, m3, m4}
    Key = {k1, k2}
    Data = {installed, removed}
    Removed = removed
    Absent = Absent
    NoMap = NoMap
    Initial <- SomeInitial
SYMMETRY Symmetry
SPECIFICATION Spec
PROPERTIES
    ActLikePlainMaps
CHECK_DEADLOCK FALSE
