\* Three handles, two objects, two geometries, every process mortal.
SPECIFICATION Spec
CONSTANTS
    h1 = h1
    h2 = h2
    h3 = h3
    Handles = {h1, h2, h3}
    Geometries <- SmallAndLarge
    MaxObjects = 2
    Mortal = {h1, h2, h3}
SYMMETRY HandleSymmetry
INVARIANTS
    TypeOK
    GeometryShared
    NamedRingUsable
    NothingLeftBehind
CHECK_DEADLOCK FALSE
