\* Three objects for two names with two signatures each.
CONSTANTS
    Objects = {o1, o2, o3}
    Names = {n1, n2}
    Sigs = {g1, g2}
    None = None
SYMMETRY Symmetry
SPECIFICATION Spec
INVARIANTS
    TypeOK
    OwnedBySqlite
    NamesNeedHandle
PROPERTIES
    ImplementsLifetimes
