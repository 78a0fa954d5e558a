\* A caller that keeps its buffers while they are bound, as the tests do.
CONSTANTS
    Params = {p1, p2}
    Buffers = {b1, b2}
    Values = {v1, v2}
    Null = Null
    BindTypes = {"Copy", "Static"}
    KeepsBuffers = TRUE
SYMMETRY Symmetry
SPECIFICATION Spec
INVARIANTS
    TypeOK
    RowsMatchBindings
PROPERTIES
    BindFailsOnlyOnError
    ImplementsBoundCommand
