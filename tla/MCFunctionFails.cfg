\* A registration that SQLite refuses.
CONSTANTS
    Objects = {o1}
    Names = {n1}
    Sigs = {g1}
    None = None
SPECIFICATION Spec
INVARIANTS
    DeletedOnce
