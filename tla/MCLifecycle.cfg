\* Three addresses and both kinds of SQL text.
CONSTANTS
    Stmts = {s1, s2, s3}
    Commands = {"sql", "blank"}
SYMMETRY Symmetry
SPECIFICATION Spec
INVARIANTS
    TypeOK
    HandlesTracked
    ColumnsNeedStatement
PROPERTIES
    CloseSucceeds
    FailsWhenClosed
    ImplementsContract
\* A destroyed connection with no cursor left is the end of the program.
CHECK_DEADLOCK FALSE
