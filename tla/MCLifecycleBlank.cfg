\* A command without a statement leaves a registration behind.
CONSTANTS
    Stmts = {s1, s2}
    Commands = {"sql", "blank"}
SPECIFICATION Spec
INVARIANTS
    NoUseAfterFree
CHECK_DEADLOCK FALSE
