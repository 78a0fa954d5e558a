\* Two spellings of one table name, a reserved name, and two databases to attach.
CONSTANTS
    TableNames = {"t", "T", "u", "sqlite_t"}
    ColumnNames = {"A", "a", "b"}
    Folded <- MCFolded
    Reserved = {"sqlite_t"}
    Iterated <- MCIterated
    Types = {"int"}
    Declarations <- MCDeclarations
    Creates <- MCCreates
    Files = {"one.db", "two.db", "three.db"}
    MainFile = "one.db"
    Temp = "temp store"
    Schemas = {"aux", "more"}
    MaxAttached = 2
    MaxTables = 2
SPECIFICATION Spec
INVARIANTS
    TypeOK
    CreateReportsDeclaration
    QueriesAgree
    DropLeavesNone
    RenameMoves
PROPERTIES
    DetachedIsGone
    RenameCanBeUndone
