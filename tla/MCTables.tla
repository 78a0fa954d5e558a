------------------------------ MODULE MCTables ------------------------------
(* One connection with a database it can attach, two tables of which one has two
   spellings, and the commands that succeed or fail in different ways.         *)
EXTENDS Tables, TLC

MCFolded == [n \in TableNames \cup ColumnNames |->
                CASE n = "T" -> "t" [] n = "A" -> "a" [] OTHER -> n]

\* The byte order of the names.
MCIterated == [S \in SUBSET ColumnNames |->
                  SelectSeq(<<"A", "a", "b">>, LAMBDA n : n \in S)]

int == [type |-> "int", clauses |-> {}]
intKey == [type |-> "int", clauses |-> Opt([k \in {"PrimaryKey", "Check"} |-> ""])]
required == [type |-> "int", clauses |-> Opt([k \in {"NotNull"} |-> ""])]

MCDeclarations == {int, intKey, required}

OnA(n) == ColumnDef(CreateTable(n), "a", int)
OnAB(n) == ColumnDef(OnA(n), "b", required)

MCCreates ==
    {OnA("t"), [OnA("T") EXCEPT !.createIfNotExist = FALSE],
     [OnAB("t") EXCEPT !.temp = TRUE],
     [TableConstraint(OnAB("t"), "PrimaryKey", {"b"}) EXCEPT !.schema = "aux"],
     [OnA("u") EXCEPT !.withoutRowId = TRUE],
     [OnA("t") EXCEPT !.schema = "main", !.temp = TRUE],
     TableConstraint(CreateTable("u"), "Unique", {"a"}),
     OnA("sqlite_t"), OnA("")}
=============================================================================
