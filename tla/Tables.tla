------------------------------- MODULE Tables -------------------------------
(***************************************************************************)
(* The tables of one Connection: the commands that Extension/TableCommand   *)
(* builds, what executing them does to the schemas of main, temp and the    *)
(* attached databases, and what tableExists, allTables, tableInfo and        *)
(* allDatabase of Connection.cpp answer about them.                          *)
(*                                                                          *)
(* SQLite does not tell spellings of a name apart that differ in case; the   *)
(* C++ maps and the text comparisons of the schema queries do.  A name       *)
(* without a schema means temp first, then main, then the attached           *)
(* databases for some statements, and main alone for others.                 *)
(* Every command can also fail and change nothing (a lock, a full disk).     *)
(* Of explicit transactions only what they lock is here: the program runs    *)
(* the commands of TableCommand outside them, so that no ROLLBACK takes a    *)
(* table back.                                                               *)
(* A definition X_Y is X with one plausible slip, Y, in it.                  *)
(***************************************************************************)
EXTENDS Integers, Sequences, FiniteSets

CONSTANTS
    TableNames, ColumnNames,    \* names as they are spelled, none of them empty
    Folded,         \* the form in which SQLite compares a name
    Reserved,       \* the table names that begin with sqlite_
    Iterated,       \* the order in which a std::map visits a set of column names
    Types,          \* type texts of columns
    Declarations,   \* the declarations the program passes to columnDef
    Creates,        \* the CREATE TABLE commands it builds
    Files, MainFile,    \* database files; the connection is made for MainFile
    Temp,           \* where temp tables are kept
    Schemas,        \* the names it attaches databases under
    MaxAttached,    \* SQLITE_MAX_ATTACHED
    MaxTables       \* bound on the tables in all databases

VARIABLES
    open,       \* the connection has a usable handle
    attached,   \* the attached databases, in order
    tables,     \* the tables of each file and of temp, by folded name
    reading,    \* one of the program's queries stands on a row
    transaction,    \* it is between BEGIN and the end of its transaction
    locked,     \* the attached databases SQLite has a transaction open on
    result      \* the Result of the last call that returned one

locks == <<reading, transaction, locked>>

vars == <<open, attached, tables, locks, result>>

AnySchema == Schemas \cup {"main", "temp"}
Stores == Files \cup {Temp}
FoldedTables == {Folded[n] : n \in TableNames}
IsReserved(n) == \E m \in Reserved : Folded[m] = Folded[n]
-----------------------------------------------------------------------------
(* TableCommand: the objects that collect a command.                        *)

ColumnConstraint ==
    {"PrimaryKey", "PrimaryKeyAsc", "PrimaryKeyDesc", "NotNull", "Unique", "Check",
     "Default", "ForeignKey", "Collate"}

\* The column constraints that make a key; AUTOINCREMENT, whose bookkeeping is a table
\* of its own, is left out.
KeyConstraint == {"PrimaryKey", "PrimaryKeyAsc", "PrimaryKeyDesc"}

\* _column::opt leaves out a constraint that needs a text and has none.
Opt(c) == {k \in DOMAIN c : k \in KeyConstraint \cup {"NotNull", "Unique"} \/ c[k] # ""}

\* A type and the clauses after it; the name is the key it is kept under.
ColumnDeclaration == [type : Types \cup {""}, clauses : SUBSET ColumnConstraint]

\* A table constraint is kept as the set of the columns it names.
TableConstraintKind == {"PrimaryKey", "Unique", "Check", "ForeignKey"}

CreateTableCommand(b) ==
    /\ DOMAIN b = {"table", "schema", "temp", "withoutRowId", "createIfNotExist", "columnDef",
                   "tableConstraint"}
    /\ b.table \in TableNames \cup {""} /\ b.schema \in AnySchema \cup {""}
    /\ {b.temp, b.withoutRowId, b.createIfNotExist} \subseteq BOOLEAN
    /\ DOMAIN b.columnDef \subseteq ColumnNames
    /\ \A m \in DOMAIN b.columnDef :
          b.columnDef[m] \in [type : Types, clauses : SUBSET ColumnConstraint]
    /\ DOMAIN b.tableConstraint \subseteq TableConstraintKind
    /\ \A k \in DOMAIN b.tableConstraint : b.tableConstraint[k] \subseteq ColumnNames

CreateTable(n) ==
    [table |-> n, schema |-> "", temp |-> FALSE, withoutRowId |-> FALSE,
     createIfNotExist |-> TRUE, columnDef |-> <<>>, tableConstraint |-> <<>>]

Put(f, k, v) == [j \in DOMAIN f \cup {k} |-> IF j = k THEN v ELSE f[j]]

ColumnDef_KeepsFirst(b, m, d) ==
    IF m = "" \/ d.type = "" \/ m \in DOMAIN b.columnDef
    THEN b
    ELSE [b EXCEPT !.columnDef = Put(b.columnDef, m, d)]

\* columnDef: the last declaration of a name is the one that counts.
ColumnDef(b, m, d) ==
    IF m = "" \/ d.type = "" THEN b ELSE [b EXCEPT !.columnDef = Put(b.columnDef, m, d)]

\* tableConstraintPrimaryKey, -Unique, -Check and -ForeignKey.
TableConstraint(b, kind, columns) ==
    IF columns = {} THEN b ELSE [b EXCEPT !.tableConstraint = Put(b.tableConstraint, kind, columns)]

CheckTablename(n) == n # "" /\ n \notin Reserved

ASSUME TablesAssumption ==
    /\ "" \notin TableNames \cup ColumnNames \cup Types \cup Schemas \cup Files
    /\ {"main", "temp"} \cap Schemas = {}
    /\ Folded \in [TableNames \cup ColumnNames -> TableNames \cup ColumnNames]
    /\ Reserved \subseteq TableNames
    /\ Iterated \in [SUBSET ColumnNames -> Seq(ColumnNames)]
    /\ \A S \in SUBSET ColumnNames :
          /\ {Iterated[S][i] : i \in DOMAIN Iterated[S]} = S
          /\ \A i, j \in DOMAIN Iterated[S] : Iterated[S][i] = Iterated[S][j] => i = j
    /\ Declarations \subseteq ColumnDeclaration
    /\ \A b \in Creates : CreateTableCommand(b)
    /\ MainFile \in Files /\ Temp \notin Files
    /\ MaxAttached \in Nat /\ MaxTables \in Nat

\* A column, as the schema keeps it and tableInfo answers it.
ColumnInfo ==
    [name : ColumnNames, type : Types, nullable : BOOLEAN, defaultValue : BOOLEAN, key : BOOLEAN]

Table == [name : TableNames, columns : Seq(ColumnInfo) \ {<<>>}]
NoTable == [name |-> "", columns |-> <<>>]

\* Every place has at most one table of a folded name, kept under that name.
Catalogue(t) ==
    /\ t \in [Stores -> [FoldedTables -> Table \cup {NoTable}]]
    /\ \A f \in Stores, k \in FoldedTables : t[f][k] # NoTable => Folded[t[f][k].name] = k

AttachedSchemas == {attached[i].schema : i \in DOMAIN attached}

TypeOK ==
    /\ open \in BOOLEAN
    /\ attached \in Seq([schema : Schemas, file : Files \ {MainFile}])
    /\ Len(attached) <= MaxAttached
    /\ \A i, j \in DOMAIN attached : attached[i].schema = attached[j].schema => i = j
    /\ Catalogue(tables)
    /\ reading \in BOOLEAN /\ transaction \in BOOLEAN
    /\ locked \subseteq AttachedSchemas
    /\ result \in {"success", "error"}
-----------------------------------------------------------------------------
(* Where SQLite finds a table.                                              *)

Known(s) == s \in {"main", "temp"} \/ \E i \in DOMAIN attached : attached[i].schema = s

StoreOf(s) ==
    CASE s = "main" -> MainFile
      [] s = "temp" -> Temp
      [] OTHER -> attached[CHOOSE i \in DOMAIN attached : attached[i].schema = s].file

Holds(t, f, n) == t[f][Folded[n]] # NoTable

\* The attached databases that hold a table of this name, by their numbers.
AttachedWith(t, n) == {i \in DOMAIN attached : Holds(t, attached[i].file, n)}

\* The place, if any, where a statement finds the table n.
Find(t, n, s) ==
    IF s # "" THEN {f \in Stores : Known(s) /\ f = StoreOf(s) /\ Holds(t, f, n)}
    ELSE IF Holds(t, Temp, n) THEN {Temp}
    ELSE IF Holds(t, MainFile, n) THEN {MainFile}
    ELSE {attached[i].file : i \in {i \in AttachedWith(t, n) :
                                       \A j \in AttachedWith(t, n) : i <= j}}

\* The place whose sqlite_master a query reads.
Master(s) ==
    IF s = "" THEN {MainFile} ELSE {f \in Stores : Known(s) /\ f = StoreOf(s)}
-----------------------------------------------------------------------------
(* What the schema queries of Connection answer over the tables t, when SQLite *)
(* reads the schema to its end.                                              *)

TableExists_AllOfThem(t, n, s) ==
    /\ open /\ n # ""
    /\ \E f \in Stores, k \in FoldedTables : t[f][k].name = n

TableExists(t, n, s) ==
    /\ open /\ n # ""
    /\ \E f \in Master(s), k \in FoldedTables : t[f][k].name = n

AllTables(t, s) ==
    {n \in TableNames : open /\ \E f \in Master(s), k \in FoldedTables : t[f][k].name = n}

\* tableInfo; the name in it is the one asked for, whether or not there is a table.
TableInfo(t, n, s) ==
    LET found == IF open /\ n # "" THEN Find(t, n, s) ELSE {}
        defs == IF found = {} THEN <<>> ELSE t[CHOOSE f \in found : TRUE][Folded[n]].columns
    IN  [name |-> n, columndefs |-> defs,
         primaryKeys |-> {defs[i].name : i \in {i \in DOMAIN defs : defs[i].key}}]

\* allDatabase, as pairs of name and file.  SQLite lists temp from its first use on; here
\* it is listed while it has tables.
AllDatabase(t) ==
    IF ~open THEN {}
    ELSE {<<"main", MainFile>>}
         \cup {<<attached[i].schema, attached[i].file>> : i \in DOMAIN attached}
         \cup {<<"temp", Temp>> : f \in {f \in {Temp} : AllTables(t, "temp") # {}}}
-----------------------------------------------------------------------------
(* The outcomes of Connection::exec on these commands.                      *)

Failed == [result |-> "error", tables |-> tables]
Done(t) == [result |-> "success", tables |-> t]
With(f, k, table) == [tables EXCEPT ![f][k] = table]

\* The text is a CREATE TABLE statement: without columns it has a bracket or a comma
\* where a column should be, and FOREIGN KEY is no column constraint.
Parses(b) ==
    /\ b.table # "" /\ DOMAIN b.columnDef # {}
    /\ \A m \in DOMAIN b.columnDef : "ForeignKey" \notin b.columnDef[m].clauses
    /\ b.temp => b.schema \in {"", "temp"}

Target(b) == IF b.schema # "" THEN b.schema ELSE IF b.temp THEN "temp" ELSE "main"

\* The primary keys a command declares: one for each clause and one for the constraint.
KeysDeclared(b) ==
    {p \in (DOMAIN b.columnDef) \X KeyConstraint : p[2] \in b.columnDef[p[1]].clauses}
        \cup {<<"", k>> : k \in {"PrimaryKey"} \cap DOMAIN b.tableConstraint}

InKey(b, m) ==
    \/ b.columnDef[m].clauses \cap KeyConstraint # {}
    \/ /\ "PrimaryKey" \in DOMAIN b.tableConstraint
       /\ \E c \in b.tableConstraint["PrimaryKey"] : Folded[c] = Folded[m]

\* SQLite accepts the columns and constraints of a table it has to make.
WellFormed(b) ==
    /\ \A m, n \in DOMAIN b.columnDef : Folded[m] = Folded[n] => m = n
    /\ \A x, y \in KeysDeclared(b) : x = y
    /\ b.withoutRowId => KeysDeclared(b) # {}
    /\ \A k \in DOMAIN b.tableConstraint : \A c \in b.tableConstraint[k] :
          \E m \in DOMAIN b.columnDef : Folded[m] = Folded[c]

Column(m, d, key, nullable) ==
    [name |-> m, type |-> d.type, nullable |-> nullable,
     defaultValue |-> "Default" \in d.clauses, key |-> key]

\* The columns in the order of the map; the key of a table without rowid is NOT NULL.
Declared(b) ==
    LET order == Iterated[DOMAIN b.columnDef]
    IN  [i \in DOMAIN order |->
            LET m == order[i]
                d == b.columnDef[m]
            IN  Column(m, d, InKey(b, m),
                       "NotNull" \notin d.clauses /\ ~(b.withoutRowId /\ InKey(b, m)))]

\* A table that is there already satisfies IF NOT EXISTS, whatever its columns.
Created(b) ==
    LET f == StoreOf(Target(b))
        k == Folded[b.table]
    IN  {Failed} \cup
        IF ~(open /\ Parses(b) /\ Known(Target(b)) /\ ~IsReserved(b.table)) THEN {}
        ELSE IF Holds(tables, f, b.table) THEN IF b.createIfNotExist THEN {Done(tables)} ELSE {}
        ELSE IF WellFormed(b)
        THEN {Done(With(f, k, [name |-> b.table, columns |-> Declared(b)]))}
        ELSE {}

Dropped_IgnoresSchema(n, s, ifExists) ==
    LET found == Find(tables, n, "")
    IN  {Failed} \cup
        IF ~open \/ n = "" THEN {}
        ELSE IF found = {} THEN IF ifExists THEN {Done(tables)} ELSE {}
        ELSE {Done(With(f, Folded[n], NoTable)) : f \in {f \in found : ~reading}}

\* DROP TABLE; SQLite refuses while any query of the connection stands on a row.
Dropped(n, s, ifExists) ==
    LET found == Find(tables, n, s)
    IN  {Failed} \cup
        IF ~open \/ n = "" THEN {}
        ELSE IF found = {} THEN IF ifExists THEN {Done(tables)} ELSE {}
        ELSE {Done(With(f, Folded[n], NoTable)) : f \in {f \in found : ~reading}}

\* ALTER TABLE ADD; without a valid column the command is empty and exec refuses it.  A
\* NOT NULL column without default is accepted if the table has no rows.
Altered(n, s, m, d) ==
    {Failed} \cup
    IF ~open \/ n = "" \/ m = "" \/ d.type = ""
       \/ d.clauses \cap (KeyConstraint \cup {"Unique", "ForeignKey"}) # {}
    THEN {}
    ELSE {Done(With(f, Folded[n],
                    [tables[f][Folded[n]] EXCEPT
                       !.columns = Append(@, Column(m, d, FALSE, "NotNull" \notin d.clauses))])) :
             f \in {f \in Find(tables, n, s) :
                       \A i \in DOMAIN tables[f][Folded[n]].columns :
                          Folded[tables[f][Folded[n]].columns[i].name] # Folded[m]}}

Renamed_LeavesOld(o, n, s) ==
    {Failed} \cup
    IF ~(open /\ CheckTablename(o) /\ CheckTablename(n)) \/ IsReserved(n) THEN {}
    ELSE {Done(With(f, Folded[n], [tables[f][Folded[o]] EXCEPT !.name = n])) :
             f \in {f \in Find(tables, o, s) : ~Holds(tables, f, n)}}

Renamed_Overwrites(o, n, s) ==
    {Failed} \cup
    IF ~(open /\ CheckTablename(o) /\ CheckTablename(n)) \/ IsReserved(n) THEN {}
    ELSE {Done([tables EXCEPT ![f][Folded[n]] = [tables[f][Folded[o]] EXCEPT !.name = n],
                              ![f][Folded[o]] = NoTable]) :
             f \in Find(tables, o, s)}

\* ALTER TABLE RENAME; another spelling of a table's own name counts as taken.
Renamed(o, n, s) ==
    {Failed} \cup
    IF ~(open /\ CheckTablename(o) /\ CheckTablename(n)) \/ IsReserved(n) THEN {}
    ELSE {Done([tables EXCEPT ![f][Folded[n]] = [tables[f][Folded[o]] EXCEPT !.name = n],
                              ![f][Folded[o]] = NoTable]) :
             f \in {f \in Find(tables, o, s) : ~Holds(tables, f, n)}}
-----------------------------------------------------------------------------
(* Actions.                                                                 *)

Init ==
    /\ open = FALSE
    /\ attached = <<>>
    /\ tables = [f \in Stores |-> [k \in FoldedTables |-> NoTable]]
    /\ reading = FALSE /\ transaction = FALSE /\ locked = {}
    /\ result = "success"

\* A statement that ends beside an open query does not give its databases back.
Left == IF reading THEN {locked \cup S : S \in SUBSET AttachedSchemas} ELSE {locked}

\* One outcome of a command; MaxTables stops the model from making more tables.
Exec(outcomes) ==
    /\ ~transaction
    /\ \E o \in outcomes :
          /\ Cardinality({p \in Stores \X FoldedTables : o.tables[p[1]][p[2]] # NoTable})
                <= MaxTables
          /\ tables' = o.tables
          /\ result' = o.result
    /\ locked' \in Left
    /\ UNCHANGED <<open, attached, reading, transaction>>

\* open() may fail, and may answer success without a usable handle: see module Lifecycle.
Open ==
    /\ open' \in IF open THEN {TRUE} ELSE BOOLEAN
    /\ result' \in IF open' THEN {"success"} ELSE {"success", "error"}
    /\ UNCHANGED <<attached, tables, locks>>

\* close() finalizes the queries; temp tables and attachments go with the handle.
Close ==
    /\ open' = FALSE
    /\ attached' = <<>>
    /\ tables' = [tables EXCEPT ![Temp] = [k \in FoldedTables |-> NoTable]]
    /\ reading' = FALSE /\ transaction' = FALSE /\ locked' = {}
    /\ result' = "success"

Attach_TakesEmptyName(f, s) ==
    /\ open /\ f # "" /\ ~Known(s)
    /\ Len(attached) < MaxAttached
    /\ attached' = Append(attached, [schema |-> s, file |-> f])
    /\ result' = "success"
    /\ UNCHANGED <<open, tables, locks>>

\* attachDatabase when SQLite does it.  It reads the schema of the new database, and beside
\* two open queries it does not give it back.
Attach(f, s) ==
    /\ open /\ f # "" /\ s # "" /\ ~Known(s)
    /\ Len(attached) < MaxAttached
    /\ attached' = Append(attached, [schema |-> s, file |-> f])
    /\ locked' \in IF reading THEN {locked, locked \cup {s}} ELSE {locked}
    /\ result' = "success"
    /\ UNCHANGED <<open, tables, reading, transaction>>

\* attachDatabase with an empty argument, a name or a file that cannot be had.
AttachRefused ==
    /\ result' = "error"
    /\ UNCHANGED <<open, attached, tables, locks>>

\* What detachDatabase(s) removes: SQLite refuses a database that it has a transaction
\* open on.
Detachable(s) ==
    {i \in DOMAIN attached : open /\ s # "" /\ attached[i].schema = s /\ s \notin locked}

\* detachDatabase returns nothing, so the caller does not learn of a refusal.
DetachDatabase(s) ==
    /\ \/ /\ Detachable(s) = {}
          /\ UNCHANGED attached
       \/ \E i \in Detachable(s) :
             attached' = [j \in 1..(Len(attached) - 1) |-> attached[IF j < i THEN j ELSE j + 1]]
    /\ UNCHANGED <<open, tables, locks, result>>

\* A Query of the program comes to stand on a row of a table.
QueryOpens(s) ==
    /\ open /\ Known(s) /\ AllTables(tables, s) # {}
    /\ reading' = TRUE
    /\ locked' = locked \cup ({s} \cap Schemas)
    /\ UNCHANGED <<open, attached, tables, transaction, result>>

QueryCloses_KeepsLock ==
    /\ reading
    /\ reading' = FALSE
    /\ UNCHANGED <<open, attached, tables, transaction, locked, result>>

\* The last query leaves its row; the others before it give nothing back.
QueryCloses ==
    /\ reading
    /\ reading' = FALSE
    /\ locked' = IF transaction THEN locked ELSE {}
    /\ UNCHANGED <<open, attached, tables, transaction, result>>

\* Any other statement that uses database s, in a transaction or beside an open query.
StatementUses(s) ==
    /\ open /\ (reading \/ transaction)
    /\ s \in AttachedSchemas
    /\ locked' = locked \cup {s}
    /\ result' \in {"success", "error"}
    /\ UNCHANGED <<open, attached, tables, reading, transaction>>

\* beginTransaction; only a deferred transaction leaves the databases alone until they
\* are used.
BeginTransaction(type) ==
    /\ open /\ ~transaction
    /\ transaction' = TRUE
    /\ locked' = IF type = "Deferred" THEN locked ELSE AttachedSchemas
    /\ result' = "success"
    /\ UNCHANGED <<open, attached, tables, reading>>

\* commit, rollback, or a rollback of SQLite's own that an error answers; what an open
\* query may still read stays locked.
TransactionEnds ==
    /\ transaction
    /\ transaction' = FALSE
    /\ locked' = IF reading THEN locked ELSE {}
    /\ result' \in {"success", "error"}
    /\ UNCHANGED <<open, attached, tables, reading>>

\* The program attaches a file once at a time, and never the connection's own.
Unused == Files \ ({MainFile} \cup {attached[i].file : i \in DOMAIN attached})

Next ==
    \/ Open \/ Close \/ AttachRefused
    \/ \E b \in Creates : Exec(Created(b))
    \/ \E n \in TableNames \cup {""}, s \in AnySchema \cup {""} :
          \/ \E ifExists \in BOOLEAN : Exec(Dropped(n, s, ifExists))
          \/ \E m \in ColumnNames \cup {""}, d \in Declarations : Exec(Altered(n, s, m, d))
          \/ \E new \in TableNames \cup {""} : Exec(Renamed(n, new, s))
    \/ \E f \in Unused \cup {""}, s \in AnySchema \cup {""} : Attach(f, s)
    \/ \E s \in AnySchema \cup {""} : DetachDatabase(s)
    \/ \E s \in AnySchema : QueryOpens(s) \/ StatementUses(s)
    \/ \E type \in {"Deferred", "Immediate", "Exclusive"} : BeginTransaction(type)
    \/ QueryCloses \/ TransactionEnds

Spec == Init /\ [][Next]_vars
-----------------------------------------------------------------------------
(* Properties.                                                              *)

\* A new table answers for its command, even if a column had been declared before: the
\* columns in the order of the map, the last declaration of each, and the keys declared
\* in either way.  A CREATE that answers success always leaves columns to be found, and
\* they are other columns only if the table was there (IF NOT EXISTS is the default)
\* or a temp table hides it (TableCommand.cpp:119-126 and Connection.cpp:168-186).
CreateReportsDeclaration ==
    \A b \in Creates, m \in ColumnNames, d \in Declarations :
        LET c == ColumnDef(b, m, d)
            hidden == c.schema = "" /\ ~c.temp /\ Holds(tables, Temp, c.table)
        IN  \A o \in Created(c) :
               LET info == TableInfo(o.tables, c.table, c.schema)
                   defs == info.columndefs
               IN  o.result = "success" =>
                      /\ defs # <<>>
                      /\ o.tables # tables /\ ~hidden /\ d.type # "" =>
                            /\ [i \in DOMAIN defs |-> defs[i].name]
                                  = Iterated[DOMAIN b.columnDef \cup {m}]
                            /\ \A i \in DOMAIN defs :
                                  defs[i].name = m => /\ defs[i].type = d.type
                                                      /\ "NotNull" \in d.clauses => ~defs[i].nullable
                            /\ d.clauses \cap KeyConstraint # {} => info.primaryKeys = {m}

\* tableExists and allTables agree, and tableInfo finds every table they name.  It finds
\* more only under another spelling, or without a schema in temp or an attached database,
\* where the other two do not look (Connection.cpp:121-130, 140-151 and 161-168).
QueriesAgree ==
    \A n \in TableNames, s \in AnySchema \cup {""} :
        LET found == TableInfo(tables, n, s).columndefs # <<>>
        IN  /\ TableExists(tables, n, s) <=> n \in AllTables(tables, s)
            /\ TableExists(tables, n, s) => found
            /\ found /\ ~TableExists(tables, n, s) =>
                  \E m \in TableNames, r \in {s} \cup IF s = "" THEN AnySchema ELSE {} :
                     /\ Folded[m] = Folded[n] /\ <<m, r>> # <<n, s>>
                     /\ TableExists(tables, m, r)

\* After a DROP that answers success, whether it found the table or IF EXISTS excused it,
\* no spelling of the name exists in that schema: except that a DROP without a
\* schema takes the temp table, and leaves the one allTables() had listed.
DropLeavesNone ==
    \A n \in TableNames, s \in AnySchema \cup {""}, ifExists \in BOOLEAN :
        \A o \in Dropped(n, s, ifExists) :
            o.result = "success" /\ (s = "" => ~Holds(tables, Temp, n)) =>
                \A m \in TableNames : Folded[m] = Folded[n] => ~TableExists(o.tables, m, s)

\* rename moves a table within its schema, columns and keys with it, and no table is
\* lost or made by it; the old name is free in that schema afterwards.
RenameMoves ==
    \A old, new \in TableNames, s \in AnySchema :
        \A o \in Renamed(old, new, s) :
            o.result = "success" =>
                LET before == TableInfo(tables, old, s)
                    after == TableInfo(o.tables, new, s)
                IN  /\ TableExists(o.tables, new, s) /\ ~TableExists(o.tables, old, s)
                    /\ TableInfo(o.tables, old, s).columndefs = <<>>
                    /\ after.columndefs = before.columndefs /\ after.columndefs # <<>>
                    /\ AllTables(o.tables, s) \ {new} \subseteq AllTables(tables, s)

\* rename can always be undone by renaming back: the table gets its columns and keys under
\* the old name again and nothing else has changed, although rename compares names by
\* their spelling, SQLite by their folded form, and either may refuse one
\* (TableCommand.cpp:30-36 and 46-58).
RenameCanBeUndone ==
    [][result' = "success" /\ tables' # tables =>
          \A old, new \in TableNames, s \in AnySchema :
             Exec(Renamed(old, new, s)) =>
                \E o \in Renamed(new, old, s)' :
                   /\ o.result = "success"
                   /\ o.tables = [tables EXCEPT ![StoreOf(s)][Folded[old]].name = old]]_vars

\* detachDatabase returns nothing, but a caller with no query on a row and no transaction
\* open can rely on it: whatever queries and transactions had used a database before,
\* SQLite lets it go, and it is gone from every answer (Connection.cpp:199-207).
DetachedIsGone ==
    /\ [](open /\ ~reading /\ ~transaction =>
              \A s \in AttachedSchemas : Detachable(s) # {})
    /\ [][\A s \in Schemas :
             DetachDatabase(s) /\ ~reading /\ ~transaction =>
                 /\ AllTables(tables, s)' = {}
                 /\ \A x \in AllDatabase(tables)' : x[1] # s
                 /\ \A n \in TableNames : TableInfo(tables, n, s)'.columndefs = <<>>]_vars
=============================================================================
