# UseSQLite in TLA+

UseSQLite is a C++ layer over SQLite 3.33 (`src/src`, namespace `usql`).  It adds
ownership to SQLite's C handles: a `Connection` shares a `Database` that owns the
`sqlite3 *`, a `Cursor` or `Query` owns a `Statement` that owns the
`sqlite3_stmt *`, and a `Function` is handed over to SQLite.  The library starts
no threads; what is hard in it is the order of calls on objects whose lifetimes
cross, the errors in between, and several connections on one file.

This directory holds TLA+ models of that behaviour, TLC configurations that check
them on small instances, and TLAPS proofs for all instances.

## Inventory

| Component | State | Operations | Talks to | What makes it correct |
|---|---|---|---|---|
| `Connection` (Connection.cpp) | file name, shared `Database`, `_functions` | open, close, exec, transactions, schema queries, functions | Database, Cursor, Query, SQLite | close always succeeds; nothing works on a closed connection |
| `Database` (Core/Database.cpp) | `_db`, `_statements` | open, close, register, unregister, finalize all | SQLite, Statement (calls back `finilize`) | the registry holds every live `sqlite3_stmt` and no dead object |
| `Statement` (Core/Statement.cpp, .hpp) | `_stmt`, weak `_db`, column info, parameter names | prepare, reset, step, query, bind, finilize | SQLite, Database | recompiles after close; column info and bindings match the statement |
| `Cursor` / `Query` (Cursor.cpp, Query.cpp) | one `Statement` | bind, exec, close; next, reset, getters | Statement | bound values are the ones used; getters answer defaults off a row |
| `Result` (Result.hpp) | code, kind of call, text | isSuccess, description | Database | success means ok, a row, or done, by kind of call |
| `Function`, `AggregateFunction` (Function.hpp) | name, callbacks | create, xFunc, xFinal, xDestroy | SQLite owns it once registered | deleted once, and never called afterwards |
| Transactions (Connection.cpp 73-114) | SQLite's autocommit flag and locks | begin, commit, rollback, transaction | SQLite, other connections | the callback is all or nothing; no transaction is left open |
| Schema queries (Connection.cpp 116-225) | none | tableExists, allTables, tableInfo, allDatabase, attach, detach | Query, Cursor | the answer is the schema's |
| Table commands (Extension/TableCommand) | parts of a command | create, drop, alter, rename | `Connection::exec` | a table is what its command declared |
| Row commands (Extension/Insert-, Update-, DeleteCommand, ExprCommand) | schema, columns with expressions, conditions | expr, value, where, datetimeNow, command | `Connection::exec` | only the selected rows change, each column to what was last asked for |
| Utils, datetime (Core/Utils.cpp, Query.cpp 116-138) | none | str2tm, int and text to `time_t` | none | the round trip keeps the time |

The hazards these components are exposed to are listed in `PROJECT.json`, each at
its line.  The main ones: a `close()` while statements are compiled or stand on a
row; cursors that outlive their connection; a statement object whose command
compiles to nothing; SQLite's second report of an old error on reset; a bind in the
middle of a result set; names without a schema, which mean other tables to other
calls; conditions joined as texts; memory bound without a copy; a registration or an `open`
that fails half way; a COMMIT that fails; a moment read back through an uninitialised field.

## Modules

| Module | Models | Kind |
|---|---|---|
| `ConnectionContract` | what a caller may rely on about open, close, compile, destroy | abstract |
| `Lifecycle` | `Connection`, `Database`, `Statement`, `Cursor`: who owns which SQLite handle | detailed, refines `ConnectionContract` |
| `BoundCommand` | what each call does to the bound values, and which of them an execution uses | abstract |
| `Binding` | the parameters of one `Statement`, through bind, exec, next, reset, close | detailed, refines `BoundCommand` |
| `Rows` | one `Query` over its result: next, exec, reset, close, the column info and the getters that answer from it | detailed |
| `FunctionLifetimes` | when a `Function` handed over may be called, and when it is gone | abstract |
| `FunctionRegistry` | `registerFunction`, `unregisterFunction`, `close`: ownership of `Function` objects | detailed, refines `FunctionLifetimes` |
| `Tables` | the table commands of `TableCommand`, attach and detach beside queries and transactions, and what `tableExists`, `allTables`, `tableInfo`, `allDatabase` answer | detailed |
| `RowCommands` | `InsertCommand`, `UpdateCommand`, `DeleteCommand` with the conditions of `ExprCommand`, and what the command they build does to a row | detailed |
| `Datetime` | `str2tm`, and the texts of `datetimeNow` and `timeNow` it reads; `Rows` extends it | operators |
| `AtomicTransactions` | a callback's changes reach the database in one step, if it is still the one the callback saw | abstract |
| `Transactions` | begin, commit, rollback, `transaction()` on several connections over SQLite's file locks | detailed, refines `AtomicTransactions` |
| `MC...` | the module above with a symmetry set for TLC | model |
| `...Proofs` | theorems about the module and their proofs | proofs |

A definition named `X_Y` is `X` with one plausible slip in it, kept next to `X`; it
shows which property notices the slip and nothing else refers to it.

### Lifecycle and ConnectionContract

A variable stands for a member: `handle` for `Database::_db`, `statements` for
`Database::_statements`, `command`, `vm` and `columns` for the `_command`, `_stmt`
and column info of each `Statement` object.  Objects live at addresses; an address
can be reused after a delete, which is what makes a stale registration dangerous.
`result` is the `Result` the last call returned, seen through `isSuccess`.

Each action is one public call with everything it does: `Exec` is
`Cursor::exec` = reset (which compiles a null statement and registers it) and one
step; `Close` is both `sqlite3_close` attempts with `finilizeAllStatements`
between them; `DestroyConnection` is `~Connection` and `~Database`;
`ConnectionExec` makes a temporary `Cursor`, runs it and deletes it, so only its
effect on the registry remains.  `IsOpening` is the code's own test, not "usable":
a failed `sqlite3_open_v2` leaves the handle `"sick"`.

SQLite is modelled by its answers: prepare on a null or sick handle is refused, a
text with no statement compiles to success and a null statement, `sqlite3_close`
answers BUSY exactly when a compiled statement is left, `sqlite3_reset` repeats the
error of the step before it, and a step ends on a row, done, or in an error.
`finilize()` through the pointer of a deleted object is undefined behaviour: the
memory may still look like a null `_stmt`, or anything may happen, which `health`
records.

`ConnectionContract` knows only which connection state and which cursor state a
caller can tell apart.  The mapping shows a sick handle as closed and a statement
with `_stmt` as compiled; the registry is invisible.

### Binding and BoundCommand

`cell` is what SQLite holds for each parameter: a value, or a place in the
caller's memory it was told not to copy; `memory` is that memory, which the
caller changes in `Overwrite`; `ran` is the valuation the last execution was
started with.  `Destructor` shows what reaches SQLite for a `BindType`: always
`SQLITE_STATIC`, because the `BindValue` constructors assign the parameter to
itself.  `KeepsBuffers` is the assumption that the caller leaves bound memory
alone.  `call` names the last call.

`BoundCommand` has the phase a caller can know a command to be in (closed, idle, on a row,
failed), the bound values, those of the last execution, the last call and its result, and says of
each call what it must do: a bind that answers success binds that parameter; an `exec` that answers
success has run with the values bound now, and after a failed step it runs nothing and reports that
step once more; `next` goes on from a row and runs the command again from anywhere else; only
`close` forgets values.  The mapping reads the values through the cells (`Bound`) and the phase off
`vm` (`Phase`).

### Rows

`stage`, `header` and `row` are SQLite's side: what the `sqlite3_stmt` is doing, the
column names of the running execution and the cells it stands on.  `columns` and
`types` are `Statement::_columns` and `_columnTypes`.  `NextRow` is `Query::next` when
SQLite answers a row, with all of `initColumnInfo`; `NextOff` is the end or an error,
which leaves the column info alone; `Reset` and `Close` clear it.  `ExecRow`, `ExecOff` and
`ExecRefused` are the `exec()` a `Query` inherits from `Cursor`: it rewinds and steps once, and may
stand on a row with the column info cleared, where no getter sees a column; the history `stepped`
tells such a row from one of `next`.  Each execution may
have other columns (SQLite compiles the command again after a change of the schema)
and each row other types.  The getters are operators named as in the code, since they
change nothing.  What SQLite answers off a row or
for a null statement (0, a null pointer, 0.0) is in `SqliteColumn`; where a getter would
ask for a type the cell does not have it answers `Mistyped`, which no getter may
show.  `HalfWord` is half the number of values of an int; a time kept as an integer wraps there.  A time read of a text is `Str2tm` of the
numbers sscanf finds in it (`Fields`); `FloatTime` stands for the conversion of a Julian day.

### Datetime

Operators without state.  A text is the sequence of numbers that sscanf reads of it,
a time a number of seconds.  `InRange` and `Str2tm` are `Utils::str2tm`; `Mktime` answers a
set, one time for each offset in `Offsets`, because `tm_isdst` is left uninitialised and
the C library may take any of them for the local one.  `DateText`, `TimeText` and
`DatetimeText` are what SQLite's `date()`, `time()` and `datetime()` write for a local time,
computed as SQLite does it, from the Julian day (`computeYMD`, `computeHMS`), its decimal
factors written as fractions.

### RowCommands

`kind` is the class of the command object, `column` its map from names to expressions,
`expr` the list of conditions with the link the caller wrote before each, `meant` a history
of what was asked for.  An expression is a value, a column or nonsense; a condition is the
set of rows it selects (`Holds`), and a text of `where()` is a sequence of conditions with the links
between them (`Texts`), which `Where` appends as it is, without parentheses, so that its parts may
group with those of the texts before it; `Streamed` and `Quoted` say what `operator<<` makes of a value,
without and with quotes around it.  `WellFormed` is whether SQLite takes the text of
`command()`, `Matches` which rows the joined conditions select, AND binding before OR, and
`After` what the command makes of a row.  An object can be built on after `command()`, which
changes nothing.

### Tables

`attached` is the list of attached databases of one connection, `tables` the tables of
every file and of temp; `reading` and `transaction` tell whether a query stands on a row and
whether BEGIN was called, and `locked` which attached databases SQLite has a transaction open on for
either.  A builder is an operator on a record with the members of the C++ object
(`CreateTable`, `ColumnDef`, `TableConstraint`, `Opt`, ...); the text that `command()`
makes of it is not spelled out: `Created`, `Dropped`, `Altered` and `Renamed` are the
outcomes `exec` can have on that text, the refusals of the builder (an empty command)
and of SQLite (`Parses`, `WellFormed`, a name in use) among them.  Every command can
also fail and change nothing.  `Folded` is SQLite's comparison of names without case,
`Iterated` the order of the `std::map` that holds the columns.  `Find` is SQLite's
search for a table (temp, main, then the attached databases in order) and `Master` the one
schema whose `sqlite_master` a query reads; the schema queries are operators named as in
the code over one or the other.  `DetachDatabase` is one action whether SQLite detaches or
refuses, since the code drops the answer; it refuses a database in `locked`.  A database comes there
by a query on it, by any statement that uses it in a transaction or beside an open query, by a BEGIN
IMMEDIATE or EXCLUSIVE, which take every database, or by ATTACH beside open queries; it leaves when
the last query ends outside a transaction, or the transaction ends with no query open.

Left out: AUTOINCREMENT (its bookkeeping is a table of its own), constraints given as
free text, views and indexes, and rows, so ALTER is not refused for rows that are there.  The
table commands are executed outside explicit transactions: of a transaction `Tables` has the locks,
not the ROLLBACK that would take a table back.  `AllDatabase` lists temp while it has tables; SQLite
also lists it once it has had some, which no property looks at.
A file is attached once at a time and never the connection's own, there is one
connection (several are in `Transactions`), and a sick handle is taken as closed (it is in
`Lifecycle`).

### FunctionRegistry and FunctionLifetimes

`table` is SQLite's map from name and signature to the object it calls, `functions`
the names in `Connection::_functions`, `owner` who is responsible for an object and
`deletes` how often its destructor has run (counted to 2).  `active` tells whether a
statement is running, which is when SQLite refuses to replace an entry.
`Unregister` leaves `table` alone, because the argument count and encoding
it passes match no registered entry.

`FunctionLifetimes` knows of an object only whether its caller owns it, SQLite may call it,
or it is gone.  The mapping (`Life`) computes that stage from `owner`, `table` and `deletes`
together and shows an object they disagree about, deleted but callable or kept by nobody, as
`"broken"`, a stage the abstract specification does not have.  It does not count deletes:
the second one of a refused registration is `DeletedOnce`'s.

### Transactions and AtomicTransactions

Per connection: `lock` is SQLite's lock on the file, `autocommit` is
`sqlite3_get_autocommit`, `dirty` the uncommitted content, `reading` whether a query stands
on a row, `depth` the number of `transaction()` calls on the stack, `answer` the last `Result`;
`file` is the committed content, an opaque value.  `transaction()` is cut where other
connections can come in: `Enter` is BEGIN up to the call of the callback, the callback is any
sequence of statements and nested `transaction()` calls, and `ReturnsTrue`,
`ReturnsFalse` or `Throws` is the rest.  An autocommitted write is two steps, `Writes` and
`WriteEnds`.  A query is open from `QueryOpens` to `QueryCloses`, across any BEGIN, write, COMMIT
and ROLLBACK of its own connection in between, and keeps its lock as long (`Kept`).

SQLite is modelled in rollback-journal mode: SHARED is refused while another connection has
PENDING or EXCLUSIVE, RESERVED while another may write, COMMIT of a write transaction
while another has any lock, whether or not it wrote anything (`vdbeCommit` asks for EXCLUSIVE on
every b-tree in a write transaction).  A refused COMMIT keeps the transaction open with PENDING; a
refused autocommit is undone.  BEGIN IMMEDIATE and EXCLUSIVE lock before they are refused
(`Granted`): a nested one leaves its lock to the outer transaction, and a refused BEGIN
EXCLUSIVE beside an open query of its own leaves PENDING with no transaction to write,
which is the lock `"stuck"`.  A statement that fails inside a transaction may leave it the lock
it took (`StatementFails`).  `SqliteRollsBack` is the automatic rollback after a full disk, an
I/O error or an interrupt.  `Restart` is `close()` or the end of the process, and a new
`open()`; that a half-written commit is undone from the journal is SQLite's part and assumed.

`AtomicTransactions` has no locks: a commit requires only that what the transaction
has seen is still the database.  The mapping says that a connection with any lock has seen
the current file; the refinement therefore says that the locks never let a commit go over a
change its callback has not seen, that BEGIN is refused wherever a transaction is
open, and that `transaction()` never runs a callback after a refused BEGIN.

Two restrictions on the caller, both as in the repository's tests and examples: a
callback leaves BEGIN, COMMIT and ROLLBACK to `transaction()`, and a connection has one query
open at a time.

## What the runs check

| Run | Instance | States | Shows |
|---|---|---|---|
| `lifecycle` | 3 addresses, statement and blank commands | 2308 | close succeeds and takes every statement with it; success only on an open connection; refinement of `ConnectionContract` |
| `lifecycle_blank` | 2 addresses, blank commands too | violation | `NoUseAfterFree` fails (see Findings) |
| `binding` | 2 parameters, 2 buffers, 2 values | 844 | rows always belong to the current bindings; refinement of `BoundCommand`, call by call |
| `binding_copy` | 1 parameter, 1 buffer | violation | `CopyIsPrivate` fails |
| `rows` | 3 columns, 2 names, 6 cells, 340 moments, one offset | 7300 | the getters answer the row `next` stepped on, or error values, also after `exec`; a name means its last column; success means a row; stored times read back exactly |
| `rows_summer` | 1 column, two offsets | violation | `StoredTimesAreNotLate` fails |
| `tables` | 2 tables at a time, 4 names in 3 folded forms, 3 files, 2 schema names, 9 CREATE commands | 24158 | a table is what was declared; the schema queries agree; drop and rename leave nothing behind, nor does detach with no query and no transaction open; a rename can be undone |
| `row_commands` | 2 columns, 3 spellings, 3 values, 2 conditions, 9 texts, 4 parts | 136993 | only selected rows change; an AND text widens only by an OR of its own; the last call for a column counts |
| `transactions` | 2 connections, 2 contents, 2 nested calls | 16368 | success is final; locks have owners; an open query sees one state; a busy COMMIT keeps its turn; open transactions end; refinement of `AtomicTransactions` |
| `transactions_fault` | 1 connection | violation | `CallbackWritesWait` fails |
| `functions` | 3 objects, 2 names, 2 signatures | 253 | accepted objects are deleted once and in time; nothing leaks; refinement of `FunctionLifetimes` |
| `function_fails` | 1 object | violation | `DeletedOnce` fails |

Bounds.  Statements interact only through the registry and `sqlite3_close`; three
addresses give one that is deleted and reused, one still compiled and one closed at
the same time, and the proofs hold for any number.  Two parameters tell "the bound
one" from "another", two buffers and two values tell which memory is read.  Three columns
hold two of one name and one without, in every order; 8 is an integer that a three-bit int does
not hold.  The moments are every 613th day from 1902 to 2037, leap days and ends of months and
years, four times a day, in a zone one hour ahead of UTC; `rows_summer` has that zone's summer
time too: TLC's numbers have 32 bits, and the
proof covers the years 1901 to 9999 and any offsets.  Two columns of which one is spelled two ways
give a map with two entries for one column; four parts give two texts of two conditions each, or
three conditions beside a column, and the texts have every single condition with every link, one with
an OR, one that begins with AND and has an OR after it, and one of two ANDs; the values are one that is printed as it is, one that loses digits and a text that
is also the name of a column.  Two tables let one
name stand in two schemas, in two spellings, or be renamed onto another; two attached
databases give an order to search, one that stays when the other goes, and one that is locked when
the other is not; the CREATE commands
have a temp table, one in an attached schema with its key as a constraint, and five that are
refused: a reserved and an empty name, no columns, two schemas, and no key for a table
without rowid (`CreateReportsDeclaration` then gives each of them one more column).  The bounds `MaxTables` and `MaxAttached` are guards of `Exec` and
`Attach`; the second is SQLite's own limit, made small.  Three
objects fill two entries and replace one.  Two connections give a reader against a
writer and writer against writer, two contents tell changed from unchanged, and two nested calls give
the nested BEGIN that is refused and, after a rollback by SQLite, the one that is not.  The only counter, `deletes`, stops at 2.
Symmetry is used for addresses, parameters, buffers, values, objects, names and
signatures, which no definition tells apart, in runs without liveness; `transactions` checks
liveness and uses none.

Fairness (`FairSpec` of `Transactions`, used only for `OpenTransactionsEnd`): a
statement that has begun ends (weak); a callback returns or throws (strong, since it
may run statements first); a caller whose transaction is still open after a call
tries `commit()` again (strong, for the same reason); and a connection that is outside a
transaction again and again sometimes ends its query there (strong).  The first two are what it
means to call the library from code that terminates.  The third and the fourth are assumptions on
the callers, because the library does not retry and sets no busy timeout: without the fourth
a client that begins its next transaction before it ends its query, and its next query before it
ends its transaction, keeps SHARED for ever and every COMMIT of another connection is busy.
`CHECK_DEADLOCK` is off only in the lifecycle runs: after the connection and
every cursor are destroyed the program can really do nothing more.

### Findings

* **Dangling registration** (`lifecycle_blank`, Statement.cpp:72).  A blank command
  compiles to `SQLITE_OK` with a null `_stmt`.  `prepare` registers the object and
  `finilize` returns before unregistering it; `close()` with another statement
  compiled then calls `finilize` on freed memory.
* **Copy is static** (`binding_copy`, Statement.hpp:87 and 97).  Text and blobs bound
  with `BindType::Copy` are not copied.
* **Double delete** (`function_fails`, Connection.cpp:259).  SQLite has already run
  `xDestroy` when registration fails.
* **Callback outlives its transaction** (`transactions_fault`, Connection.cpp:108).
  When SQLite rolls back by itself inside a callback, the callback's next `exec` is
  committed at once, and a false answer no longer undoes it.
* **An hour late** (`rows_summer`, Utils.cpp:50).  `str2tm` leaves `tm_isdst` uninitialised, so in
  a zone with summer time `mktime` may take a stored summer time for winter time and answer an hour
  after it; Tests.cpp:648 expects less than a second.

One more thing needs no run.  `unregisterFunction` passes the argument count -1 and the encoding 0,
which no registered entry has (Connection.cpp:276), so SQLite goes on calling the function until it is
replaced or the connection is closed.  The action `Unregister` does just that, and the refinement of
`FunctionLifetimes` says what a caller has to live with: unregistering ends no object's life.

## What is proved

All for arbitrary sets of addresses, parameters, values, objects, names, files, commands,
conditions and moments.

* `LifecycleProofs`.  The inductive invariant is `Inv`: the type invariant,
  `HandlesTracked` and `ColumnsNeedStatement`.  `HandlesTracked` is inductive only
  with both halves: a statement that is compiled is registered (so that `close`
  reaches it) and the handle is open (so that no statement survives a failed
  open).  From it: `CloseSucceeds` (after the finalizing pass nothing live is left, so the
  second `sqlite3_close` cannot be busy), `FailsWhenClosed`, and
  `ImplementsContract` (every action maps to a contract action or a stutter).
  `NoBlankNoDanglingPointer` adds the assumption that no command is blank and
  proves `RegistryExact` and `NoUseAfterFree`: the blank command is the only way to
  the dangling pointer that `lifecycle_blank` shows.
* `BindingProofs`.  `TypeOK`; `RowsMatchBindings` and `ImplementsBoundCommand` under
  `KeepsBuffers`, the assumption the run makes too (each action of `Binding` is shown to be the one
  call of `BoundCommand` it names, or the mere rewriting of memory nobody has bound); `BindFailsOnlyOnError` without it.
* `FunctionRegistryProofs`.  The inductive invariant adds two facts that the
  properties do not state: an object SQLite may call is one it accepted, and no
  object sits under two keys (so replacing one entry never destroys an object
  another entry still calls).  From it `TypeOK`, `OwnedBySqlite`, `NamesNeedHandle` and
  `ImplementsLifetimes`, where the second fact makes a replaced entry's object the only one that
  goes; and `NothingLeaks` (what was handed over is deleted once the connection is closed), which no
  run checks by itself since the refinement implies it.  `DeletedOnceUnlessRefused` adds the assumption that SQLite
  refuses no registration and proves `DeletedOnce`, with the invariant `RejectedOnce` (what
  `registerFunction` refused was deleted once, and never reaches SQLite): the refusal is the only way
  to the double delete that `function_fails` shows.
* `RowsProofs`.  The inductive invariant is `TypeOK` with `InfoIsOfThisRow`, which tells a row of
  `next` (column info is that of the row) from one of `exec` (there is none).  That the
  last column of a name exists needs a largest element of a set of numbers, which is
  taken from the well-foundedness of strict inclusion on finite sets.  From the invariant:
  the getters' theorems, for any width of int, and `DistinctComplete`, where
  `columnCount` counts names and is right because names and columns are in bijection,
  and times and booleans are the cell's modulo the width of an int;
  and `StoredTimesReadBack`, in a zone with one offset, which cites the next module.
* `DatetimeProofs`.  `TimesReadBack`: for every moment whose local time is in the years 1901
  to 9999, and all offsets, the text SQLite writes is read as the moment, give or take the offset
  that the C library picks instead of the one SQLite used.  Each quotient of SQLite's
  arithmetic is pinned down by the bounds on its remainder (`QuotientIs`), which gives a year
  that begins in March (`Years`, `Months`, `DaysOfYears`); `DateOfDay` compares it with
  the count of days from January that mktime makes, leap years included.
* `RowCommandsProofs`.  The inductive invariant says that the map holds, for a column with one
  spelling, what the last call for it gave, and that the conditions are those `where()` was called
  with.  From it `LastCallCounts`, and `OnlySelectedRows`: every text stands somewhere in the joined
  conditions (`Stands`), and of an alternative that holds the part in the text it begins in holds
  (`TextFacts`).  `AndNarrows` is a fact about one step: an alternative that holds after it either
  began before the new text and so held before it, or begins at an OR in the text.
* `TablesProofs`.  The inductive invariant is `TypeOK`, whose part `Catalogue` says that in
  every place a table is kept under the folded form of its own name, and which keeps the schema
  names of the attached databases apart; without the first a query by text could miss
  a table a search by name finds, without the second a detach would leave a database of
  that name.  `LocksAreOwned` (with no query and no transaction open nothing is locked) is a second
  invariant, and what makes SQLite let a database go.  Each command's outcomes are shown to be catalogues once (`CreatedKeeps`,
  `DroppedKeeps`, `AlteredKeeps`, `RenamedKeeps`).  From it `Agreement`, `DroppedIsGone`,
  `RenamedMoves` and `DetachRemoves`, for any names, files, schemas and commands.
  `CreatedAsDeclared` follows a CREATE from the builder to `tableInfo`: a column of the table is
  one of the map's (`ColumnDefines`), both lists are in the order of the map and so
  equal (`InOrder`), and the one place the new table may have (`Target`) is the first that
  a search finds (`TargetIsFound`), unless a table was there or a temp table hides it.
  `RenamesCanBeUndone` needs a second invariant, `NoReserved` (`NoReservedTables`): SQLite refuses a
  reserved name, so a table that had one could not be given it back; no command can make
  one, because RENAME and CREATE refuse it in every spelling.
* `TransactionsProofs`.  The inductive invariant joins `LocksHaveOwners` with
  `LocksExclude` (one writer; EXCLUSIVE is alone) and `ChangesAreLocked` (whatever is
  dirty is under RESERVED or more, `MayWrite`, and a statement that writes by itself has something
  to commit).  From it `OneWriter`, `SuccessIsFinal`, `QueriesSeeOneState`, and the refinement: when a
  commit changes the file its connection is alone, so nothing any other connection has
  seen changes with it.  `BusyCommitsKeepTheirTurn` uses more of `LocksExclude`: beside a PENDING lock
  there are only readers, and no lock is granted to who had none.  `CallbacksWaitUnlessRolledBack`
  assumes that SQLite does not roll back by itself inside a callback and proves
  `CallbackWritesWait`, with the invariant `OneCallback` (a callback runs only inside its own
  transaction, and never a nested one): the rollback is the only way to what
  `transactions_fault` shows.

The assumptions on the constants are named in the modules
(`CommandsAssumption`, `BindingAssumption`, `FunctionAssumption`,
`RowsAssumption`, `FieldsAssumption`, `DatetimeAssumption`, `CalendarAssumption`,
`TablesAssumption`, `RowCommandsAssumption`, `TransactionsAssumption`) and TLC evaluates them in
the runs of the module.

Only model-checked: `OpenTransactionsEnd`, since liveness under fairness and ENABLED
are out of the prover's reach, and the properties with a violation run, which are
false; for three of those (`NoUseAfterFree`, `DeletedOnce`, `CallbackWritesWait`) a theorem says under which
assumption they hold, and for `StoredTimesAreNotLate` `StoredTimes` says that one offset is
enough.  `CopyIsPrivate` holds under no assumption a caller could meet: it fails on the first use.  Recursive operators are not used in modules with theorems.

## Not modelled

* Most of the repository's lines are not the library's: the SQLite amalgamation and its shell, two
  copies of gtest, tests and examples.  Of SQLite the models hold what the library's behaviour
  rests on, each definition mapped to its lines in `sqlite3.c`: file locks, the
  end of a transaction, the search for a table, keys and columns of CREATE TABLE, detach, column
  getters off a row, the refusal of a bind, date texts.  The SQL compiler, the b-tree, the journal, WAL
  and the shell are not: they are correct or not whatever the library does, and a model of
  them would be a project about SQLite.
* Threads.  The library opens connections without a mutex flag and has no locks of its
  own; one connection is used by one thread.
* Error texts, `lastErrorCode` and other plain reads of SQLite; wording of SQL.
* Rounding: a Julian day read as a double is cut to whole seconds (Query.cpp:134) and may
  be a second early; `Rows` takes the answer as a constant.
* The length of a blob, which is always passed as -1 (Statement.hpp:96).
* The second statement of a text: only the first is compiled (Statement.cpp:71).
* A schema query that stops at an error: its answer has no place to say so.
* AUTOINCREMENT, constraints given as free text, views and indexes in `Tables`, and table commands
  inside an explicit transaction.
* What becomes of a value that loses its meaning when it is printed, or of two spellings of one
  column: `RowCommands` has both, but no text of the repository says what they should mean.
* How long the pointer of `cstrForColumnIndex` stays good: until the next call on the
  query, as in SQLite.
* Running out of memory inside `std::string`, `std::list` or `new`.
* A user function that calls back into the connection it is registered on.

## Plan

Done, in this order: `ConnectionContract`, `Lifecycle` and its proofs;
`BoundCommand`, `Binding` and its proofs; `FunctionRegistry` and its proofs;
`AtomicTransactions`, `Transactions` and its proofs; `Rows` and its proofs; `Tables` and
its proofs; `RowCommands` and its proofs; the query that stays open across BEGIN and COMMIT in
`Transactions`; `Datetime` and its proofs; `FunctionLifetimes`; the proofs of
`CreateReportsDeclaration`, of the refinement of `FunctionLifetimes`, of `RenameCanBeUndone` and
`BusyCommitKeepsItsTurn`, and of what holds if SQLite neither refuses nor rolls back.

Left, in the order of what they would add: blob lengths in `Binding`; a schema query that is cut short by an error in `Tables`; several queries open on one
connection in `Transactions`.
