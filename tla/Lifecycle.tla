----------------------------- MODULE Lifecycle -----------------------------
(***************************************************************************)
(* One Connection, its Database and the Statement objects behind its        *)
(* Cursors and Queries: who owns which SQLite handle, and when it is given  *)
(* back.                                                                    *)
(*                                                                          *)
(* Connection.cpp forwards to Core/Database.cpp, Cursor.cpp and Query.cpp   *)
(* to Core/Statement.cpp.  A Statement registers itself with its Database   *)
(* when it is compiled and unregisters when it is finalized; close()        *)
(* finalizes the registered ones if SQLite answers BUSY.  Parameter values  *)
(* are the subject of module Binding; here a statement is only what SQLite  *)
(* makes of its lifetime.                                                   *)
(*                                                                          *)
(* An address of Stmts can be used again after the object there is deleted, *)
(* as an allocator does.                                                    *)
(*                                                                          *)
(* A definition X_Y is X with one plausible slip, Y, in it; nothing uses it *)
(* but the experiments that show which property would notice.               *)
(***************************************************************************)
CONSTANTS
    Stmts,       \* addresses at which a Statement object can live
    Commands     \* kinds of SQL text: "sql" holds a statement, "blank" holds
                 \* none (spaces or a comment)

ASSUME CommandsAssumption == Commands \subseteq {"sql", "blank"}

VARIABLES
    handle,      \* Database::_db: "none", "open", or "sick": the handle a failed
                 \* sqlite3_open_v2 leaves behind; "gone": the Database is destroyed
    statements,  \* Database::_statements (std::find keeps it free of duplicates)
    command,     \* Statement::_command, "absent" where no object lives
    vm,          \* Statement::_stmt: "null", or what the sqlite3_stmt is doing:
                 \* "ready", on a "row", "done", or stopped by an "error"
    columns,     \* the statements whose _columns / _columnTypes hold anything
    health,      \* "corrupt" once a member of a deleted Statement took effect
    result       \* the Result of the last call that returned one, as isSuccess
                 \* sees it: "success" or "error"

vars == <<handle, statements, command, vm, columns, health, result>>

VmStates == {"null", "ready", "row", "done", "error"}
Results == {"success", "error"}

TypeOK ==
    /\ handle \in {"none", "open", "sick", "gone"}
    /\ statements \subseteq Stmts
    /\ command \in [Stmts -> Commands \cup {"absent"}]
    /\ vm \in [Stmts -> VmStates]
    /\ columns \subseteq Stmts
    /\ health \in {"fine", "corrupt"}
    /\ result \in Results

Init ==
    /\ handle = "none"
    /\ statements = {}
    /\ command = [s \in Stmts |-> "absent"]
    /\ vm = [s \in Stmts |-> "null"]
    /\ columns = {}
    /\ health = "fine"
    /\ result = "success"

Alive == {s \in Stmts : command[s] # "absent"}

\* The statements sqlite3_close counts when it decides to answer BUSY.
Live == {s \in Stmts : vm[s] # "null"}

IsOpening == handle \in {"open", "sick"}
-----------------------------------------------------------------------------
(* Statement: prepare, reset and step as the outcomes they can have.        *)

Rejected == [result |-> "error", vm |-> "null"]

\* SQL without a statement compiles to SQLITE_OK and a null sqlite3_stmt.
Compiled(kind) ==
    [result |-> "success", vm |-> IF kind = "blank" THEN "null" ELSE "ready"]

\* prepare() of a statement that has no _stmt.  SQLite refuses a null or sick
\* handle (MISUSE); on an open one the SQL may fail to compile.
Prepare(kind) ==
    IF handle = "open" THEN {Rejected, Compiled(kind)} ELSE {Rejected}

\* sqlite3_reset answers with the error of the step before it.
Reset(s) ==
    IF vm[s] = "null"
    THEN Prepare(command[s])
    ELSE {[result |-> IF vm[s] = "error" THEN "error" ELSE "success", vm |-> "ready"]}

StepStates_UnknownCode == {"row", "done", "error", "busy"}

\* sqlite3_step of a live statement.
StepStates == {"row", "done", "error"}

\* step() gives up if its reset() failed; sqlite3_step(NULL) is MISUSE.
StepAfter(r) ==
    IF r.result = "success" /\ r.vm # "null"
    THEN {[result |-> IF v = "error" THEN "error" ELSE "success", vm |-> v] :
             v \in StepStates}
    ELSE {[result |-> "error", vm |-> r.vm]}

Registered_Never(s, r) == statements

\* The registry after a reset() with outcome r: prepare() registers on success.
Registered(s, r) ==
    IF vm[s] = "null" /\ r.result = "success" THEN statements \cup {s} ELSE statements

Unregistered_Everything(s) ==
    IF vm[s] = "null" \/ handle = "gone" THEN statements ELSE {}

\* The registry after finilize(), which does nothing for a null _stmt and
\* skips the registry when the weak pointer to the Database has expired.
Unregistered(s) ==
    IF vm[s] = "null" \/ handle = "gone" THEN statements ELSE statements \ {s}
-----------------------------------------------------------------------------
(* Cursor and Query.                                                        *)

\* The constructor makes the Statement and resets it once, which prepares it.
NewCursor(s, kind) ==
    /\ handle # "gone"
    /\ s \notin Alive
    /\ command' = [command EXCEPT ![s] = kind]
    /\ \E r \in Prepare(kind) :
          /\ vm' = [vm EXCEPT ![s] = r.vm]
          /\ statements' = Registered(s, r)
    /\ UNCHANGED <<handle, columns, health, result>>

QueryReset(s) ==
    /\ s \in Alive
    /\ \E r \in Reset(s) :
          /\ vm' = [vm EXCEPT ![s] = r.vm]
          /\ statements' = Registered(s, r)
          /\ result' = r.result
    /\ columns' = columns \ {s}
    /\ UNCHANGED <<handle, command, health>>

\* Cursor::exec resets before it steps.
Exec(s) ==
    /\ s \in Alive
    /\ \E r \in Reset(s) : \E e \in StepAfter(r) :
          /\ vm' = [vm EXCEPT ![s] = e.vm]
          /\ statements' = Registered(s, r)
          /\ result' = e.result
    /\ columns' = columns \ {s}
    /\ UNCHANGED <<handle, command, health>>

\* Query::next on a compiled statement.  Column info is taken on a row (it stays
\* empty when the first column has no name) and left alone otherwise.
QueryNext(s) ==
    /\ s \in Live
    /\ \E v \in StepStates :
          /\ vm' = [vm EXCEPT ![s] = v]
          /\ \/ /\ v = "row"
                /\ result' = "success"
                /\ columns' \in {columns \cup {s}, columns \ {s}}
             \/ /\ v # "row"
                /\ result' = "error"
                /\ columns' = columns
    /\ UNCHANGED <<handle, statements, command, health>>

\* bind() of a valid parameter of a compiled statement: reset, then bind unless
\* the reset reported the previous step's error.
Bind(s) ==
    /\ s \in Live
    /\ \E r \in Reset(s) :
          /\ vm' = [vm EXCEPT ![s] = r.vm]
          /\ result' \in {r.result, "error"}
    /\ columns' = columns \ {s}
    /\ UNCHANGED <<handle, statements, command, health>>

\* next() without a compiled statement and bind() of an index or a name the
\* statement does not have: an error Result and nothing else.
CursorRefuses(s) ==
    /\ s \in Alive
    /\ result' = "error"
    /\ UNCHANGED <<handle, statements, command, vm, columns, health>>

Finalize_KeepsColumns(s) ==
    /\ statements' = Unregistered(s)
    /\ vm' = [vm EXCEPT ![s] = "null"]
    /\ UNCHANGED columns

\* Statement::finilize
Finalize(s) ==
    /\ statements' = Unregistered(s)
    /\ vm' = [vm EXCEPT ![s] = "null"]
    /\ columns' = IF vm[s] = "null" THEN columns ELSE columns \ {s}

CloseCursor(s) ==
    /\ s \in Alive
    /\ Finalize(s)
    /\ UNCHANGED <<handle, command, health, result>>

\* ~Cursor closes, then deletes the Statement, whose destructor finds it closed.
DeleteCursor(s) ==
    /\ s \in Alive
    /\ Finalize(s)
    /\ command' = [command EXCEPT ![s] = "absent"]
    /\ UNCHANGED <<handle, health, result>>
-----------------------------------------------------------------------------
(* Connection and Database.                                                 *)

\* A handle that is already there is taken for an open one.  A failed
\* sqlite3_open_v2 leaves a sick handle, or none when out of memory.
Open ==
    /\ handle # "gone"
    /\ \/ /\ IsOpening
          /\ handle' = handle
          /\ result' = "success"
       \/ /\ ~IsOpening
          /\ handle' \in {"open", "sick", "none"}
          /\ result' = IF handle' = "open" THEN "success" ELSE "error"
    /\ UNCHANGED <<statements, command, vm, columns, health>>

\* finilizeAllStatements(true) calls finilize() through every registered pointer.
\* Where the object was deleted the freed bytes may still hold a null _stmt, on
\* which finilize returns, or anything else.
FinalizeAll ==
    /\ vm' = [s \in Stmts |-> IF s \in statements THEN "null" ELSE vm[s]]
    /\ columns' = columns \ (statements \cap Live)
    /\ health' \in IF statements \subseteq Alive THEN {health} ELSE {health, "corrupt"}

CloseStatements_IgnoresBusy == UNCHANGED <<vm, columns, health>>

\* The statements Database::close finalizes: SQLite answers BUSY to the first
\* sqlite3_close exactly when a compiled statement is left.
CloseStatements ==
    IF IsOpening /\ Live # {} THEN FinalizeAll ELSE UNCHANGED <<vm, columns, health>>

Close ==
    /\ handle # "gone"
    /\ CloseStatements
    /\ statements' = IF IsOpening /\ Live # {} THEN {} ELSE statements
    /\ handle' = IF IsOpening /\ Live' # {} THEN handle ELSE "none"
    /\ result' = IF IsOpening /\ Live' # {} THEN "error" ELSE "success"
    /\ UNCHANGED command

DestroyConnection_NoClose ==
    /\ handle # "gone"
    /\ handle' = "gone"
    /\ statements' = {}
    /\ UNCHANGED <<command, vm, columns, health, result>>

\* ~Connection closes, then drops the last reference: ~Database closes again,
\* which changes nothing further, and the registry goes with it.
DestroyConnection ==
    /\ handle # "gone"
    /\ CloseStatements
    /\ handle' = "gone"
    /\ statements' = {}
    /\ UNCHANGED <<command, result>>

\* Connection::exec on a connection that has a handle: a Cursor whose Statement
\* lives at the unused address s is made, executed and deleted.  The Statement is
\* reset twice, so it is compiled at the second attempt if the first one failed.
ConnectionExec(s, kind) ==
    /\ IsOpening
    /\ s \notin Alive
    /\ \E r \in Prepare(kind) : \E e \in StepAfter(r) :
          /\ result' = e.result
          /\ statements' = IF r.vm = "null" THEN Registered(s, r) ELSE statements \ {s}
    /\ UNCHANGED <<handle, command, vm, columns, health>>

\* Connection::exec without a handle or with an empty command.
ConnectionRefuses ==
    /\ handle # "gone"
    /\ result' = "error"
    /\ UNCHANGED <<handle, statements, command, vm, columns, health>>

CursorStep(s) ==
    \/ QueryReset(s) \/ Exec(s) \/ QueryNext(s) \/ Bind(s) \/ CursorRefuses(s)

\* What follows a corruption is one of the things the program may then do.
Next ==
    \/ Open
    \/ Close
    \/ DestroyConnection
    \/ ConnectionRefuses
    \/ \E s \in Stmts :
          \/ \E kind \in Commands : NewCursor(s, kind) \/ ConnectionExec(s, kind)
          \/ CursorStep(s)
          \/ CloseCursor(s)
          \/ DeleteCursor(s)

Spec == Init /\ [][Next]_vars
-----------------------------------------------------------------------------
(* Properties.                                                              *)

\* Every compiled statement belongs to a living object, is registered, and runs on
\* an open connection: what close() relies on when it finalizes the registered ones
\* (Database.cpp:53-57), over every order of open, close, prepare and finilize.
HandlesTracked ==
    /\ Live \subseteq statements \cap Alive
    /\ Live # {} => handle = "open"

\* Column info never outlives the sqlite3_stmt it was read from, so the getters of
\* Query, which look only at the info (Statement.hpp:138), answer their error value
\* after a close instead of asking SQLite about a null statement.
ColumnsNeedStatement == columns \subseteq Live

\* Connection::close never fails and never leaves a handle: one pass over the
\* registered statements is enough for the second sqlite3_close (Database.cpp:55-56).
CloseSucceeds == [][Close => result' = "success" /\ handle' = "none"]_vars

\* No call on a Cursor or a Query reports success unless the connection is really
\* open, whatever was compiled before it was closed, failed to open or was destroyed
\* (tests fail_on_closed_database and query_on_closed_database).
FailsWhenClosed ==
    [][result' = "success" /\ (\E s \in Stmts : CursorStep(s)) => handle = "open"]_vars

\* Where every command holds a statement, the registry is exactly the compiled
\* statements: finilize undoes each registration (Statement.cpp:50-52 and :73).
RegistryExact == statements = Live

\* finilize is never called through the pointer of a deleted Statement
\* (Database.cpp:106-110).
NoUseAfterFree == health = "fine"

\* The lifetimes a caller sees are those of the contract: a sick handle is closed, a
\* compiled statement is one with a _stmt, and the registry is invisible.
ContractConn == IF handle \in {"open", "gone"} THEN handle ELSE "closed"
ContractCursor ==
    [s \in Stmts |-> IF s \notin Alive THEN "absent"
                    ELSE IF vm[s] = "null" THEN "idle" ELSE "compiled"]

Contract == INSTANCE ConnectionContract WITH conn <- ContractConn, cursor <- ContractCursor

\* Every step of this module is a step of ConnectionContract or changes nothing there.
ImplementsContract == Contract!Spec
=============================================================================
