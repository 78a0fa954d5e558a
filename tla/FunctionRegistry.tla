-------------------------- MODULE FunctionRegistry --------------------------
(***************************************************************************)
(* User functions: who deletes a Function object, and when.                 *)
(*                                                                          *)
(* registerFunction takes a Function* from its caller and hands it to       *)
(* SQLite with the destructor Function::xDestroy; Connection keeps only the *)
(* names, in _functions.  SQLite's own table of functions is external and   *)
(* modelled from the arguments Connection.cpp passes and what                *)
(* createFunctionApi of the vendored sqlite3.c does with them.  A sick       *)
(* handle (see Lifecycle) takes functions like an open one.                 *)
(* A definition X_Y is X with one plausible slip, Y, in it.                 *)
(***************************************************************************)
CONSTANTS
    Objects,     \* Function objects; the caller hands each one over once
    Names,       \* function names that are not empty
    Sigs,        \* pairs of argument count and text encoding
    None         \* no object

ASSUME FunctionAssumption == None \notin Objects

VARIABLES
    handle,      \* Database::_db: "none" or "open"
    table,       \* [Names \X Sigs -> Objects \cup {None}]: the entries SQLite calls
    functions,   \* the names in Connection::_functions
    owner,       \* per object: "unborn", "caller", "sqlite" once SQLite accepted it,
                 \* "rejected" once registerFunction has failed with it
    deletes,     \* how often an object's destructor has run, counted to 2
    active       \* "running" while a statement is between two steps, else "idle"

vars == <<handle, table, functions, owner, deletes, active>>

Keys == Names \X Sigs

TypeOK ==
    /\ handle \in {"none", "open"}
    /\ table \in [Keys -> Objects \cup {None}]
    /\ functions \subseteq Names
    /\ owner \in [Objects -> {"unborn", "caller", "sqlite", "rejected"}]
    /\ deletes \in [Objects -> {0, 1, 2}]
    /\ active \in {"idle", "running"}

Empty == [k \in Keys |-> None]

Init ==
    /\ handle = "none"
    /\ table = Empty
    /\ functions = {}
    /\ owner = [o \in Objects |-> "unborn"]
    /\ deletes = [o \in Objects |-> 0]
    /\ active = "idle"

\* The objects SQLite may call.
Registered == {table[k] : k \in Keys} \ {None}

\* One more delete of every object of S; 0, 1, 2 are told apart, later ones not.
Deleted(S) ==
    [o \in Objects |-> CASE o \in S /\ deletes[o] = 0 -> 1
                         [] o \in S /\ deletes[o] # 0 -> 2
                         [] OTHER -> deletes[o]]
-----------------------------------------------------------------------------
\* Function::create or AggregateFunction::create
Create(o) ==
    /\ owner[o] = "unborn"
    /\ owner' = [owner EXCEPT ![o] = "caller"]
    /\ UNCHANGED <<handle, table, functions, deletes, active>>

Open ==
    /\ handle = "none"
    /\ handle' = "open"
    /\ UNCHANGED <<table, functions, owner, deletes, active>>

RegisterRefused_ListsEmptyName(o) ==
    /\ owner[o] = "caller"
    /\ owner' = [owner EXCEPT ![o] = "rejected"]
    /\ deletes' = Deleted({o})
    /\ functions' = functions \cup {""}
    /\ UNCHANGED <<handle, table, active>>

\* registerFunction on a closed connection or with an empty name: "goto failed".
RegisterRefused(o) ==
    /\ owner[o] = "caller"
    /\ owner' = [owner EXCEPT ![o] = "rejected"]
    /\ deletes' = Deleted({o})
    /\ UNCHANGED <<handle, table, functions, active>>

RegisterAccepted_Deletes(o, key) ==
    /\ handle = "open"
    /\ owner[o] = "caller"
    /\ ~(table[key] # None /\ active = "running")
    /\ table' = [table EXCEPT ![key] = o]
    /\ deletes' = Deleted({o} \cup {table[key]})
    /\ functions' = functions \cup {key[1]}
    /\ owner' = [owner EXCEPT ![o] = "sqlite"]
    /\ UNCHANGED <<handle, active>>

\* sqlite3_create_function_v2 answers SQLITE_OK: an entry of the same name and
\* signature is replaced and its object destroyed, which SQLite does only while no
\* statement is running.
RegisterAccepted(o, key) ==
    /\ handle = "open"
    /\ owner[o] = "caller"
    /\ ~(table[key] # None /\ active = "running")
    /\ table' = [table EXCEPT ![key] = o]
    /\ deletes' = Deleted({table[key]})
    /\ functions' = functions \cup {key[1]}
    /\ owner' = [owner EXCEPT ![o] = "sqlite"]
    /\ UNCHANGED <<handle, active>>

RegisterFailed_DropsOld(o) ==
    /\ handle = "open"
    /\ owner[o] = "caller"
    /\ \E key \in Keys :
          /\ table' = [table EXCEPT ![key] = None]
          /\ deletes' = [Deleted({table[key]}) EXCEPT ![o] = 2]
    /\ owner' = [owner EXCEPT ![o] = "rejected"]
    /\ UNCHANGED <<handle, functions, active>>

\* It answers an error: BUSY for an entry in use, MISUSE for a bad name or argument
\* count.  SQLite has then already called xDestroy, and registerFunction deletes the
\* object a second time.
RegisterFailed(o) ==
    /\ handle = "open"
    /\ owner[o] = "caller"
    /\ deletes' = [deletes EXCEPT ![o] = 2]
    /\ owner' = [owner EXCEPT ![o] = "rejected"]
    /\ UNCHANGED <<handle, table, functions, active>>

\* unregisterFunction passes argument count -1 and encoding 0, which no registered
\* entry has: SQLite adds an entry without callbacks and leaves the others alone.
Unregister(n) ==
    /\ handle = "open"
    /\ functions' = functions \ {n}
    /\ UNCHANGED <<handle, table, owner, deletes, active>>

\* unregisterAllFunctions, the same for every name; it does not ask whether the
\* connection is open.
UnregisterAll ==
    /\ functions' = {}
    /\ UNCHANGED <<handle, table, owner, deletes, active>>

Close_KeepsNames ==
    /\ handle = "open"
    /\ handle' = "none"
    /\ table' = Empty
    /\ deletes' = Deleted(Registered)
    /\ active' = "idle"
    /\ UNCHANGED <<owner, functions>>

\* Connection::close, also from ~Connection: running statements are finalized,
\* sqlite3_close destroys every entry, and the names are cleared.
Close ==
    /\ handle = "open"
    /\ handle' = "none"
    /\ table' = Empty
    /\ deletes' = Deleted(Registered)
    /\ active' = "idle"
    /\ functions' = {}
    /\ UNCHANGED owner

\* A query on the connection is stepped onto a row, or leaves it.
Step ==
    /\ handle = "open"
    /\ active' \in {"idle", "running"}
    /\ UNCHANGED <<handle, table, functions, owner, deletes>>

Next ==
    \/ Open
    \/ Close
    \/ Step
    \/ UnregisterAll
    \/ \E n \in Names : Unregister(n)
    \/ \E o \in Objects :
          \/ Create(o)
          \/ RegisterRefused(o)
          \/ RegisterFailed(o)
          \/ \E key \in Keys : RegisterAccepted(o, key)

Spec == Init /\ [][Next]_vars

\* The life of an object, as its author sees it; "broken" if SQLite may call a deleted
\* object, or cannot call one that nobody deletes.
Life(o) ==
    CASE owner[o] = "unborn" -> "unborn"
      [] owner[o] = "caller" /\ deletes[o] = 0 -> "owned"
      [] owner[o] = "sqlite" /\ o \in Registered /\ deletes[o] = 0 -> "callable"
      [] owner[o] \in {"sqlite", "rejected"} /\ o \notin Registered /\ deletes[o] # 0 -> "gone"
      [] OTHER -> "broken"

Lifetimes ==
    INSTANCE FunctionLifetimes WITH
        connected <- handle = "open",
        life <- [o \in Objects |-> Life(o)]
-----------------------------------------------------------------------------
(* Properties.                                                              *)

\* An object SQLite accepted is deleted exactly when SQLite can no longer call it:
\* no call reaches a deleted Function through Function.hpp:45, over any order of
\* replacing, unregistering, failing and closing.
OwnedBySqlite ==
    \A o \in Objects :
        owner[o] = "sqlite" => deletes[o] = IF o \in Registered THEN 0 ELSE 1

\* unregisterAllFunctions never gives SQLite a null handle although it does not ask:
\* names are listed only while the connection has a handle (Connection.cpp:52-54 and
\* :280-284).
NamesNeedHandle == functions # {} => handle = "open"

\* Registering, replacing, failing, unregistering and closing make the lives of the
\* objects those of FunctionLifetimes: a registration ousts one function at most, one that
\* fails ousts none, what is gone is never called again, and unregistering ends nothing
\* (Connection.cpp:228-285; Function.hpp:60).
ImplementsLifetimes == Lifetimes!Spec

\* No Function is deleted twice (Connection.cpp:258-259).
DeletedOnce == \A o \in Objects : deletes[o] # 2
=============================================================================
