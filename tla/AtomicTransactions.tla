------------------------- MODULE AtomicTransactions -------------------------
(***************************************************************************)
(* What Connection::transaction promises, without locks: a callback's       *)
(* changes reach the database in one step, when the call returns, and only  *)
(* if the database is still the one the callback looked at.  The exceptions *)
(* are part of the promise: a COMMIT that is refused leaves the transaction *)
(* open after the call, and a transaction SQLite rolled back by itself      *)
(* leaves the callback writing statement by statement.  Module Transactions *)
(* implements this one.                                                     *)
(***************************************************************************)
EXTENDS Naturals

CONSTANTS
    Clients,        \* the connections on one database file
    Contents,       \* what the database can hold
    None,           \* no content
    MaxDepth        \* bound on nested calls of transaction()

VARIABLES
    db,             \* what every new reader sees
    open,           \* per client: "open" inside BEGIN ... COMMIT, else "none"
    level,          \* how many transaction() calls of the client are running
    seen,           \* the content its transaction or statement is based on
    draft           \* the content it has made of that, None if it changed nothing

vars == <<db, open, level, seen, draft>>

Blank == [c \in Clients |-> None]

Init ==
    /\ db \in Contents
    /\ open = [c \in Clients |-> "none"]
    /\ level = [c \in Clients |-> 0]
    /\ seen = Blank
    /\ draft = Blank

\* The transaction or statement of c is over: nothing is drafted, and nothing is seen
\* but by a query that is still open.
Clear(c) ==
    /\ seen' \in {[seen EXCEPT ![c] = None], [seen EXCEPT ![c] = db']}
    /\ draft' = [draft EXCEPT ![c] = None]

\* c returns from its innermost transaction() call, if it is in one.
Return(c) == level' = [level EXCEPT ![c] = IF @ = 0 THEN 0 ELSE @ - 1]

Look(c) ==
    /\ seen[c] = None
    /\ seen' = [seen EXCEPT ![c] = db]
    /\ UNCHANGED <<db, open, level, draft>>

Change(c, w) ==
    /\ seen[c] \in {None, db}
    /\ seen' = [seen EXCEPT ![c] = db]
    /\ draft' = [draft EXCEPT ![c] = w]
    /\ UNCHANGED <<db, open, level>>

\* BEGIN, by itself or at the start of a transaction() call.
Begin(c) ==
    /\ open[c] = "none"
    /\ open' = [open EXCEPT ![c] = "open"]
    /\ \/ level[c] = 0 /\ level' = level
       \/ level[c] < MaxDepth /\ level' = [level EXCEPT ![c] = @ + 1]
    /\ seen' \in {seen, [seen EXCEPT ![c] = db]}
    /\ UNCHANGED <<db, draft>>

\* COMMIT: the draft becomes the database, on which it was based.
Commit(c) ==
    /\ open[c] = "open"
    /\ db' = IF draft[c] = None THEN db ELSE draft[c]
    /\ draft[c] # None => seen[c] = db
    /\ open' = [open EXCEPT ![c] = "none"]
    /\ Clear(c)
    /\ Return(c)

Rollback(c) ==
    /\ open[c] = "open"
    /\ open' = [open EXCEPT ![c] = "none"]
    /\ UNCHANGED db
    /\ Clear(c)
    /\ Return(c)

\* transaction() returns without an end of the transaction: COMMIT refused, a
\* callback that threw, or nothing left to end.
Leave(c) ==
    /\ level[c] > 0
    /\ Return(c)
    /\ UNCHANGED <<db, open, seen, draft>>

\* SQLite rolls back by itself; the callback goes on.
Break(c) ==
    /\ open[c] = "open"
    /\ open' = [open EXCEPT ![c] = "none"]
    /\ UNCHANGED <<db, level>>
    /\ Clear(c)

\* The end of a statement outside a transaction.
StatementEnds(c) ==
    /\ open[c] = "none"
    /\ \/ db' = db
       \/ draft[c] # None /\ seen[c] = db /\ db' = draft[c]
    /\ Clear(c)
    /\ UNCHANGED <<open, level>>

\* The connection is closed, or its process ends.
Restart(c) ==
    /\ open' = [open EXCEPT ![c] = "none"]
    /\ level' = [level EXCEPT ![c] = 0]
    /\ UNCHANGED db
    /\ Clear(c)

Next ==
    \E c \in Clients :
        \/ Look(c) \/ Begin(c) \/ Commit(c) \/ Rollback(c) \/ Leave(c)
        \/ Break(c) \/ StatementEnds(c) \/ Restart(c)
        \/ \E w \in Contents : Change(c, w)

Spec == Init /\ [][Next]_vars
=============================================================================
