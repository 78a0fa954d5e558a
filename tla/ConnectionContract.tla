------------------------- MODULE ConnectionContract -------------------------
(***************************************************************************)
(* What Connection and Cursor promise their caller about lifetimes, with    *)
(* none of the bookkeeping that keeps the promise: closing a connection     *)
(* always succeeds and takes every compiled statement with it, a statement  *)
(* can be compiled only on an open connection, and a cursor outlives the    *)
(* connection as an idle object.  Module Lifecycle implements this one.     *)
(***************************************************************************)
CONSTANT Stmts      \* the Statement objects a program can own

VARIABLES
    conn,           \* "closed", "open", or "gone" once the Connection is destroyed
    cursor          \* per object: "absent", "idle" or "compiled"

vars == <<conn, cursor>>

TypeOK ==
    /\ conn \in {"closed", "open", "gone"}
    /\ cursor \in [Stmts -> {"absent", "idle", "compiled"}]

Init ==
    /\ conn = "closed"
    /\ cursor = [s \in Stmts |-> "absent"]

\* Every statement compiled on the connection is finalized; objects stay.
Idle == [s \in Stmts |-> IF cursor[s] = "compiled" THEN "idle" ELSE cursor[s]]

Open ==
    /\ conn = "closed"
    /\ conn' = "open"
    /\ UNCHANGED cursor

Close ==
    /\ conn = "open"
    /\ conn' = "closed"
    /\ cursor' = Idle

Destroy ==
    /\ conn # "gone"
    /\ conn' = "gone"
    /\ cursor' = Idle

\* A new object, compiled at once when the connection is open and the SQL good.
Create(s) ==
    /\ conn # "gone"
    /\ cursor[s] = "absent"
    /\ \E c \in {"idle"} \cup (IF conn = "open" THEN {"compiled"} ELSE {}) :
          cursor' = [cursor EXCEPT ![s] = c]
    /\ UNCHANGED conn

Compile(s) ==
    /\ conn = "open"
    /\ cursor[s] = "idle"
    /\ cursor' = [cursor EXCEPT ![s] = "compiled"]
    /\ UNCHANGED conn

Finish(s) ==
    /\ cursor[s] = "compiled"
    /\ cursor' = [cursor EXCEPT ![s] = "idle"]
    /\ UNCHANGED conn

Discard(s) ==
    /\ cursor[s] # "absent"
    /\ cursor' = [cursor EXCEPT ![s] = "absent"]
    /\ UNCHANGED conn

Next ==
    \/ Open
    \/ Close
    \/ Destroy
    \/ \E s \in Stmts : Create(s) \/ Compile(s) \/ Finish(s) \/ Discard(s)

Spec == Init /\ [][Next]_vars
=============================================================================
