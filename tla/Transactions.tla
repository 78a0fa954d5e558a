---------------------------- MODULE Transactions ----------------------------
(***************************************************************************)
(* Several Connections on one database file: beginTransaction, commit,      *)
(* rollback and transaction() of Connection.cpp over the file locks of      *)
(* SQLite's rollback journal.                                               *)
(*                                                                          *)
(* The library sets no busy timeout and no busy handler, so a lock that is  *)
(* not free is answered at once with an error.  A statement that needs a    *)
(* lock while it runs is two steps, so that others can come in between; a   *)
(* query of the connection can stay on a row across BEGIN, writes, COMMIT   *)
(* and ROLLBACK of the same connection, and keeps its lock as long.         *)
(* Callbacks use the connection for statements and for transaction(), and   *)
(* leave BEGIN, COMMIT and ROLLBACK to it.  A definition X_Y is X with one  *)
(* plausible slip, Y, in it.                                                *)
(***************************************************************************)
EXTENDS Naturals

CONSTANTS
    Clients,        \* connections, each used by one thread
    Contents,       \* what the database can hold
    None,           \* no content
    MaxDepth        \* bound on nested calls of transaction()

ASSUME TransactionsAssumption ==
    /\ None \notin Contents
    /\ MaxDepth \in Nat

VARIABLES
    file,           \* the committed content
    lock,           \* per client, SQLite's lock on the file
    autocommit,     \* sqlite3_get_autocommit: "on", or "off" after BEGIN
    dirty,          \* the content the client's open transaction or statement has
                    \* made, None if it has changed nothing
    reading,        \* "yes" while its query stands on a row
    stage,          \* "calm", or "writing" inside an autocommitted exec
    depth,          \* transaction() calls on the client's stack
    answer          \* Result of its last call: "success" or "error"

vars == <<file, lock, autocommit, dirty, reading, stage, depth, answer>>

TransactionTypes == {"Deferred", "Immediate", "Exclusive"}

\* "stuck" is a PENDING lock without a transaction to write.
Locks == {"none", "shared", "reserved", "stuck", "pending", "exclusive"}

TypeOK ==
    /\ file \in Contents
    /\ lock \in [Clients -> Locks]
    /\ autocommit \in [Clients -> {"on", "off"}]
    /\ dirty \in [Clients -> Contents \cup {None}]
    /\ reading \in [Clients -> {"yes", "no"}]
    /\ stage \in [Clients -> {"calm", "writing"}]
    /\ depth \in [Clients -> 0..MaxDepth]
    /\ answer \in [Clients -> {"success", "error"}]

Init ==
    /\ file \in Contents
    /\ lock = [c \in Clients |-> "none"]
    /\ autocommit = [c \in Clients |-> "on"]
    /\ dirty = [c \in Clients |-> None]
    /\ reading = [c \in Clients |-> "no"]
    /\ stage = [c \in Clients |-> "calm"]
    /\ depth = [c \in Clients |-> 0]
    /\ answer = [c \in Clients |-> "success"]
-----------------------------------------------------------------------------
(* When SQLite grants a lock.                                               *)

CanShare_PastPending(c) == \A d \in Clients \ {c} : lock[d] # "exclusive"

CanShare(c) == \A d \in Clients \ {c} : lock[d] \notin {"stuck", "pending", "exclusive"}

CanReserve(c) ==
    \A d \in Clients \ {c} : lock[d] \notin {"reserved", "stuck", "pending", "exclusive"}

Alone(c) == \A d \in Clients \ {c} : lock[d] = "none"

\* SQLite has opened a write transaction, changed or not: sqlite3BtreeIsInTrans.
MayWrite(c) == lock[c] \in {"reserved", "pending", "exclusive"}

\* The lock of a connection that may write, from the one it has.
Reserving(l) ==
    CASE l \in {"none", "shared"} -> "reserved"
      [] l = "stuck" -> "pending"
      [] OTHER -> l

Answers(c, r) == answer' = [answer EXCEPT ![c] = r]

Kept_Nothing(c) == "none"

\* What a connection holds when its transaction is over: an open query reads on.
Kept(c) ==
    IF reading[c] = "no" THEN "none" ELSE IF lock[c] = "stuck" THEN "stuck" ELSE "shared"

\* The transaction is over and what was not committed is forgotten.
Release(c) ==
    /\ lock' = [lock EXCEPT ![c] = Kept(c)]
    /\ dirty' = [dirty EXCEPT ![c] = None]
    /\ autocommit' = [autocommit EXCEPT ![c] = "on"]
-----------------------------------------------------------------------------
(* BEGIN, COMMIT and ROLLBACK as exec() runs them.                          *)

Granted_NamesTheType(c, type) == IF type = "Deferred" THEN lock[c] ELSE type

\* The lock after BEGIN.  It locks before it looks whether a transaction is open, so a
\* nested BEGIN can leave a lock to the outer transaction; and if it cannot have the
\* file for itself its PENDING lock goes only if no other statement reads.
Granted(c, type) ==
    LET l == lock[c]
    IN  IF \/ type = "Deferred" \/ ~CanReserve(c)
           \/ l \in {"reserved", "pending", "exclusive"} THEN l
        ELSE IF type = "Immediate" THEN Reserving(l)
        ELSE IF Alone(c) THEN "exclusive"
        ELSE IF l = "none" THEN "none" ELSE "stuck"

MayBegin(c, type) ==
    /\ autocommit[c] = "on"
    /\ type # "Deferred" => CanReserve(c)
    /\ type = "Exclusive" => Alone(c)

Begins(c, type) ==
    /\ MayBegin(c, type)
    /\ lock' = [lock EXCEPT ![c] = Granted(c, type)]
    /\ autocommit' = [autocommit EXCEPT ![c] = "off"]
    /\ Answers(c, "success")
    /\ UNCHANGED <<file, dirty, reading>>

\* COMMIT outside a transaction is an error.  To end a write transaction it needs the
\* file for itself, whether anything was written or not; if a reader is left it
\* answers BUSY, and the transaction stays open with a PENDING lock that keeps new
\* readers out.  An open query of its own is no obstacle.
ExecCommit(c) ==
    \/ /\ autocommit[c] = "on"
       /\ Answers(c, "error")
       /\ UNCHANGED <<file, lock, dirty, autocommit, reading>>
    \/ /\ autocommit[c] = "off"
       /\ MayWrite(c) => Alone(c)
       /\ file' = IF dirty[c] = None THEN file ELSE dirty[c]
       /\ Release(c)
       /\ Answers(c, "success")
       /\ UNCHANGED reading
    \/ /\ autocommit[c] = "off"
       /\ MayWrite(c) /\ ~Alone(c)
       /\ lock' = [lock EXCEPT ![c] = "pending"]
       /\ Answers(c, "error")
       /\ UNCHANGED <<file, dirty, autocommit, reading>>

ExecRollback(c) ==
    \/ /\ autocommit[c] = "on"
       /\ Answers(c, "error")
       /\ UNCHANGED <<file, lock, dirty, autocommit, reading>>
    \/ /\ autocommit[c] = "off"
       /\ Release(c)
       /\ Answers(c, "success")
       /\ UNCHANGED <<file, reading>>
-----------------------------------------------------------------------------
(* Statements.                                                              *)

\* A Query steps onto a row.
QueryOpens(c) ==
    /\ stage[c] = "calm" /\ reading[c] = "no"
    /\ lock[c] = "none" => CanShare(c)
    /\ lock' = [lock EXCEPT ![c] = IF @ = "none" THEN "shared" ELSE @]
    /\ reading' = [reading EXCEPT ![c] = "yes"]
    /\ Answers(c, "success")
    /\ UNCHANGED <<file, autocommit, dirty, stage, depth>>

QueryCloses_KeepsLock(c) ==
    /\ stage[c] = "calm" /\ reading[c] = "yes"
    /\ reading' = [reading EXCEPT ![c] = "no"]
    /\ UNCHANGED <<file, lock, autocommit, dirty, stage, depth, answer>>

\* It reaches the end, is reset, closed or deleted: finilize gives the lock back unless
\* a transaction is open.
QueryCloses(c) ==
    /\ stage[c] = "calm" /\ reading[c] = "yes"
    /\ reading' = [reading EXCEPT ![c] = "no"]
    /\ lock' = [lock EXCEPT ![c] = IF autocommit[c] = "on" THEN "none" ELSE @]
    /\ UNCHANGED <<file, autocommit, dirty, stage, depth, answer>>

\* exec() of a statement that changes the database to w.
Writes(c, w) ==
    /\ stage[c] = "calm"
    /\ CanReserve(c)
    /\ lock' = [lock EXCEPT ![c] = Reserving(@)]
    /\ dirty' = [dirty EXCEPT ![c] = w]
    /\ stage' = [stage EXCEPT ![c] = IF autocommit[c] = "on" THEN "writing" ELSE @]
    /\ Answers(c, "success")
    /\ UNCHANGED <<file, autocommit, reading, depth>>

\* Outside a transaction the statement commits itself, or is undone if a reader is
\* left.
WriteEnds(c) ==
    /\ stage[c] = "writing"
    /\ stage' = [stage EXCEPT ![c] = "calm"]
    /\ IF Alone(c)
       THEN file' = dirty[c] /\ Answers(c, "success")
       ELSE file' = file /\ Answers(c, "error")
    /\ Release(c)
    /\ UNCHANGED <<reading, depth>>

\* A statement is refused a lock or fails for a reason of its own, and is undone.  An
\* open transaction keeps the lock that the statement had got before it failed.
StatementFails(c) ==
    /\ stage[c] = "calm"
    /\ \/ lock' = lock
       \/ /\ autocommit[c] = "off" /\ lock[c] = "none" /\ CanShare(c)
          /\ lock' = [lock EXCEPT ![c] = "shared"]
       \/ /\ autocommit[c] = "off" /\ CanReserve(c)
          /\ lock' = [lock EXCEPT ![c] = Reserving(@)]
    /\ Answers(c, "error")
    /\ UNCHANGED <<file, autocommit, dirty, reading, stage, depth>>

\* A full disk, an I/O error or an interrupt: SQLite answers the statement with an
\* error and rolls the whole transaction back.
SqliteRollsBack(c) ==
    /\ stage[c] = "calm"
    /\ autocommit[c] = "off"
    /\ Release(c)
    /\ Answers(c, "error")
    /\ UNCHANGED <<file, reading, stage, depth>>
-----------------------------------------------------------------------------
(* Connection.                                                              *)

\* beginTransaction, commit and rollback, called outside any transaction().
BeginTransaction(c, type) ==
    /\ stage[c] = "calm" /\ depth[c] = 0
    /\ Begins(c, type)
    /\ UNCHANGED <<stage, depth>>

Commit(c) ==
    /\ stage[c] = "calm" /\ depth[c] = 0
    /\ ExecCommit(c)
    /\ UNCHANGED <<stage, depth>>

Rollback(c) ==
    /\ stage[c] = "calm" /\ depth[c] = 0
    /\ ExecRollback(c)
    /\ UNCHANGED <<stage, depth>>

Enter_IgnoresBegin(c, type) ==
    /\ stage[c] = "calm"
    /\ depth[c] < MaxDepth
    /\ \/ Begins(c, type)
       \/ ~MayBegin(c, type) /\ UNCHANGED <<file, lock, autocommit, dirty, reading, answer>>
    /\ depth' = [depth EXCEPT ![c] = @ + 1]
    /\ UNCHANGED stage

\* transaction() up to the call of the callback.
Enter(c, type) ==
    /\ stage[c] = "calm"
    /\ depth[c] < MaxDepth
    /\ Begins(c, type)
    /\ depth' = [depth EXCEPT ![c] = @ + 1]
    /\ UNCHANGED stage

\* beginTransaction or transaction() whose BEGIN is refused: in a transaction
\* already, or a lock is not free.  The callback does not run.
BeginRefused(c, type) ==
    /\ stage[c] = "calm"
    /\ ~MayBegin(c, type)
    /\ lock' = [lock EXCEPT ![c] = Granted(c, type)]
    /\ Answers(c, "error")
    /\ UNCHANGED <<file, autocommit, dirty, reading, stage, depth>>

ReturnsTrue_IgnoresBusy(c) ==
    /\ stage[c] = "calm" /\ depth[c] > 0
    /\ \/ ExecCommit(c) /\ answer'[c] = "success"
       \/ /\ autocommit[c] = "on" \/ (MayWrite(c) /\ ~Alone(c))
          /\ Answers(c, "success")
          /\ UNCHANGED <<file, lock, dirty, autocommit, reading>>
    /\ depth' = [depth EXCEPT ![c] = @ - 1]
    /\ UNCHANGED stage

\* The callback answers true; transaction() returns what commit() does.
ReturnsTrue(c) ==
    /\ stage[c] = "calm" /\ depth[c] > 0
    /\ ExecCommit(c)
    /\ depth' = [depth EXCEPT ![c] = @ - 1]
    /\ UNCHANGED stage

\* The callback answers false.
ReturnsFalse(c) ==
    /\ stage[c] = "calm" /\ depth[c] > 0
    /\ ExecRollback(c)
    /\ depth' = [depth EXCEPT ![c] = @ - 1]
    /\ UNCHANGED stage

\* The callback throws: transaction() has nothing that would end the transaction.
Throws(c) ==
    /\ stage[c] = "calm" /\ depth[c] > 0
    /\ depth' = [depth EXCEPT ![c] = @ - 1]
    /\ UNCHANGED <<file, lock, autocommit, dirty, reading, stage, answer>>

\* The Connection is closed, or its process ends, and a new one is opened.
Restart(c) ==
    /\ lock' = [lock EXCEPT ![c] = "none"]
    /\ dirty' = [dirty EXCEPT ![c] = None]
    /\ autocommit' = [autocommit EXCEPT ![c] = "on"]
    /\ reading' = [reading EXCEPT ![c] = "no"]
    /\ stage' = [stage EXCEPT ![c] = "calm"]
    /\ depth' = [depth EXCEPT ![c] = 0]
    /\ Answers(c, "success")
    /\ UNCHANGED file

Next ==
    \E c \in Clients :
        \/ QueryOpens(c) \/ QueryCloses(c) \/ WriteEnds(c)
        \/ StatementFails(c) \/ SqliteRollsBack(c)
        \/ Commit(c) \/ Rollback(c)
        \/ ReturnsTrue(c) \/ ReturnsFalse(c) \/ Throws(c) \/ Restart(c)
        \/ \E w \in Contents : Writes(c, w)
        \/ \E type \in TransactionTypes :
              BeginTransaction(c, type) \/ Enter(c, type) \/ BeginRefused(c, type)

\* A statement that has begun ends, a callback returns, a caller whose transaction is
\* still open tries commit() again, and now and then one without a transaction
\* finishes its query before it begins the next.
Fairness ==
    \A c \in Clients :
        /\ WF_vars(WriteEnds(c))
        /\ SF_vars(ReturnsTrue(c) \/ ReturnsFalse(c) \/ Throws(c))
        /\ SF_vars(autocommit[c] = "off" /\ Commit(c))
        /\ SF_vars(autocommit[c] = "on" /\ QueryCloses(c))

Spec == Init /\ [][Next]_vars

FairSpec == Spec /\ Fairness
-----------------------------------------------------------------------------
(* Properties.                                                              *)

\* A transaction() that answers success has no transaction open any more, and no lock
\* that a query of its own does not need.  What the transaction that was open when the
\* callback returned had written is in the file then if the callback answered true, and
\* nothing is put there if it answered false (Connection.cpp:108-113).
SuccessIsFinal ==
    [][\A c \in Clients :
          /\ (ReturnsTrue(c) \/ ReturnsFalse(c)) /\ answer'[c] = "success"
                => /\ autocommit'[c] = "on"
                   /\ IF reading[c] = "no" THEN lock'[c] = "none"
                                         ELSE lock'[c] \in {"shared", "stuck"}
          /\ ReturnsTrue(c) /\ answer'[c] = "success" /\ dirty[c] # None
                => file' = dirty[c]
          /\ ReturnsFalse(c) => file' = file]_vars

\* A connection that is neither in a transaction nor in a statement holds no lock
\* and no change, and one whose query is open holds only what this query gives back:
\* no call of the library leaves a lock that no later call releases.
LocksHaveOwners ==
    \A c \in Clients :
        autocommit[c] = "on" /\ stage[c] = "calm" =>
            /\ dirty[c] = None
            /\ IF reading[c] = "no" THEN lock[c] = "none" ELSE lock[c] \in {"shared", "stuck"}

\* The database does not change under an open query unless its own connection commits,
\* in whatever order the connections begin, commit, roll back and fail.
QueriesSeeOneState ==
    [][\A c \in Clients :
          reading[c] = "yes" /\ file' # file => dirty[c] # None /\ dirty'[c] = None]_vars

\* A COMMIT that was answered BUSY can be tried again: as long as its transaction is open,
\* no connection that held no lock gets one, and the file changes only by the commit of
\* what this connection has written (Connection.cpp:94-96).
BusyCommitKeepsItsTurn ==
    [][\A c \in Clients :
          lock[c] = "pending" =>
              /\ lock'[c] = "pending" =>
                    \A d \in Clients \ {c} : lock[d] = "none" => lock'[d] = "none"
              /\ file' # file => file' = dirty[c] /\ dirty'[c] = None]_vars

\* While a callback runs, what it writes stays out of the file
\* (Connection.cpp:102-113).
CallbackWritesWait ==
    [][\A c \in Clients : depth[c] > 0 /\ WriteEnds(c) => file' = file]_vars

\* A transaction that was left open, by a busy COMMIT or by a callback that threw, with
\* changes or with nothing but its locks, ends if its caller keeps trying commit(): the
\* PENDING lock keeps new readers out until the old ones are gone (Connection.cpp:94-96).
OpenTransactionsEnd ==
    \A c \in Clients :
        autocommit[c] = "off" /\ depth[c] = 0 ~> autocommit[c] = "on"

\* A transaction is open between BEGIN and COMMIT; a client that holds any lock has
\* seen the file as it is.
OpenNow == [c \in Clients |-> IF autocommit[c] = "off" THEN "open" ELSE "none"]
Seen == [c \in Clients |-> IF lock[c] = "none" THEN None ELSE file]

Atomic == INSTANCE AtomicTransactions
            WITH db <- file,
                 open <- OpenNow,
                 level <- depth,
                 seen <- Seen,
                 draft <- dirty

\* Every step of this module is a step of AtomicTransactions or changes nothing
\* there: the locks let no transaction commit over a change it has not seen.
ImplementsAtomic == Atomic!Spec
=============================================================================
