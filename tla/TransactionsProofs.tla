------------------------- MODULE TransactionsProofs -------------------------
(***************************************************************************)
(* Proofs about Transactions for every number of connections, every set of  *)
(* contents and every depth of nesting.  Inv adds to the checked invariants *)
(* what SQLite's locks guarantee and what an unfinished statement holds.    *)
(***************************************************************************)
EXTENDS Transactions, TLAPS

Writing == {"reserved", "stuck", "pending", "exclusive"}

\* At most one connection may change the file, and an EXCLUSIVE lock is alone.
LocksExclude ==
    \A c \in Clients : \A d \in Clients \ {c} :
        /\ lock[c] \in Writing => lock[d] \notin Writing
        /\ lock[c] = "exclusive" => lock[d] = "none"

\* What is changed or read is protected by a lock; an autocommitted statement has changed
\* something exactly while it is writing.
ChangesAreLocked ==
    \A c \in Clients :
        /\ dirty[c] # None => MayWrite(c)
        /\ reading[c] = "yes" => lock[c] # "none"
        /\ stage[c] = "writing" => autocommit[c] = "on" /\ dirty[c] # None
        /\ autocommit[c] = "on" /\ stage[c] # "writing" => dirty[c] = None

Inv == TypeOK /\ LocksHaveOwners /\ LocksExclude /\ ChangesAreLocked

USE DEF Locks, Writing, Reserving, MayWrite

\* A transaction that is over leaves at most what an open query of its own needs, and
\* no lock that was not there.
LEMMA KeptLocks ==
    ASSUME Inv, NEW c \in Clients
    PROVE  /\ Kept(c) \in {"none", "shared", "stuck"}
           /\ reading[c] = "no" => Kept(c) = "none"
           /\ reading[c] = "yes" => Kept(c) \in {"shared", "stuck"}
           /\ Kept(c) = "stuck" => lock[c] = "stuck"
           /\ Kept(c) # "none" => lock[c] # "none"
<1> USE DEF Inv, TypeOK
<1>1. CASE reading[c] = "no"
  BY <1>1 DEF Kept
<1>2. CASE reading[c] = "yes"
  BY <1>2 DEF Kept, ChangesAreLocked
<1>3. QED
  BY <1>1, <1>2

\* The end of a transaction or of a statement that wrote keeps the invariant.
LEMMA ReleaseKeepsInv ==
    ASSUME Inv, NEW c \in Clients, Release(c), UNCHANGED reading, file' \in Contents,
           stage' = [stage EXCEPT ![c] = "calm"], depth' \in [Clients -> 0..MaxDepth],
           answer' \in [Clients -> {"success", "error"}]
    PROVE  Inv'
<1> USE DEF Inv, TypeOK
<1> DEFINE k == Kept(c)
<1>1. /\ k \in {"none", "shared", "stuck"}
      /\ reading[c] = "no" => k = "none"
      /\ reading[c] = "yes" => k \in {"shared", "stuck"}
      /\ k = "stuck" => lock[c] = "stuck"
      /\ k # "none" => lock[c] # "none"
  BY KeptLocks
<1>2. /\ lock' = [lock EXCEPT ![c] = k]
      /\ dirty' = [dirty EXCEPT ![c] = None]
      /\ autocommit' = [autocommit EXCEPT ![c] = "on"]
  BY DEF Release
<1> HIDE DEF k
<1>3. TypeOK'
  BY <1>1, <1>2
<1>4. LocksHaveOwners'
  BY <1>1, <1>2 DEF LocksHaveOwners
<1>5. LocksExclude'
  BY <1>1, <1>2 DEF LocksExclude
<1>6. ChangesAreLocked'
  BY <1>1, <1>2 DEF ChangesAreLocked
<1>7. QED
  BY <1>3, <1>4, <1>5, <1>6

\* What a BEGIN can make of the lock, granted or not.
LEMMA GrantedLocks ==
    ASSUME Inv, NEW c \in Clients, NEW type \in TransactionTypes
    PROVE  /\ Granted(c, type) \in Locks
           /\ Granted(c, type) = lock[c] \/ CanReserve(c)
           /\ Granted(c, type) = "exclusive" => lock[c] = "exclusive" \/ Alone(c)
           /\ lock[c] \in Writing => Granted(c, type) \in Writing
           /\ MayWrite(c) => Granted(c, type) = lock[c]
           /\ lock[c] # "none" => Granted(c, type) # "none"
           /\ Alone(c) \/ lock[c] # "none" \/ Granted(c, type) = "none"
                 \/ Granted(c, type) = "reserved"
           /\ Granted(c, type) # "exclusive" /\ Granted(c, type) # lock[c]
                 => Granted(c, type) = Reserving(lock[c]) \/ Granted(c, type) = "stuck"
<1> DEFINE l == lock[c]
<1>1. l \in Locks
  BY DEF Inv, TypeOK
<1>2. CASE \/ type = "Deferred" \/ ~CanReserve(c)
           \/ l \in {"reserved", "pending", "exclusive"}
  <2>1. Granted(c, type) = l
    BY <1>2 DEF Granted
  <2>2. QED
    BY <1>1, <2>1
<1>3. CASE /\ ~(type = "Deferred" \/ ~CanReserve(c))
           /\ l \notin {"reserved", "pending", "exclusive"}
  <2>1. CASE type = "Immediate"
    BY <1>1, <1>3, <2>1 DEF Granted
  <2>2. CASE type # "Immediate" /\ Alone(c)
    BY <1>1, <1>3, <2>2 DEF Granted
  <2>3. CASE type # "Immediate" /\ ~Alone(c)
    BY <1>1, <1>3, <2>3 DEF Granted
  <2>4. QED
    BY <2>1, <2>2, <2>3
<1>4. QED
  BY <1>2, <1>3

\* A BEGIN of any type keeps the invariant, granted or not.
LEMMA BeginKeepsInv ==
    ASSUME Inv, NEW c \in Clients, NEW type \in TransactionTypes, stage[c] = "calm",
           lock' = [lock EXCEPT ![c] = Granted(c, type)],
           \/ autocommit' = [autocommit EXCEPT ![c] = "off"]
           \/ autocommit' = autocommit /\ ~MayBegin(c, type),
           UNCHANGED <<file, dirty, reading, stage>>, depth' \in [Clients -> 0..MaxDepth],
           answer' \in [Clients -> {"success", "error"}]
    PROVE  Inv'
<1> USE DEF Inv, TypeOK
<1> DEFINE g == Granted(c, type)
<1>1. /\ g \in Locks
      /\ g = lock[c] \/ CanReserve(c)
      /\ g = "exclusive" => lock[c] = "exclusive" \/ Alone(c)
      /\ lock[c] \in Writing => g \in Writing
      /\ MayWrite(c) => g = lock[c]
      /\ lock[c] # "none" => g # "none"
  BY GrantedLocks
<1>2. autocommit' = autocommit /\ autocommit[c] = "on" =>
         /\ reading[c] = "no" => g = "none"
         /\ reading[c] = "yes" => g \in {"shared", "stuck"}
  BY DEF LocksHaveOwners, Granted, MayBegin, TransactionTypes
<1>3. lock' = [lock EXCEPT ![c] = g]
  OBVIOUS
<1> HIDE DEF g
<1>4. TypeOK'
  <2>1. lock' \in [Clients -> Locks] /\ autocommit' \in [Clients -> {"on", "off"}]
    BY <1>1, <1>3
  <2>2. QED
    BY <2>1
<1>5. LocksHaveOwners'
  BY <1>1, <1>2, <1>3 DEF LocksHaveOwners
<1>6. LocksExclude'
  BY <1>1, <1>3 DEF LocksExclude, CanReserve, Alone
<1>7. ChangesAreLocked'
  BY <1>1, <1>3 DEF ChangesAreLocked, LocksHaveOwners
<1>8. QED
  BY <1>4, <1>5, <1>6, <1>7

\* Nothing but an answer changes.
LEMMA AnswerKeepsInv ==
    ASSUME Inv, UNCHANGED <<file, lock, autocommit, dirty, reading, stage>>,
           depth' \in [Clients -> 0..MaxDepth],
           answer' \in [Clients -> {"success", "error"}]
    PROVE  Inv'
<1> USE DEF Inv
<1>1. TypeOK' /\ LocksHaveOwners'
  BY DEF TypeOK, LocksHaveOwners
<1>2. LocksExclude' /\ ChangesAreLocked'
  BY DEF LocksExclude, ChangesAreLocked
<1>3. QED
  BY <1>1, <1>2

\* So does whatever COMMIT answers.
LEMMA CommitKeepsInv ==
    ASSUME Inv, NEW c \in Clients, stage[c] = "calm", ExecCommit(c), UNCHANGED stage,
           depth' \in [Clients -> 0..MaxDepth]
    PROVE  Inv'
<1> USE DEF Inv, TypeOK, ExecCommit, Answers
<1>1. stage' = [stage EXCEPT ![c] = "calm"]
  OBVIOUS
<1>2. CASE autocommit[c] = "on"
  BY <1>2, AnswerKeepsInv
<1>3. CASE autocommit[c] = "off" /\ (MayWrite(c) => Alone(c))
  <2>1. /\ Release(c) /\ UNCHANGED reading /\ file' \in Contents
        /\ answer' \in [Clients -> {"success", "error"}]
    BY <1>3
  <2>2. QED
    BY <1>1, <2>1, ReleaseKeepsInv
<1>4. CASE autocommit[c] = "off" /\ MayWrite(c) /\ ~Alone(c)
  <2>1. TypeOK' /\ LocksHaveOwners' /\ LocksExclude'
    BY <1>4 DEF LocksHaveOwners, LocksExclude, ChangesAreLocked
  <2>2. ChangesAreLocked'
    BY <1>4 DEF ChangesAreLocked
  <2>3. QED
    BY <2>1, <2>2
<1>5. QED
  BY <1>2, <1>3, <1>4

LEMMA RollbackKeepsInv ==
    ASSUME Inv, NEW c \in Clients, stage[c] = "calm", ExecRollback(c), UNCHANGED stage,
           depth' \in [Clients -> 0..MaxDepth]
    PROVE  Inv'
<1> USE DEF Inv, TypeOK, ExecRollback, Answers
<1>1. CASE autocommit[c] = "on"
  BY <1>1, AnswerKeepsInv
<1>2. CASE autocommit[c] = "off"
  <2>1. /\ Release(c) /\ UNCHANGED reading /\ file' \in Contents
        /\ stage' = [stage EXCEPT ![c] = "calm"]
        /\ answer' \in [Clients -> {"success", "error"}]
    BY <1>2
  <2>2. QED
    BY <2>1, ReleaseKeepsInv
<1>3. QED
  BY <1>1, <1>2

LEMMA InitEstablishesInv == Init => Inv
  BY TransactionsAssumption
     DEF Init, Inv, TypeOK, LocksHaveOwners, LocksExclude, ChangesAreLocked

LEMMA NextKeepsInv == Inv /\ [Next]_vars => Inv'
<1> SUFFICES ASSUME Inv, [Next]_vars
             PROVE  Inv'
  OBVIOUS
<1> USE DEF Inv, TypeOK
<1>1. ASSUME NEW c \in Clients, QueryOpens(c)
      PROVE  Inv'
  BY <1>1 DEF QueryOpens, Answers, CanShare, LocksHaveOwners, LocksExclude, ChangesAreLocked
<1>2. ASSUME NEW c \in Clients, QueryCloses(c)
      PROVE  Inv'
  BY <1>2 DEF QueryCloses, LocksHaveOwners, LocksExclude, ChangesAreLocked
<1>3. ASSUME NEW c \in Clients, WriteEnds(c)
      PROVE  Inv'
  <2>1. /\ Release(c) /\ UNCHANGED <<reading, depth>>
        /\ stage' = [stage EXCEPT ![c] = "calm"]
        /\ file' \in Contents /\ answer' \in [Clients -> {"success", "error"}]
    BY <1>3 DEF WriteEnds, Answers, ChangesAreLocked
  <2>2. QED
    BY <2>1, ReleaseKeepsInv
<1>4. ASSUME NEW c \in Clients, StatementFails(c)
      PROVE  Inv'
  <2> USE <1>4 DEF StatementFails, Answers
  <2>1. TypeOK' /\ LocksHaveOwners'
    BY DEF LocksHaveOwners
  <2>2. LocksExclude'
    BY DEF LocksExclude, CanShare, CanReserve
  <2>3. ChangesAreLocked'
    BY DEF ChangesAreLocked
  <2>4. QED
    BY <2>1, <2>2, <2>3
<1>5. ASSUME NEW c \in Clients, SqliteRollsBack(c)
      PROVE  Inv'
  BY <1>5, ReleaseKeepsInv DEF SqliteRollsBack, Answers
<1>6. ASSUME NEW c \in Clients, NEW w \in Contents, Writes(c, w)
      PROVE  Inv'
  <2> USE <1>6 DEF Writes, Answers
  <2>1. TypeOK' /\ LocksHaveOwners'
    BY DEF LocksHaveOwners
  <2>2. LocksExclude'
    BY DEF LocksExclude, CanReserve
  <2>3. ChangesAreLocked'
    BY TransactionsAssumption DEF ChangesAreLocked
  <2>4. QED
    BY <2>1, <2>2, <2>3
<1>7. ASSUME NEW c \in Clients, Commit(c) \/ ReturnsTrue(c)
      PROVE  Inv'
  <2>1. depth' \in [Clients -> 0..MaxDepth]
    BY <1>7, TransactionsAssumption DEF Commit, ReturnsTrue
  <2>2. QED
    BY <1>7, <2>1, CommitKeepsInv DEF Commit, ReturnsTrue
<1>8. ASSUME NEW c \in Clients, Rollback(c) \/ ReturnsFalse(c)
      PROVE  Inv'
  <2>1. depth' \in [Clients -> 0..MaxDepth]
    BY <1>8, TransactionsAssumption DEF Rollback, ReturnsFalse
  <2>2. QED
    BY <1>8, <2>1, RollbackKeepsInv DEF Rollback, ReturnsFalse
<1>9. ASSUME NEW c \in Clients, Throws(c)
      PROVE  Inv'
  <2>1. depth' \in [Clients -> 0..MaxDepth]
    BY <1>9, TransactionsAssumption DEF Throws
  <2>2. QED
    BY <1>9, <2>1 DEF Throws, LocksHaveOwners, LocksExclude, ChangesAreLocked
<1>10. ASSUME NEW c \in Clients, Restart(c)
       PROVE  Inv'
  BY <1>10, TransactionsAssumption DEF Restart, Answers, LocksHaveOwners,
     LocksExclude, ChangesAreLocked
<1>11. ASSUME NEW c \in Clients, NEW type \in TransactionTypes,
              BeginTransaction(c, type) \/ Enter(c, type)
       PROVE  Inv'
  <2>1. depth' \in [Clients -> 0..MaxDepth]
    BY <1>11, TransactionsAssumption DEF BeginTransaction, Enter
  <2>2. QED
    BY <1>11, <2>1, BeginKeepsInv DEF BeginTransaction, Enter, Begins, Answers
<1>12. ASSUME NEW c \in Clients, NEW type \in TransactionTypes, BeginRefused(c, type)
       PROVE  Inv'
  BY <1>12, BeginKeepsInv DEF BeginRefused, Answers
<1>13. CASE UNCHANGED vars
  BY <1>13 DEF vars, LocksHaveOwners, LocksExclude, ChangesAreLocked
<1>14. QED
  BY <1>1, <1>2, <1>3, <1>4, <1>5, <1>6, <1>7, <1>8, <1>9, <1>10, <1>11, <1>12, <1>13
     DEF Next

\* Inv holds in every reachable state.
THEOREM Invariance == Spec => []Inv
  BY InitEstablishesInv, NextKeepsInv, PTL DEF Spec

\* Every variable keeps its type.
THEOREM TypeCorrect == Spec => []TypeOK
<1>1. Inv => TypeOK
  BY DEF Inv
<1>2. QED
  BY <1>1, Invariance, PTL

\* No connection keeps a lock that no later call gives back: outside transactions and
\* statements it has none.
THEOREM LocksAlwaysHaveOwners == Spec => []LocksHaveOwners
<1>1. Inv => LocksHaveOwners
  BY DEF Inv
<1>2. QED
  BY <1>1, Invariance, PTL

\* At most one connection holds a lock that lets it change the file.
THEOREM OneWriter == Spec => []LocksExclude
<1>1. Inv => LocksExclude
  BY DEF Inv
<1>2. QED
  BY <1>1, Invariance, PTL

\* A transaction() that answers success is over, with all its callback's changes in
\* the file or none.
THEOREM SuccessEndsTransaction == Spec => SuccessIsFinal
<1>1. ASSUME Inv, NEW c \in Clients,
             ReturnsTrue(c) \/ ReturnsFalse(c), answer'[c] = "success"
      PROVE  /\ autocommit'[c] = "on"
             /\ IF reading[c] = "no" THEN lock'[c] = "none"
                                   ELSE lock'[c] \in {"shared", "stuck"}
  <2> USE DEF Inv, TypeOK
  <2>1. Release(c)
    BY <1>1 DEF ReturnsTrue, ReturnsFalse, ExecCommit, ExecRollback, Answers
  <2>2. autocommit'[c] = "on" /\ lock'[c] = Kept(c)
    BY <1>1, <2>1 DEF Release
  <2>3. QED
    BY <1>1, <2>2, KeptLocks
<1>2. ASSUME Inv, NEW c \in Clients, ReturnsTrue(c), answer'[c] = "success",
             dirty[c] # None
      PROVE  file' = dirty[c]
  <2>1. autocommit[c] = "off"
    BY <1>2 DEF Inv, TypeOK, ChangesAreLocked, ReturnsTrue, ExecCommit, Answers
  <2>2. QED
    BY <1>2, <2>1 DEF Inv, TypeOK, ReturnsTrue, ExecCommit, Answers
<1>3. ASSUME NEW c \in Clients, ReturnsFalse(c)
      PROVE  file' = file
  BY <1>3 DEF ReturnsFalse, ExecRollback
<1>4. Inv => \A c \in Clients :
          /\ (ReturnsTrue(c) \/ ReturnsFalse(c)) /\ answer'[c] = "success"
                => /\ autocommit'[c] = "on"
                   /\ IF reading[c] = "no" THEN lock'[c] = "none"
                                         ELSE lock'[c] \in {"shared", "stuck"}
          /\ ReturnsTrue(c) /\ answer'[c] = "success" /\ dirty[c] # None
                => file' = dirty[c]
          /\ ReturnsFalse(c) => file' = file
  BY <1>1, <1>2, <1>3
<1>5. QED
  BY <1>4, Invariance, PTL DEF Spec, SuccessIsFinal

\* What changes the file is a COMMIT or the end of an autocommitted write, of a
\* connection that is alone on it.
LEMMA OnlyCommitsChangeFile ==
    ASSUME Inv, Next, file' # file
    PROVE  \E c \in Clients :
              Alone(c) /\ dirty[c] # None /\ dirty'[c] = None /\ file' = dirty[c]
<1> USE DEF Inv, TypeOK
<1>1. PICK c \in Clients :
         \/ WriteEnds(c) /\ Alone(c)
         \/ ExecCommit(c)
  BY DEF Next, QueryOpens, QueryCloses, WriteEnds, StatementFails, SqliteRollsBack,
         Rollback, ReturnsFalse, ExecRollback, Throws, Restart, Writes, BeginTransaction,
         Enter, Begins, BeginRefused, Commit, ReturnsTrue
<1>2. CASE WriteEnds(c) /\ Alone(c)
  BY <1>2 DEF WriteEnds, Release, ChangesAreLocked
<1>3. CASE ExecCommit(c)
  <2>1. /\ Release(c) /\ (MayWrite(c) => Alone(c))
        /\ dirty[c] # None /\ file' = dirty[c]
    BY <1>3 DEF ExecCommit
  <2>2. QED
    BY <2>1 DEF Release, ChangesAreLocked
<1>4. QED
  BY <1>1, <1>2, <1>3

\* An open query reads one content of the file until its own connection commits.
THEOREM QueriesReadOneState == Spec => QueriesSeeOneState
<1>1. Inv /\ [Next]_vars => \A c \in Clients :
          reading[c] = "yes" /\ file' # file => dirty[c] # None /\ dirty'[c] = None
  <2> SUFFICES ASSUME Inv, [Next]_vars, file' # file,
                      NEW c \in Clients, reading[c] = "yes"
               PROVE  dirty[c] # None /\ dirty'[c] = None
    OBVIOUS
  <2>1. Next
    BY DEF vars
  <2>2. PICK d \in Clients : Alone(d) /\ dirty[d] # None /\ dirty'[d] = None
    BY <2>1, OnlyCommitsChangeFile
  <2>3. lock[c] # "none"
    BY DEF Inv, ChangesAreLocked
  <2>4. c = d
    BY <2>2, <2>3 DEF Alone
  <2>5. QED
    BY <2>2, <2>4
<1>2. QED
  BY <1>1, Invariance, PTL DEF Spec, QueriesSeeOneState

\* No connection that holds no lock gets one beside a PENDING lock.
LEMMA PendingKeepsOut ==
    ASSUME Inv, Next, NEW c \in Clients, lock[c] = "pending",
           NEW d \in Clients \ {c}, lock[d] = "none"
    PROVE  lock'[d] = "none" \/ lock'[c] # "pending"
<1> USE DEF Inv, TypeOK
<1>1. ~CanShare(d) /\ ~CanReserve(d)
  BY DEF CanShare, CanReserve
<1>2. Kept(d) = "none" /\ \A type \in TransactionTypes : Granted(d, type) = "none"
  BY <1>1, KeptLocks DEF Granted
<1>3. ASSUME NEW e \in Clients, lock'[d] # lock[d],
             \/ QueryOpens(e) \/ QueryCloses(e) \/ Restart(e) \/ \E w \in Contents : Writes(e, w)
      PROVE  lock'[d] = "none"
  BY <1>1, <1>3 DEF QueryOpens, QueryCloses, Restart, Writes
<1>4. ASSUME NEW e \in Clients,
             WriteEnds(e) \/ SqliteRollsBack(e) \/ ExecCommit(e) \/ ExecRollback(e)
      PROVE  lock'[d] = "none"
  <2>1. CASE ExecCommit(e) /\ ~Release(e)
    <3>1. \/ lock' = lock
          \/ MayWrite(e) /\ lock' = [lock EXCEPT ![e] = "pending"]
      BY <2>1 DEF ExecCommit
    <3>2. QED
      BY <3>1
  <2>2. CASE ExecRollback(e) /\ ~Release(e)
    BY <2>2 DEF ExecRollback
  <2>3. CASE Release(e)
    BY <1>2, <2>3 DEF Release
  <2>4. QED
    BY <1>4, <2>1, <2>2, <2>3 DEF WriteEnds, SqliteRollsBack
<1>5. ASSUME NEW e \in Clients, NEW type \in TransactionTypes,
             lock' = [lock EXCEPT ![e] = Granted(e, type)]
      PROVE  lock'[d] = "none"
  BY <1>2, <1>5
<1>6. ASSUME NEW e \in Clients, StatementFails(e)
      PROVE  lock'[d] = "none"
  BY <1>1, <1>6 DEF StatementFails
<1>7. QED
  BY <1>3, <1>4, <1>5, <1>6
     DEF Next, Commit, Rollback, ReturnsTrue, ReturnsFalse, Throws,
         BeginTransaction, Enter, Begins, BeginRefused

\* A COMMIT that was answered BUSY keeps its turn until its transaction is over.
THEOREM BusyCommitsKeepTheirTurn == Spec => BusyCommitKeepsItsTurn
<1>1. Inv /\ [Next]_vars => \A c \in Clients :
          lock[c] = "pending" =>
              /\ lock'[c] = "pending" =>
                    \A d \in Clients \ {c} : lock[d] = "none" => lock'[d] = "none"
              /\ file' # file => file' = dirty[c] /\ dirty'[c] = None
  <2> SUFFICES ASSUME Inv, Next, NEW c \in Clients, lock[c] = "pending"
               PROVE  /\ lock'[c] = "pending" =>
                           \A d \in Clients \ {c} : lock[d] = "none" => lock'[d] = "none"
                      /\ file' # file => file' = dirty[c] /\ dirty'[c] = None
    BY DEF vars
  <2>1. ASSUME file' # file PROVE file' = dirty[c] /\ dirty'[c] = None
    <3>1. PICK d \in Clients :
             Alone(d) /\ dirty[d] # None /\ dirty'[d] = None /\ file' = dirty[d]
      BY <2>1, OnlyCommitsChangeFile
    <3> QED
      BY <3>1 DEF Alone
  <2>2. QED
    BY <2>1, PendingKeepsOut
<1>2. QED
  BY <1>1, Invariance, PTL DEF Spec, BusyCommitKeepsItsTurn
-----------------------------------------------------------------------------
(* What a callback writes, while SQLite does not roll back under it.         *)

\* The calls of transaction() on the stack, without a rollback of SQLite's own in them: the
\* outermost has a transaction open, so that a nested one is refused its BEGIN.
OneCallback ==
    \A c \in Clients : depth[c] <= 1 /\ (depth[c] > 0 => autocommit[c] = "off")

\* Only a rollback of SQLite's own lets a callback write into the file before it returns;
\* without one, a callback of a nested transaction() never runs at all
\* (Connection.cpp:102-113).
THEOREM CallbacksWaitUnlessRolledBack ==
    Spec /\ [][\A c \in Clients : depth[c] > 0 => ~SqliteRollsBack(c)]_vars
        => []OneCallback /\ CallbackWritesWait
<1> DEFINE Kind == \A c \in Clients : depth[c] > 0 => ~SqliteRollsBack(c)
<1>1. Init => OneCallback
  <2> SUFFICES ASSUME Init, NEW c \in Clients
               PROVE  depth[c] <= 1 /\ (depth[c] > 0 => autocommit[c] = "off")
    BY DEF OneCallback
  <2>1. depth[c] = 0 /\ 0 <= 1 /\ ~(0 > 0)
    BY DEF Init
  <2> QED
    BY ONLY <2>1, Zenon
<1>2. Inv /\ OneCallback /\ [Next]_vars /\ [Kind]_vars => OneCallback'
  <2> SUFFICES ASSUME Inv, OneCallback, Next, Kind PROVE OneCallback'
    BY DEF vars, OneCallback
  <2> USE DEF Inv, TypeOK, OneCallback
  <2>1. CASE UNCHANGED <<depth, autocommit>>
    BY <2>1
  <2>2. ASSUME NEW c \in Clients, depth[c] = 0, UNCHANGED depth,
               \E m \in {"on", "off"} : autocommit' = [autocommit EXCEPT ![c] = m]
        PROVE  OneCallback'
    BY <2>2
  <2>3. ASSUME NEW c \in Clients, depth[c] > 0, depth' = [depth EXCEPT ![c] = @ - 1],
               \E m \in {"on", "off"} : autocommit' = [autocommit EXCEPT ![c] = m]
        PROVE  OneCallback'
    BY <2>3
  <2>4. ASSUME NEW c \in Clients, NEW type \in TransactionTypes, Enter(c, type)
        PROVE  OneCallback'
    BY <2>4 DEF Enter, Begins, MayBegin
  <2>5. ASSUME NEW c \in Clients, Restart(c) PROVE OneCallback'
    BY <2>5 DEF Restart
  <2>6. ASSUME NEW c \in Clients,
               \/ QueryOpens(c) \/ QueryCloses(c) \/ WriteEnds(c) \/ StatementFails(c)
               \/ \E w \in Contents : Writes(c, w)
               \/ \E type \in TransactionTypes : BeginRefused(c, type)
        PROVE  OneCallback'
    <3>1. UNCHANGED <<depth, autocommit>>
      BY <2>6 DEF QueryOpens, QueryCloses, WriteEnds, StatementFails, Writes, BeginRefused,
                  Release, ChangesAreLocked
    <3> QED
      BY <2>1, <3>1
  <2>7. ASSUME NEW c \in Clients,
               \/ SqliteRollsBack(c) \/ Commit(c) \/ Rollback(c)
               \/ \E type \in TransactionTypes : BeginTransaction(c, type)
        PROVE  OneCallback'
    <3>1. /\ depth[c] = 0 /\ UNCHANGED depth
          /\ \E m \in {"on", "off"} : autocommit' = [autocommit EXCEPT ![c] = m]
      BY <2>7 DEF SqliteRollsBack, Commit, Rollback, BeginTransaction, Begins, ExecCommit,
                  ExecRollback, Release
    <3> QED
      BY <2>2, <3>1
  <2>8. ASSUME NEW c \in Clients, ReturnsTrue(c) \/ ReturnsFalse(c) \/ Throws(c)
        PROVE  OneCallback'
    <3>1. /\ depth[c] > 0 /\ depth' = [depth EXCEPT ![c] = @ - 1]
          /\ \E m \in {"on", "off"} : autocommit' = [autocommit EXCEPT ![c] = m]
      BY <2>8 DEF ReturnsTrue, ReturnsFalse, Throws, ExecCommit, ExecRollback, Release
    <3> QED
      BY <2>3, <3>1
  <2> QED
    BY <2>4, <2>5, <2>6, <2>7, <2>8 DEF Next
<1>3. Inv /\ OneCallback /\ [Next]_vars =>
         \A c \in Clients : depth[c] > 0 /\ WriteEnds(c) => file' = file
  BY DEF Inv, TypeOK, OneCallback, ChangesAreLocked, WriteEnds
<1> QED
  BY <1>1, <1>2, <1>3, Invariance, PTL DEF Spec, CallbackWritesWait
-----------------------------------------------------------------------------
(* The refinement of AtomicTransactions.                                    *)

USE DEF OpenNow, Seen

\* While c is alone with its lock, what the others have seen does not depend on the
\* file.
LEMMA OthersSeeNothing ==
    ASSUME Inv, NEW c \in Clients, NEW k \in Locks, lock' = [lock EXCEPT ![c] = k],
           file' = file \/ Alone(c)
    PROVE  Seen' \in {[Seen EXCEPT ![c] = None], [Seen EXCEPT ![c] = file']}
<1> USE DEF Inv, TypeOK, Alone
<1>1. CASE k = "none"
  <2>1. Seen' = [Seen EXCEPT ![c] = None]
    BY <1>1
  <2>2. QED
    BY <2>1
<1>2. CASE k # "none"
  <2>1. Seen' = [Seen EXCEPT ![c] = file']
    BY <1>2
  <2>2. QED
    BY <2>1
<1>3. QED
  BY <1>1, <1>2

LEMMA ReleaseClears ==
    ASSUME Inv, NEW c \in Clients, Release(c), file' = file \/ Alone(c)
    PROVE  /\ Atomic!Clear(c)
           /\ OpenNow' = [OpenNow EXCEPT ![c] = "none"]
<1>1. Kept(c) \in Locks
  BY KeptLocks
<1>2. Seen' \in {[Seen EXCEPT ![c] = None], [Seen EXCEPT ![c] = file']}
  BY <1>1, OthersSeeNothing DEF Release
<1>3. dirty' = [dirty EXCEPT ![c] = None]
  BY DEF Release
<1>4. OpenNow' = [OpenNow EXCEPT ![c] = "none"]
  BY DEF Inv, TypeOK, Release
<1>5. QED
  BY <1>2, <1>3, <1>4 DEF Atomic!Clear

\* A lock that is taken or raised shows as at most a look at the file.
LEMMA LockingLooks ==
    ASSUME Inv, NEW c \in Clients, NEW k \in Locks, UNCHANGED file,
           lock' = [lock EXCEPT ![c] = k], lock[c] # "none" => k # "none"
    PROVE  \/ Seen' = Seen
           \/ Seen[c] = None /\ Seen' = [Seen EXCEPT ![c] = file]
<1> USE DEF Inv, TypeOK
<1>1. CASE lock[c] = "none" /\ k = "none"
  BY <1>1
<1>2. CASE lock[c] # "none" /\ k # "none"
  BY <1>2
<1>3. CASE lock[c] = "none" /\ k # "none"
  <2>1. Seen[c] = None
    BY <1>3
  <2>2. Seen' = [Seen EXCEPT ![c] = file]
    BY <1>3
  <2>3. QED
    BY <2>1, <2>2
<1>4. QED
  BY <1>1, <1>2, <1>3

\* So does BEGIN, granted or not.
LEMMA GrantedLooks ==
    ASSUME Inv, NEW c \in Clients, NEW type \in TransactionTypes, UNCHANGED file,
           lock' = [lock EXCEPT ![c] = Granted(c, type)]
    PROVE  \/ Seen' = Seen
           \/ Seen[c] = None /\ Seen' = [Seen EXCEPT ![c] = file]
<1> DEFINE g == Granted(c, type)
<1>1. g \in Locks /\ (lock[c] # "none" => g # "none")
  BY GrantedLocks
<1>2. lock' = [lock EXCEPT ![c] = g]
  OBVIOUS
<1> HIDE DEF g
<1>3. QED
  BY <1>1, <1>2, LockingLooks

\* So does the failure of a statement.
LEMMA FailureLooks ==
    ASSUME Inv, NEW c \in Clients, StatementFails(c)
    PROVE  \/ Seen' = Seen
           \/ Seen[c] = None /\ Seen' = [Seen EXCEPT ![c] = file]
<1>1. PICK k \in Locks : lock' = [lock EXCEPT ![c] = k] /\ (lock[c] # "none" => k # "none")
  BY DEF Inv, TypeOK, StatementFails
<1>2. UNCHANGED file
  BY DEF StatementFails
<1>3. QED
  BY <1>1, <1>2, LockingLooks

\* A granted BEGIN is the abstract one, at the level the caller chooses.
LEMMA BeginRefines ==
    ASSUME Inv, NEW c \in Clients, NEW type \in TransactionTypes, stage[c] = "calm",
           Begins(c, type),
           \/ depth[c] = 0 /\ depth' = depth
           \/ depth[c] < MaxDepth /\ depth' = [depth EXCEPT ![c] = @ + 1]
    PROVE  Atomic!Begin(c)
<1> USE DEF Inv, TypeOK, Begins, MayBegin
<1>1. OpenNow[c] = "none" /\ OpenNow' = [OpenNow EXCEPT ![c] = "open"]
  OBVIOUS
<1>2. Seen' \in {Seen, [Seen EXCEPT ![c] = file]}
  BY GrantedLooks
<1>3. QED
  BY <1>1, <1>2 DEF Atomic!Begin

\* COMMIT, by itself or at the end of transaction(), commits, or leaves the abstract
\* transaction as it is.
LEMMA CommitRefines ==
    ASSUME Inv, NEW c \in Clients, ExecCommit(c), Atomic!Return(c)
    PROVE  \/ Atomic!Commit(c)
           \/ UNCHANGED <<file, OpenNow, Seen, dirty>>
<1> USE DEF Inv, TypeOK
<1>1. CASE autocommit[c] = "on"
  BY <1>1 DEF ExecCommit
<1>2. CASE autocommit[c] = "off" /\ MayWrite(c) /\ ~Alone(c)
  <2>1. /\ UNCHANGED <<file, autocommit, dirty>>
        /\ lock' = [lock EXCEPT ![c] = "pending"]
    BY <1>2 DEF ExecCommit
  <2>2. QED
    BY <1>2, <2>1
<1>3. CASE autocommit[c] = "off" /\ (MayWrite(c) => Alone(c))
  <2>1. /\ file' = IF dirty[c] = None THEN file ELSE dirty[c]
        /\ Release(c)
    BY <1>3 DEF ExecCommit
  <2>2. Atomic!Clear(c) /\ OpenNow' = [OpenNow EXCEPT ![c] = "none"]
    BY <1>3, <2>1, ReleaseClears DEF ChangesAreLocked
  <2>3. dirty[c] # None => Seen[c] = file
    BY DEF ChangesAreLocked
  <2>4. QED
    BY <1>3, <2>1, <2>2, <2>3 DEF Atomic!Commit, ChangesAreLocked
<1>4. QED
  BY <1>1, <1>2, <1>3

LEMMA RollbackRefines ==
    ASSUME Inv, NEW c \in Clients, ExecRollback(c), Atomic!Return(c)
    PROVE  \/ Atomic!Rollback(c)
           \/ UNCHANGED <<file, OpenNow, Seen, dirty>>
<1>1. CASE autocommit[c] = "on"
  BY <1>1 DEF ExecRollback
<1>2. CASE autocommit[c] = "off"
  BY <1>2, ReleaseClears DEF Inv, TypeOK, ExecRollback, Atomic!Rollback
<1>3. QED
  BY <1>1, <1>2 DEF Inv, TypeOK

\* A call of transaction() that returns takes one level away.
LEMMA ReturnRefines ==
    ASSUME Inv, NEW c \in Clients,
           \/ depth[c] > 0 /\ depth' = [depth EXCEPT ![c] = @ - 1]
           \/ depth[c] = 0 /\ depth' = depth
    PROVE  Atomic!Return(c)
  BY TransactionsAssumption DEF Inv, TypeOK, Atomic!Return

\* Every step of Transactions is a step of AtomicTransactions or shows nothing there.
THEOREM TransactionsAreAtomic == Spec => ImplementsAtomic
<1>1. Init => Atomic!Init
  BY DEF Init, Atomic!Init, Atomic!Blank
<1>2. Inv /\ [Next]_vars => [Atomic!Next]_(Atomic!vars)
  <2> SUFFICES ASSUME Inv, [Next]_vars
               PROVE  [Atomic!Next]_(Atomic!vars)
    OBVIOUS
  <2> USE DEF Inv, TypeOK, Atomic!vars
  <2>1. ASSUME NEW c \in Clients, QueryOpens(c)
        PROVE  [Atomic!Next]_(Atomic!vars)
    <3>1. CASE lock[c] = "none"
      <4>1. Atomic!Look(c)
        BY <2>1, <3>1 DEF QueryOpens, Atomic!Look
      <4>2. QED
        BY <4>1 DEF Atomic!Next
    <3>2. CASE lock[c] # "none"
      BY <2>1, <3>2 DEF QueryOpens
    <3>3. QED
      BY <3>1, <3>2
  <2>2. ASSUME NEW c \in Clients, QueryCloses(c)
        PROVE  [Atomic!Next]_(Atomic!vars)
    <3>1. CASE autocommit[c] = "on"
      <4>1. Seen' = [Seen EXCEPT ![c] = None] /\ dirty' = [dirty EXCEPT ![c] = None]
        BY <2>2, <3>1 DEF QueryCloses, ChangesAreLocked
      <4>2. Atomic!StatementEnds(c)
        BY <2>2, <3>1, <4>1 DEF QueryCloses, Atomic!StatementEnds, Atomic!Clear
      <4>3. QED
        BY <4>2 DEF Atomic!Next
    <3>2. CASE autocommit[c] = "off"
      BY <2>2, <3>2 DEF QueryCloses
    <3>3. QED
      BY <3>1, <3>2
  <2>3. ASSUME NEW c \in Clients, WriteEnds(c)
        PROVE  [Atomic!Next]_(Atomic!vars)
    <3>1. Release(c) /\ (file' = file \/ (Alone(c) /\ file' = dirty[c]))
      BY <2>3 DEF WriteEnds
    <3>2. dirty[c] # None /\ Seen[c] = file /\ autocommit[c] = "on"
      BY <2>3 DEF WriteEnds, ChangesAreLocked
    <3>3. Atomic!Clear(c) /\ UNCHANGED <<OpenNow, depth>>
      <4>1. Atomic!Clear(c) /\ OpenNow' = [OpenNow EXCEPT ![c] = "none"]
        BY <3>1, ReleaseClears
      <4>2. OpenNow' = OpenNow
        BY <3>2, <4>1
      <4>3. QED
        BY <2>3, <4>1, <4>2 DEF WriteEnds
    <3>4. Atomic!StatementEnds(c)
      BY <3>1, <3>2, <3>3 DEF Atomic!StatementEnds
    <3>5. QED
      BY <3>4 DEF Atomic!Next
  <2>4. ASSUME NEW c \in Clients, StatementFails(c)
        PROVE  [Atomic!Next]_(Atomic!vars)
    <3>1. UNCHANGED <<file, OpenNow, dirty, depth>>
      BY <2>4 DEF StatementFails
    <3>2. CASE Seen' = Seen
      BY <3>1, <3>2
    <3>3. CASE Seen[c] = None /\ Seen' = [Seen EXCEPT ![c] = file]
      <4>1. Atomic!Look(c)
        BY <3>1, <3>3 DEF Atomic!Look
      <4>2. QED
        BY <4>1 DEF Atomic!Next
    <3>4. QED
      BY <2>4, <3>2, <3>3, FailureLooks
  <2>5. ASSUME NEW c \in Clients, SqliteRollsBack(c)
        PROVE  [Atomic!Next]_(Atomic!vars)
    <3>1. Atomic!Break(c)
      BY <2>5, ReleaseClears DEF SqliteRollsBack, Atomic!Break
    <3>2. QED
      BY <3>1 DEF Atomic!Next
  <2>6. ASSUME NEW c \in Clients, NEW w \in Contents, Writes(c, w)
        PROVE  [Atomic!Next]_(Atomic!vars)
    <3>1. Atomic!Change(c, w)
      BY <2>6 DEF Writes, Atomic!Change
    <3>2. QED
      BY <3>1 DEF Atomic!Next
  <2>7. ASSUME NEW c \in Clients, Commit(c) \/ Rollback(c)
        PROVE  [Atomic!Next]_(Atomic!vars)
    <3>1. Atomic!Return(c)
      BY <2>7, ReturnRefines DEF Commit, Rollback
    <3>2. QED
      BY <2>7, <3>1, CommitRefines, RollbackRefines DEF Commit, Rollback, Atomic!Next
  <2>8. ASSUME NEW c \in Clients, ReturnsTrue(c) \/ ReturnsFalse(c)
        PROVE  [Atomic!Next]_(Atomic!vars)
    <3>1. Atomic!Return(c)
      BY <2>8, ReturnRefines DEF ReturnsTrue, ReturnsFalse
    <3>2. \/ Atomic!Commit(c) \/ Atomic!Rollback(c)
          \/ UNCHANGED <<file, OpenNow, Seen, dirty>>
      BY <2>8, <3>1, CommitRefines, RollbackRefines DEF ReturnsTrue, ReturnsFalse
    <3>3. Atomic!Commit(c) \/ Atomic!Rollback(c) \/ Atomic!Leave(c)
      BY <2>8, <3>1, <3>2 DEF ReturnsTrue, ReturnsFalse, Atomic!Leave
    <3>4. QED
      BY <3>3 DEF Atomic!Next
  <2>9. ASSUME NEW c \in Clients, Throws(c)
        PROVE  [Atomic!Next]_(Atomic!vars)
    <3>1. Atomic!Leave(c)
      BY <2>9, ReturnRefines DEF Throws, Atomic!Leave
    <3>2. QED
      BY <3>1 DEF Atomic!Next
  <2>10. ASSUME NEW c \in Clients, Restart(c)
         PROVE  [Atomic!Next]_(Atomic!vars)
    <3>1. Seen' \in {[Seen EXCEPT ![c] = None], [Seen EXCEPT ![c] = file']}
      BY <2>10, OthersSeeNothing DEF Restart
    <3>2. Atomic!Clear(c)
      BY <2>10, <3>1 DEF Restart, Atomic!Clear
    <3>3. OpenNow' = [OpenNow EXCEPT ![c] = "none"]
      BY <2>10 DEF Restart
    <3>4. Atomic!Restart(c)
      BY <2>10, <3>2, <3>3 DEF Restart, Atomic!Restart
    <3>5. QED
      BY <3>4 DEF Atomic!Next
  <2>11. ASSUME NEW c \in Clients, NEW type \in TransactionTypes,
                BeginTransaction(c, type) \/ Enter(c, type)
         PROVE  [Atomic!Next]_(Atomic!vars)
    <3>1. Atomic!Begin(c)
      BY <2>11, BeginRefines DEF BeginTransaction, Enter
    <3>2. QED
      BY <3>1 DEF Atomic!Next
  <2>12. ASSUME NEW c \in Clients, NEW type \in TransactionTypes, BeginRefused(c, type)
         PROVE  [Atomic!Next]_(Atomic!vars)
    <3>1. /\ UNCHANGED <<file, OpenNow, dirty, depth>>
          /\ lock' = [lock EXCEPT ![c] = Granted(c, type)]
      BY <2>12 DEF BeginRefused
    <3>2. CASE Seen' = Seen
      BY <3>1, <3>2
    <3>3. CASE Seen[c] = None /\ Seen' = [Seen EXCEPT ![c] = file]
      <4>1. Atomic!Look(c)
        BY <3>1, <3>3 DEF Atomic!Look
      <4>2. QED
        BY <4>1 DEF Atomic!Next
    <3>4. QED
      BY <3>1, <3>2, <3>3, GrantedLooks
  <2>13. CASE UNCHANGED vars
    BY <2>13 DEF vars
  <2>14. QED
    BY <2>1, <2>2, <2>3, <2>4, <2>5, <2>6, <2>7, <2>8, <2>9, <2>10, <2>11, <2>12, <2>13
       DEF Next
<1>3. QED
  BY <1>1, <1>2, Invariance, PTL DEF Spec, ImplementsAtomic, Atomic!Spec
=============================================================================
