----------------------- MODULE FunctionRegistryProofs -----------------------
(***************************************************************************)
(* Proofs about FunctionRegistry for every set of objects, names and        *)
(* signatures.  That each accepted object is deleted exactly once needs     *)
(* three facts besides: an object sits at one key only, whatever sits in    *)
(* the table was accepted, and nothing is deleted before it is handed over. *)
(***************************************************************************)
EXTENDS FunctionRegistry, TLAPS

OneKeyEach ==
    \A k1, k2 \in Keys : table[k1] # None /\ table[k1] = table[k2] => k1 = k2

TableAccepted == \A k \in Keys : table[k] # None => owner[table[k]] = "sqlite"

FreshUntouched == \A o \in Objects : owner[o] \in {"unborn", "caller"} => deletes[o] = 0

RejectedDeleted == \A o \in Objects : owner[o] = "rejected" => deletes[o] # 0

ClosedEmpty == handle = "none" => table = Empty /\ functions = {}

Inv ==
    /\ TypeOK
    /\ OneKeyEach
    /\ TableAccepted
    /\ FreshUntouched
    /\ RejectedDeleted
    /\ ClosedEmpty
    /\ OwnedBySqlite

\* Deleting the objects of S counts one more for each of them and leaves the others.
LEMMA DeletedFacts ==
    ASSUME TypeOK, NEW S
    PROVE  /\ Deleted(S) \in [Objects -> {0, 1, 2}]
           /\ \A o \in Objects : o \notin S => Deleted(S)[o] = deletes[o]
           /\ \A o \in S \cap Objects : deletes[o] = 0 => Deleted(S)[o] = 1
           /\ \A o \in S \cap Objects : Deleted(S)[o] # 0
  BY DEF Deleted, TypeOK

\* SQLite can call the objects of the table and no others.
LEMMA RegisteredFacts ==
    ASSUME TypeOK, NEW o \in Objects
    PROVE  o \in Registered <=> \E k \in Keys : table[k] = o
  BY FunctionAssumption DEF Registered, TypeOK

LEMMA InitInv == Init => Inv
  BY DEF Init, Inv, TypeOK, OneKeyEach, TableAccepted, FreshUntouched, RejectedDeleted,
     ClosedEmpty, OwnedBySqlite, Empty

\* Steps that leave the table, the owners and the deletions alone.
LEMMA TableUntouched ==
    ASSUME Inv, TypeOK', UNCHANGED <<table, owner, deletes>>,
           handle' = "none" => table = Empty /\ functions' = {}
    PROVE  Inv'
  BY DEF Inv, OneKeyEach, TableAccepted, FreshUntouched, RejectedDeleted, ClosedEmpty,
     OwnedBySqlite, Registered, Empty

\* Steps by which an object that SQLite never accepted is handed over or made.
LEMMA ObjectMoves ==
    ASSUME Inv, NEW o \in Objects, owner[o] \in {"unborn", "caller"},
           \/ /\ owner' = [owner EXCEPT ![o] = "caller"]
              /\ deletes' = [deletes EXCEPT ![o] = 0]
           \/ /\ owner' = [owner EXCEPT ![o] = "rejected"]
              /\ \E d \in {1, 2} : deletes' = [deletes EXCEPT ![o] = d],
           UNCHANGED <<handle, table, functions, active>>
    PROVE  Inv'
<1> USE DEF Inv
<1>1. TypeOK'
  BY DEF TypeOK
<1>2. \A k \in Keys : table[k] # o
  BY FunctionAssumption DEF TableAccepted
<1>3. OneKeyEach' /\ ClosedEmpty'
  BY DEF OneKeyEach, ClosedEmpty, Empty
<1>4. TableAccepted'
  BY <1>2 DEF TableAccepted, TypeOK
<1>5. FreshUntouched' /\ RejectedDeleted'
  BY DEF FreshUntouched, RejectedDeleted, TypeOK
<1>6. Registered' = Registered
  BY DEF Registered
<1>7. OwnedBySqlite'
  BY <1>6 DEF OwnedBySqlite, TypeOK
<1>8. QED
  BY <1>1, <1>3, <1>4, <1>5, <1>7

LEMMA AcceptedInv ==
    ASSUME Inv, NEW o \in Objects, NEW k0 \in Keys, RegisterAccepted(o, k0)
    PROVE  Inv'
<1> USE DEF Inv
<1>0. /\ table' = [table EXCEPT ![k0] = o]
      /\ deletes' = Deleted({table[k0]})
      /\ owner' = [owner EXCEPT ![o] = "sqlite"]
      /\ owner[o] = "caller"
  BY DEF RegisterAccepted
<1>1. TypeOK'
  <2>1. k0[1] \in Names
    BY DEF Keys
  <2>2. QED
    BY <1>0, <2>1, DeletedFacts DEF RegisterAccepted, TypeOK
<1>2. \A k \in Keys : table[k] # o
  BY <1>0, FunctionAssumption DEF TableAccepted
<1>3. \A k \in Keys : table'[k] = IF k = k0 THEN o ELSE table[k]
  BY <1>0 DEF TypeOK
<1>4. OneKeyEach'
  BY <1>2, <1>3 DEF OneKeyEach
<1>5. TableAccepted'
  BY <1>0, <1>3 DEF TableAccepted, TypeOK
<1>6. o # table[k0]
  BY <1>0, <1>2
<1>7. deletes'[o] = 0
  BY <1>0, <1>6, DeletedFacts DEF FreshUntouched
<1>8. \A x \in Objects : x # o /\ owner[x] # "sqlite" => deletes'[x] = deletes[x]
  BY <1>0, FunctionAssumption, DeletedFacts DEF TableAccepted
<1>9. FreshUntouched' /\ RejectedDeleted'
  BY <1>0, <1>8 DEF FreshUntouched, RejectedDeleted, TypeOK
<1>10. ClosedEmpty'
  BY DEF ClosedEmpty, RegisterAccepted
<1>11. ASSUME NEW x \in Objects, owner'[x] = "sqlite"
       PROVE  deletes'[x] = IF x \in Registered' THEN 0 ELSE 1
  <2>1. x \in Registered' <=> \E k \in Keys : table'[k] = x
    BY <1>3, FunctionAssumption DEF Registered
  <2>2. CASE x = o
    BY <1>0, <1>3, <1>7, <2>1, <2>2
  <2>3. CASE x # o /\ x = table[k0]
    <3>1. x \notin Registered'
      BY <1>0, <1>3, <2>1, <2>3, FunctionAssumption DEF OneKeyEach
    <3>2. deletes[x] = 0
      BY <1>0, <1>11, <2>3, RegisteredFacts DEF OwnedBySqlite, TypeOK
    <3>3. deletes'[x] = 1
      BY <1>0, <2>3, <3>2, DeletedFacts
    <3>4. QED
      BY <3>1, <3>3
  <2>4. CASE x # o /\ x # table[k0]
    <3>1. x \in Registered' <=> x \in Registered
      BY <1>3, <2>1, <2>4, RegisteredFacts
    <3>2. deletes'[x] = deletes[x]
      BY <1>0, <2>4, DeletedFacts
    <3>3. owner[x] = "sqlite"
      BY <1>0, <1>11, <2>4 DEF TypeOK
    <3>4. QED
      BY <3>1, <3>2, <3>3 DEF OwnedBySqlite
  <2>5. QED
    BY <2>2, <2>3, <2>4
<1>12. QED
  BY <1>1, <1>4, <1>5, <1>9, <1>10, <1>11 DEF OwnedBySqlite

LEMMA CloseInv == ASSUME Inv, Close PROVE Inv'
<1> USE DEF Inv
<1>1. TypeOK'
  BY DeletedFacts DEF Close, TypeOK, Empty
<1>2. \A k \in Keys : table'[k] = None
  BY DEF Close, Empty
<1>3. OneKeyEach' /\ TableAccepted'
  BY <1>2 DEF OneKeyEach, TableAccepted
<1>4. ClosedEmpty'
  BY DEF Close, ClosedEmpty, Empty, Keys
<1>5. \A o \in Objects : o \in Registered => owner[o] = "sqlite"
  BY FunctionAssumption, RegisteredFacts DEF TableAccepted
<1>6. FreshUntouched' /\ RejectedDeleted'
  BY <1>5, DeletedFacts DEF Close, FreshUntouched, RejectedDeleted
<1>7. Registered' = {}
  BY <1>2 DEF Registered
<1>8. OwnedBySqlite'
  BY <1>7, DeletedFacts DEF Close, OwnedBySqlite
<1>9. QED
  BY <1>1, <1>3, <1>4, <1>6, <1>8

LEMMA NextInv == Inv /\ [Next]_vars => Inv'
<1> SUFFICES ASSUME Inv, [Next]_vars
             PROVE  Inv'
  OBVIOUS
<1>1. CASE Open
  BY <1>1, TableUntouched DEF Open, Inv, TypeOK
<1>2. CASE Close
  BY <1>2, CloseInv
<1>3. CASE Step
  BY <1>3, TableUntouched DEF Step, Inv, TypeOK
<1>4. CASE UnregisterAll
  BY <1>4, TableUntouched DEF UnregisterAll, Inv, TypeOK, ClosedEmpty
<1>5. ASSUME NEW n \in Names, Unregister(n)
      PROVE  Inv'
  BY <1>5, TableUntouched DEF Unregister, Inv, TypeOK
<1>6. ASSUME NEW o \in Objects, Create(o)
      PROVE  Inv'
  <2>1. deletes' = [deletes EXCEPT ![o] = 0]
    BY <1>6 DEF Create, Inv, TypeOK, FreshUntouched
  <2>2. QED
    BY <1>6, <2>1, ObjectMoves DEF Create
<1>7. ASSUME NEW o \in Objects, RegisterRefused(o)
      PROVE  Inv'
  <2>1. deletes' = [deletes EXCEPT ![o] = 1]
    BY <1>7 DEF RegisterRefused, Inv, TypeOK, FreshUntouched, Deleted
  <2>2. QED
    BY <1>7, <2>1, ObjectMoves DEF RegisterRefused
<1>8. ASSUME NEW o \in Objects, RegisterFailed(o)
      PROVE  Inv'
  BY <1>8, ObjectMoves DEF RegisterFailed
<1>9. ASSUME NEW o \in Objects, NEW key \in Keys, RegisterAccepted(o, key)
      PROVE  Inv'
  BY <1>9, AcceptedInv
<1>10. CASE UNCHANGED vars
  BY <1>10, TableUntouched DEF vars, Inv, TypeOK, ClosedEmpty
<1>11. QED
  BY <1>1, <1>2, <1>3, <1>4, <1>5, <1>6, <1>7, <1>8, <1>9, <1>10 DEF Next

\* The inductive invariant holds of every behaviour.
THEOREM Invariance == Spec => []Inv
  BY InitInv, NextInv, PTL DEF Spec

\* Every variable keeps its type.
THEOREM TypeCorrect == Spec => []TypeOK
<1>1. Inv => TypeOK
  BY DEF Inv
<1>2. QED
  BY <1>1, Invariance, PTL

\* An object SQLite accepted is deleted exactly when SQLite can no longer call it.
THEOREM AcceptedObjectsDeletedOnce == Spec => []OwnedBySqlite
  BY Invariance, PTL DEF Inv

NothingLeaks ==
    handle = "none" =>
        \A o \in Objects : owner[o] \in {"sqlite", "rejected"} => deletes[o] # 0

\* Once the connection is closed, every object that was handed to registerFunction,
\* accepted or not, has been deleted (Connection.cpp:236-268; Function.hpp:60).
THEOREM NoLeakAfterClose == Spec => []NothingLeaks
<1>1. Inv => NothingLeaks
  <2> SUFFICES ASSUME Inv, handle = "none", NEW o \in Objects,
                      owner[o] \in {"sqlite", "rejected"}
               PROVE  deletes[o] # 0
    BY DEF NothingLeaks
  <2>1. o \notin Registered
    BY FunctionAssumption DEF Inv, ClosedEmpty, Empty, Registered
  <2>2. QED
    BY <2>1 DEF Inv, OwnedBySqlite, RejectedDeleted
<1>2. QED
  BY <1>1, Invariance, PTL

\* Names are listed only while the connection has a handle.
THEOREM NamesAlwaysNeedHandle == Spec => []NamesNeedHandle
<1>1. Inv => NamesNeedHandle
  BY DEF Inv, TypeOK, ClosedEmpty, NamesNeedHandle
<1>2. QED
  BY <1>1, Invariance, PTL
-----------------------------------------------------------------------------
(* Deleted at most once, as long as SQLite refuses no registration.           *)

RejectedOnce == \A o \in Objects : owner[o] = "rejected" => deletes[o] = 1

\* Only what SQLite itself refuses is deleted twice: while sqlite3_create_function_v2
\* answers SQLITE_OK, no order of replacing, unregistering, refusals of registerFunction's
\* own and closing runs a destructor again (Connection.cpp:257-261).
THEOREM DeletedOnceUnlessRefused ==
    Spec /\ [][\A o \in Objects : ~RegisterFailed(o)]_vars => []DeletedOnce
<1> DEFINE NoneRefused == \A o \in Objects : ~RegisterFailed(o)
<1>1. Init => RejectedOnce
  BY DEF Init, RejectedOnce
<1>2. Inv /\ RejectedOnce /\ [Next]_vars /\ [NoneRefused]_vars => RejectedOnce'
  <2> SUFFICES ASSUME Inv, RejectedOnce, [Next]_vars, [NoneRefused]_vars,
                      NEW x \in Objects, owner'[x] = "rejected"
               PROVE  deletes'[x] = 1
    BY DEF RejectedOnce
  <2> USE DEF Inv
  <2>1. CASE UNCHANGED <<owner, deletes>>
    BY <2>1 DEF RejectedOnce
  <2>2. CASE Close
    <3>1. owner[x] = "rejected" /\ x \notin Registered
      BY <2>2, RegisteredFacts, FunctionAssumption DEF Close, TableAccepted
    <3> QED
      BY <2>2, <3>1, DeletedFacts DEF Close, RejectedOnce
  <2>3. ASSUME NEW o \in Objects, Create(o) PROVE deletes'[x] = 1
    BY <2>3 DEF Create, RejectedOnce, TypeOK
  <2>4. ASSUME NEW o \in Objects, RegisterRefused(o) PROVE deletes'[x] = 1
    <3>1. deletes[o] = 0
      BY <2>4 DEF RegisterRefused, FreshUntouched
    <3>2. x # o => owner[x] = "rejected"
      BY <2>4 DEF RegisterRefused, TypeOK
    <3> QED
      BY <2>4, <3>1, <3>2, DeletedFacts DEF RegisterRefused, RejectedOnce
  <2>5. ASSUME NEW o \in Objects, NEW key \in Keys, RegisterAccepted(o, key)
        PROVE  deletes'[x] = 1
    <3>1. owner[x] = "rejected"
      BY <2>5 DEF RegisterAccepted, TypeOK
    <3>2. table[key] # x
      BY <3>1, FunctionAssumption DEF TableAccepted
    <3> QED
      BY <2>5, <3>1, <3>2, DeletedFacts DEF RegisterAccepted, RejectedOnce
  <2> QED
    BY <2>1, <2>2, <2>3, <2>4, <2>5
       DEF Next, vars, Open, Step, UnregisterAll, Unregister
<1>3. Inv /\ RejectedOnce => DeletedOnce
  <2> SUFFICES ASSUME Inv, RejectedOnce, NEW o \in Objects PROVE deletes[o] # 2
    BY DEF DeletedOnce
  <2>1. owner[o] \in {"unborn", "caller", "sqlite", "rejected"}
    BY DEF Inv, TypeOK
  <2>2. owner[o] = "sqlite" => deletes[o] \in {0, 1}
    BY DEF Inv, OwnedBySqlite
  <2> QED
    BY <2>1, <2>2 DEF Inv, FreshUntouched, RejectedOnce
<1> QED
  BY <1>1, <1>2, <1>3, Invariance, PTL DEF Spec
-----------------------------------------------------------------------------
(* The registry implements FunctionLifetimes.                                *)

\* Under the invariant the life of an object is told by its owner and by the table.
Seen(o) ==
    CASE owner[o] = "unborn" -> "unborn"
      [] owner[o] = "caller" -> "owned"
      [] owner[o] = "sqlite" /\ o \in Registered -> "callable"
      [] OTHER -> "gone"

SeenRight == [o \in Objects |-> Life(o)] = [o \in Objects |-> Seen(o)]

LEMMA LivesSeen == Inv => SeenRight
<1> SUFFICES ASSUME Inv, NEW o \in Objects PROVE Life(o) = Seen(o)
  BY DEF SeenRight
<1> USE DEF Inv, Seen
<1>1. owner[o] \in {"unborn", "caller", "sqlite", "rejected"}
  BY DEF TypeOK
<1>2. o \in Registered => owner[o] = "sqlite"
  BY RegisteredFacts, FunctionAssumption DEF TableAccepted
<1>3. CASE owner[o] = "unborn"
  BY <1>3 DEF Life
<1>4. CASE owner[o] = "caller"
  BY <1>4 DEF Life, FreshUntouched
<1>5. CASE owner[o] = "sqlite"
  BY <1>5 DEF Life, OwnedBySqlite
<1>6. CASE owner[o] = "rejected"
  BY <1>2, <1>6 DEF Life, RejectedDeleted
<1> QED
  BY <1>1, <1>3, <1>4, <1>5, <1>6

\* Every step of the registry is a step of FunctionLifetimes, or none.
LEMMA NextLives == Inv /\ Inv' /\ [Next]_vars => [Lifetimes!Next]_(Lifetimes!vars)
<1> SUFFICES ASSUME Inv, Inv', [Next]_vars
             PROVE  [Lifetimes!Next]_(Lifetimes!vars)
  OBVIOUS
<1> DEFINE L == [o \in Objects |-> Life(o)]
<1>1. L = [o \in Objects |-> Seen(o)] /\ L' = [o \in Objects |-> Seen(o)']
  <2>1. SeenRight /\ SeenRight'
    BY LivesSeen, PTL
  <2> QED
    BY <2>1 DEF SeenRight
<1>2. \A o \in Objects : o \in Registered => owner[o] = "sqlite"
  BY RegisteredFacts, FunctionAssumption DEF Inv, TableAccepted
<1>3. \A o \in Objects : o \in Registered <=> \E k \in Keys : table[k] = o
  BY RegisteredFacts DEF Inv
<1>4. \A o \in Objects : o \in Registered' <=> \E k \in Keys : table'[k] = o
  BY FunctionAssumption DEF Registered
<1>5. owner \in [Objects -> {"unborn", "caller", "sqlite", "rejected"}]
  BY DEF Inv, TypeOK
<1> HIDE DEF L
<1>6. CASE UNCHANGED <<table, owner>> /\ (Open \/ UNCHANGED handle)
  <2>1. L' = L
    BY <1>1, <1>6 DEF Seen, Registered
  <2>2. CASE UNCHANGED handle
    BY <2>1, <2>2 DEF Lifetimes!vars, L
  <2>3. CASE Open
    BY <2>1, <2>3 DEF Open, Lifetimes!Next, Lifetimes!Connect, L
  <2> QED
    BY <1>6, <2>2, <2>3
<1>7. CASE Close
  <2>1. \A o \in Objects : o \notin Registered'
    BY <1>4, <1>7, FunctionAssumption DEF Close, Empty
  <2>2. owner' = owner
    BY <1>7 DEF Close
  <2>3. L' = [o \in Objects |-> IF L[o] = "callable" THEN "gone" ELSE L[o]]
    BY <1>1, <1>5, <2>1, <2>2 DEF Seen
  <2> QED
    BY <1>7, <2>3 DEF Close, Lifetimes!Next, Lifetimes!Disconnect, L
\* An object SQLite has never had goes to its next stage alone.
<1>8. ASSUME NEW o \in Objects, NEW p, owner[o] \in {"unborn", "caller"},
             p \in {"caller", "rejected"}, owner' = [owner EXCEPT ![o] = p], table' = table
      PROVE  L' = [x \in Objects |-> IF x \in {} THEN "gone"
                                     ELSE IF x = o THEN IF p = "caller" THEN "owned" ELSE "gone"
                                     ELSE L[x]]
  <2>1. Registered' = Registered
    BY <1>8 DEF Registered
  <2>2. \A x \in Objects : owner'[x] = IF x = o THEN p ELSE owner[x]
    BY <1>5, <1>8
  <2> QED
    BY <1>1, <1>8, <2>1, <2>2 DEF Seen
<1>9. ASSUME NEW o \in Objects, Create(o) PROVE Lifetimes!Next
  <2>1. L[o] = "unborn"
    BY <1>1, <1>9 DEF Create, Seen
  <2>2. L' = [x \in Objects |-> IF x \in {} THEN "gone" ELSE IF x = o THEN "owned" ELSE L[x]]
    BY <1>8, <1>9 DEF Create
  <2> QED
    BY <1>9, <2>1, <2>2 DEF Create, Lifetimes!Next, Lifetimes!Create, Lifetimes!Becomes, L
<1>10. ASSUME NEW o \in Objects, RegisterRefused(o) \/ RegisterFailed(o) PROVE Lifetimes!Next
  <2>1. L[o] = "owned"
    BY <1>1, <1>10 DEF RegisterRefused, RegisterFailed, Seen
  <2>2. L' = [x \in Objects |-> IF x \in {} THEN "gone" ELSE IF x = o THEN "gone" ELSE L[x]]
    BY <1>8, <1>10 DEF RegisterRefused, RegisterFailed
  <2>3. handle' = handle
    BY <1>10 DEF RegisterRefused, RegisterFailed
  <2> QED
    BY <2>1, <2>2, <2>3 DEF Lifetimes!Next, Lifetimes!Refuse, Lifetimes!Becomes, L
<1>11. ASSUME NEW o \in Objects, NEW key \in Keys, RegisterAccepted(o, key) PROVE Lifetimes!Next
  <2>1. /\ handle = "open" /\ handle' = handle /\ owner[o] = "caller"
        /\ owner' = [owner EXCEPT ![o] = "sqlite"]
        /\ table' = [table EXCEPT ![key] = o]
    BY <1>11 DEF RegisterAccepted
  <2>2. L[o] = "owned"
    BY <1>1, <2>1 DEF Seen
  <2>3. \A k \in Keys : table'[k] = IF k = key THEN o ELSE table[k]
    BY <2>1 DEF Inv, TypeOK
  <2>4. \A x \in Objects : x # o =>
           (x \in Registered' <=> x \in Registered /\ x # table[key])
    BY <1>3, <1>4, <2>3, FunctionAssumption DEF Inv, OneKeyEach
  <2>5. o \in Registered' /\ o # table[key]
    BY <1>2, <1>3, <1>4, <2>1, <2>3
  <2>6. L' = [x \in Objects |-> IF x \in {table[key]} THEN "gone"
                               ELSE IF x = o THEN "callable" ELSE L[x]]
    <3> SUFFICES ASSUME NEW x \in Objects
                 PROVE  Seen(x)' = IF x = table[key] THEN "gone"
                                   ELSE IF x = o THEN "callable" ELSE Seen(x)
      BY <1>1
    <3>1. owner'[x] = IF x = o THEN "sqlite" ELSE owner[x]
      BY <1>5, <2>1
    <3>2. CASE x = table[key]
      <4>1. x # o /\ owner[x] = "sqlite" /\ x \notin Registered'
        BY <1>2, <1>3, <2>4, <2>5, <3>2
      <4> QED
        BY <3>1, <3>2, <4>1 DEF Seen
    <3>3. CASE x # table[key]
      BY <2>4, <2>5, <3>1, <3>3 DEF Seen
    <3> QED
      BY <3>2, <3>3
  <2>7. CASE table[key] = None
    <3>1. L' = [x \in Objects |-> IF x \in {} THEN "gone" ELSE IF x = o THEN "callable" ELSE L[x]]
      BY <2>6, <2>7, FunctionAssumption
    <3> QED
      BY <2>1, <2>2, <3>1 DEF Lifetimes!Next, Lifetimes!Accept, Lifetimes!Becomes, L
  <2>8. CASE table[key] # None
    <3>1. table[key] \in Objects \ {o}
      BY <2>5, <2>8 DEF Inv, TypeOK
    <3>2. L[table[key]] = "callable"
      BY <1>1, <1>2, <1>3, <3>1 DEF Seen
    <3> QED
      BY <2>1, <2>2, <2>6, <3>1, <3>2 DEF Lifetimes!Next, Lifetimes!Accept, Lifetimes!Becomes, L
  <2> QED
    BY <2>7, <2>8
<1> QED
  BY <1>6, <1>7, <1>9, <1>10, <1>11
     DEF Next, vars, Step, UnregisterAll, Unregister, Open

\* Any number of objects, names and signatures: an object's life is the one its author was
\* promised, whatever is replaced, unregistered, refused or closed.
THEOREM RegistryImplementsLifetimes == Spec => ImplementsLifetimes
<1>1. Init => Lifetimes!Init
  BY DEF Init, Lifetimes!Init, Life
<1> QED
  BY <1>1, Invariance, NextLives, PTL DEF Spec, ImplementsLifetimes, Lifetimes!Spec
=============================================================================
