-------------------------- MODULE LifecycleProofs --------------------------
(***************************************************************************)
(* Proofs about Lifecycle for every set of Statement addresses.  Inv is     *)
(* inductive; the action properties and the refinement follow from it one   *)
(* step at a time.                                                          *)
(***************************************************************************)
EXTENDS Lifecycle, TLAPS

Inv == TypeOK /\ HandlesTracked /\ ColumnsNeedStatement

\* An outcome of reset() is a record of a Boolean and a state of the statement; it
\* succeeds on a null statement only where the handle is open.
LEMMA ResetOutcomes ==
    ASSUME TypeOK, NEW s \in Stmts, NEW r \in Reset(s)
    PROVE  /\ r.result \in Results
           /\ r.vm \in VmStates
           /\ vm[s] = "null" /\ r.result = "success" => handle = "open"
           /\ vm[s] = "null" /\ r.vm # "null" => r.result = "success"
           /\ vm[s] # "null" => r.vm # "null"
  BY DEF Results, Reset, Prepare, Rejected, Compiled, VmStates, TypeOK

\* The same of the constructor's prepare().
LEMMA PrepareOutcomes ==
    ASSUME NEW kind \in Commands, NEW r \in Prepare(kind)
    PROVE  /\ r.result \in Results
           /\ r.vm \in VmStates
           /\ r.result = "success" => handle = "open"
           /\ r.vm # "null" => r.result = "success"
  BY DEF Results, Prepare, Rejected, Compiled, VmStates

\* step() succeeds only after a successful reset() of a compiled statement, and a
\* statement is compiled after it exactly when it was after the reset.
LEMMA StepOutcomes ==
    ASSUME NEW r, r.result \in Results, r.vm \in VmStates, NEW e \in StepAfter(r)
    PROVE  /\ e.result \in Results
           /\ e.vm \in VmStates
           /\ e.result = "success" => r.result = "success" /\ r.vm # "null"
           /\ e.vm = "null" <=> r.vm = "null"
  BY DEF Results, StepAfter, StepStates, VmStates

\* close() leaves no compiled statement behind: where it finalizes at all, every
\* compiled statement is registered, and so finalized.
LEMMA CloseFinalizes ==
    ASSUME Inv, CloseStatements
    PROVE  /\ vm' \in [Stmts -> VmStates]
           /\ columns' = {}
           /\ health' \in {"fine", "corrupt"}
           /\ \A s \in Stmts : vm'[s] = "null"
<1> USE DEF Inv, TypeOK, HandlesTracked, ColumnsNeedStatement, Live, VmStates
<1>1. CASE IsOpening /\ Live # {}
  BY <1>1 DEF CloseStatements, FinalizeAll
<1>2. CASE ~(IsOpening /\ Live # {})
  <2>1. UNCHANGED <<vm, columns, health>>
    BY <1>2 DEF CloseStatements
  <2>2. Live = {}
    BY <1>2 DEF IsOpening
  <2>3. QED
    BY <2>1, <2>2
<1>3. QED
  BY <1>1, <1>2

LEMMA InitInv == Init => Inv
  BY DEF Init, Inv, TypeOK, Results, HandlesTracked, ColumnsNeedStatement, Live, Alive, VmStates

LEMMA NextInv == Inv /\ [Next]_vars => Inv'
<1> SUFFICES ASSUME Inv, [Next]_vars
             PROVE  Inv'
  OBVIOUS
<1> USE DEF Inv, TypeOK, Results, HandlesTracked, ColumnsNeedStatement, Live, Alive
<1>1. CASE Open
  BY <1>1 DEF Open, IsOpening
<1>2. CASE Close
  BY <1>2, CloseFinalizes DEF Close
<1>3. CASE DestroyConnection
  BY <1>3, CloseFinalizes DEF DestroyConnection
<1>4. CASE ConnectionRefuses
  BY <1>4 DEF ConnectionRefuses
<1>5. ASSUME NEW s \in Stmts, NEW kind \in Commands, NewCursor(s, kind)
      PROVE  Inv'
  <2>1. PICK r \in Prepare(kind) : /\ vm' = [vm EXCEPT ![s] = r.vm]
                                   /\ statements' = Registered(s, r)
    BY <1>5 DEF NewCursor
  <2>2. QED
    BY <1>5, <2>1, PrepareOutcomes, CommandsAssumption DEF NewCursor, Registered
<1>6. ASSUME NEW s \in Stmts, NEW kind \in Commands, ConnectionExec(s, kind)
      PROVE  Inv'
  <2>1. PICK r \in Prepare(kind) : \E e \in StepAfter(r) :
            /\ result' = e.result
            /\ statements' = IF r.vm = "null" THEN Registered(s, r) ELSE statements \ {s}
    BY <1>6 DEF ConnectionExec
  <2>2. result' \in Results
    BY <2>1, PrepareOutcomes, StepOutcomes
  <2>3. QED
    BY <1>6, <2>1, <2>2 DEF ConnectionExec, Registered
<1>7. ASSUME NEW s \in Stmts, QueryReset(s)
      PROVE  Inv'
  <2>1. PICK r \in Reset(s) : /\ vm' = [vm EXCEPT ![s] = r.vm]
                              /\ statements' = Registered(s, r)
                              /\ result' = r.result
    BY <1>7 DEF QueryReset
  <2>2. QED
    BY <1>7, <2>1, ResetOutcomes DEF QueryReset, Registered
<1>8. ASSUME NEW s \in Stmts, Exec(s)
      PROVE  Inv'
  <2>1. PICK r \in Reset(s) : \E e \in StepAfter(r) :
            /\ vm' = [vm EXCEPT ![s] = e.vm]
            /\ statements' = Registered(s, r)
            /\ result' = e.result
    BY <1>8 DEF Exec
  <2>2. PICK e \in StepAfter(r) : /\ vm' = [vm EXCEPT ![s] = e.vm]
                                  /\ statements' = Registered(s, r)
                                  /\ result' = e.result
    BY <2>1
  <2>3. QED
    BY <1>8, <2>2, ResetOutcomes, StepOutcomes DEF Exec, Registered
<1>9. ASSUME NEW s \in Stmts, QueryNext(s)
      PROVE  Inv'
  BY <1>9 DEF QueryNext, StepStates, VmStates
<1>10. ASSUME NEW s \in Stmts, Bind(s)
       PROVE  Inv'
  BY <1>10, ResetOutcomes DEF Bind
<1>11. ASSUME NEW s \in Stmts, CursorRefuses(s)
       PROVE  Inv'
  BY <1>11 DEF CursorRefuses
<1>12. ASSUME NEW s \in Stmts, CloseCursor(s)
       PROVE  Inv'
  BY <1>12 DEF CloseCursor, Finalize, Unregistered, VmStates
<1>13. ASSUME NEW s \in Stmts, DeleteCursor(s)
       PROVE  Inv'
  BY <1>13 DEF DeleteCursor, Finalize, Unregistered, VmStates
<1>14. CASE UNCHANGED vars
  BY <1>14 DEF vars
<1>15. QED
  BY <1>1, <1>2, <1>3, <1>4, <1>5, <1>6, <1>7, <1>8, <1>9, <1>10, <1>11, <1>12,
     <1>13, <1>14 DEF Next, CursorStep

\* The registry, the handles and the column info keep to their types, no compiled
\* statement is lost by the registry, and no column info outlives its statement.
THEOREM Invariance == Spec => []Inv
  BY InitInv, NextInv, PTL DEF Spec

\* The state of the connection and its statements keeps its types.
THEOREM TypeCorrect == Spec => []TypeOK
  BY Invariance, PTL DEF Inv

\* close() can rely on the registry: every compiled statement is registered, belongs
\* to a living object and runs on an open handle.
THEOREM HandlesAreTracked == Spec => []HandlesTracked
  BY Invariance, PTL DEF Inv

\* Column info never outlives the statement it describes.
THEOREM ColumnsAreBacked == Spec => []ColumnsNeedStatement
  BY Invariance, PTL DEF Inv

\* Connection::close always succeeds and leaves no handle.
THEOREM CloseAlwaysSucceeds == Spec => CloseSucceeds
<1>1. Inv /\ [Next]_vars => [Close => result' = "success" /\ handle' = "none"]_vars
  <2>1. Inv /\ Close => result' = "success" /\ handle' = "none"
    <3> SUFFICES ASSUME Inv, Close
                 PROVE  result' = "success" /\ handle' = "none"
      OBVIOUS
    <3>1. Live' = {}
      BY CloseFinalizes DEF Close, Live
    <3>2. QED
      BY <3>1 DEF Close
  <2>2. QED
    BY <2>1
<1>2. QED
  BY <1>1, Invariance, PTL DEF Spec, CloseSucceeds

\* A call on a Cursor or a Query succeeds only while the connection is open.
THEOREM CursorsFailWhenClosed == Spec => FailsWhenClosed
<1>1. Inv /\ [Next]_vars =>
        [result' = "success" /\ (\E s \in Stmts : CursorStep(s)) => handle = "open"]_vars
  <2> SUFFICES ASSUME Inv, NEW s \in Stmts, CursorStep(s), result' = "success"
               PROVE  handle = "open"
    OBVIOUS
  <2> USE DEF Inv, TypeOK, HandlesTracked, Live
  <2>1. CASE QueryReset(s)
    BY <2>1, ResetOutcomes DEF QueryReset
  <2>2. CASE Exec(s)
    <3>1. PICK r \in Reset(s) : \E e \in StepAfter(r) : result' = e.result
      BY <2>2 DEF Exec
    <3>2. r.result = "success"
      BY <3>1, ResetOutcomes, StepOutcomes
    <3>3. QED
      BY <3>2, ResetOutcomes
  <2>3. CASE QueryNext(s)
    BY <2>3 DEF QueryNext
  <2>4. CASE Bind(s)
    BY <2>4 DEF Bind
  <2>5. CASE CursorRefuses(s)
    BY <2>5 DEF CursorRefuses
  <2>6. QED
    BY <2>1, <2>2, <2>3, <2>4, <2>5 DEF CursorStep
<1>2. QED
  BY <1>1, Invariance, PTL DEF Spec, FailsWhenClosed

(* Without blank commands a Statement is registered exactly while compiled.  *)

LEMMA CloseFinalizesRegistered ==
    ASSUME Inv, RegistryExact, CloseStatements
    PROVE  /\ Live' = {}
           /\ (IsOpening /\ Live # {}) \/ statements = {}
           /\ health' = health
<1>1. statements \subseteq Alive
  BY DEF Inv, HandlesTracked, RegistryExact
<1>2. health' = health
  BY <1>1 DEF CloseStatements, FinalizeAll
<1>3. Live' = {}
  BY CloseFinalizes DEF Live
<1>4. (IsOpening /\ Live # {}) \/ statements = {}
  BY DEF Inv, HandlesTracked, RegistryExact, IsOpening
<1>5. QED
  BY <1>2, <1>3, <1>4

LEMMA NextExact ==
    ASSUME "blank" \notin Commands, Inv, RegistryExact, NoUseAfterFree, [Next]_vars
    PROVE  RegistryExact' /\ NoUseAfterFree'
<1>0. \A kind \in Commands : kind = "sql"
  BY CommandsAssumption
<1> USE DEF Inv, TypeOK, HandlesTracked, RegistryExact, NoUseAfterFree, Live, Alive
<1>1. CASE Open
  BY <1>1 DEF Open
<1>2. CASE Close
  BY <1>2, CloseFinalizesRegistered DEF Close
<1>3. CASE DestroyConnection
  BY <1>3, CloseFinalizesRegistered DEF DestroyConnection
<1>4. CASE ConnectionRefuses
  BY <1>4 DEF ConnectionRefuses
<1>5. ASSUME NEW s \in Stmts, NEW kind \in Commands, NewCursor(s, kind)
      PROVE  RegistryExact' /\ NoUseAfterFree'
  <2>1. PICK r \in Prepare(kind) : /\ vm' = [vm EXCEPT ![s] = r.vm]
                                   /\ statements' = Registered(s, r)
    BY <1>5 DEF NewCursor
  <2>2. r.result = "success" <=> r.vm # "null"
    BY <1>0 DEF Prepare, Rejected, Compiled
  <2>3. QED
    BY <1>5, <2>1, <2>2 DEF NewCursor, Registered
<1>6. ASSUME NEW s \in Stmts, NEW kind \in Commands, ConnectionExec(s, kind)
      PROVE  RegistryExact' /\ NoUseAfterFree'
  <2>1. PICK r \in Prepare(kind) :
            statements' = IF r.vm = "null" THEN Registered(s, r) ELSE statements \ {s}
    BY <1>6 DEF ConnectionExec
  <2>2. r.result = "success" <=> r.vm # "null"
    BY <1>0 DEF Prepare, Rejected, Compiled
  <2>3. s \notin statements
    BY <1>6 DEF ConnectionExec
  <2>4. statements' = statements
    BY <2>1, <2>2, <2>3 DEF Registered
  <2>5. QED
    BY <1>6, <2>4 DEF ConnectionExec
<1>7. ASSUME NEW s \in Stmts, NEW r \in Reset(s), s \in Alive
      PROVE  vm[s] = "null" => (r.result = "success" <=> r.vm # "null")
  BY <1>0, <1>7 DEF Reset, Prepare, Rejected, Compiled
<1>8. ASSUME NEW s \in Stmts, QueryReset(s)
      PROVE  RegistryExact' /\ NoUseAfterFree'
  <2>1. PICK r \in Reset(s) : /\ vm' = [vm EXCEPT ![s] = r.vm]
                              /\ statements' = Registered(s, r)
    BY <1>8 DEF QueryReset
  <2>2. QED
    BY <1>7, <1>8, <2>1, ResetOutcomes DEF QueryReset, Registered
<1>9. ASSUME NEW s \in Stmts, Exec(s)
      PROVE  RegistryExact' /\ NoUseAfterFree'
  <2>1. PICK r \in Reset(s) : \E e \in StepAfter(r) :
            /\ vm' = [vm EXCEPT ![s] = e.vm]
            /\ statements' = Registered(s, r)
    BY <1>9 DEF Exec
  <2>2. PICK e \in StepAfter(r) : /\ vm' = [vm EXCEPT ![s] = e.vm]
                                  /\ statements' = Registered(s, r)
    BY <2>1
  <2>3. e.vm = "null" <=> r.vm = "null"
    BY ResetOutcomes, StepOutcomes
  <2>4. QED
    BY <1>7, <1>9, <2>2, <2>3, ResetOutcomes DEF Exec, Registered
<1>10. ASSUME NEW s \in Stmts, QueryNext(s)
       PROVE  RegistryExact' /\ NoUseAfterFree'
  BY <1>10 DEF QueryNext, StepStates
<1>11. ASSUME NEW s \in Stmts, Bind(s)
       PROVE  RegistryExact' /\ NoUseAfterFree'
  BY <1>11, ResetOutcomes DEF Bind
<1>12. ASSUME NEW s \in Stmts, CursorRefuses(s)
       PROVE  RegistryExact' /\ NoUseAfterFree'
  BY <1>12 DEF CursorRefuses
<1>13. ASSUME NEW s \in Stmts, CloseCursor(s)
       PROVE  RegistryExact' /\ NoUseAfterFree'
  BY <1>13 DEF CloseCursor, Finalize, Unregistered
<1>14. ASSUME NEW s \in Stmts, DeleteCursor(s)
       PROVE  RegistryExact' /\ NoUseAfterFree'
  BY <1>14 DEF DeleteCursor, Finalize, Unregistered
<1>15. CASE UNCHANGED vars
  BY <1>15 DEF vars
<1>16. QED
  BY <1>1, <1>2, <1>3, <1>4, <1>5, <1>6, <1>8, <1>9, <1>10, <1>11, <1>12, <1>13,
     <1>14, <1>15 DEF Next, CursorStep

\* With no blank command, a Statement is registered exactly while it is compiled, and
\* finilize is never called through the pointer of a deleted Statement.
THEOREM NoBlankNoDanglingPointer ==
    ASSUME "blank" \notin Commands
    PROVE  Spec => [](RegistryExact /\ NoUseAfterFree)
<1>1. Init => RegistryExact /\ NoUseAfterFree
  BY DEF Init, RegistryExact, NoUseAfterFree, Live
<1>2. QED
  BY <1>1, NextExact, Invariance, PTL DEF Spec
-----------------------------------------------------------------------------
(* Lifecycle implements ConnectionContract.                                  *)

\* The lifetimes a caller sees are those of the contract: every step of the detailed
\* specification is one of its steps, or changes nothing it shows.
THEOREM LifecycleImplementsContract == Spec => ImplementsContract
<1>1. Init => Contract!Init
  BY DEF Init, Contract!Init, Alive, ContractConn, ContractCursor
<1>2. Inv /\ [Next]_vars => [Contract!Next]_(Contract!vars)
  <2> SUFFICES ASSUME Inv, [Next]_vars
               PROVE  [Contract!Next]_(Contract!vars)
    OBVIOUS
  <2> USE DEF Inv, TypeOK, HandlesTracked, Live, Alive, Contract!vars, ContractConn, ContractCursor
  <2>1. CASE Open
    BY <2>1 DEF Open, IsOpening, Contract!Next, Contract!Open
  <2>2. CASE Close
    BY <2>2, CloseFinalizes DEF Close, IsOpening, Contract!Next, Contract!Close,
       Contract!Idle
  <2>3. CASE DestroyConnection
    BY <2>3, CloseFinalizes DEF DestroyConnection, Contract!Next, Contract!Destroy,
       Contract!Idle
  <2>4. CASE ConnectionRefuses
    BY <2>4 DEF ConnectionRefuses
  <2>5. ASSUME NEW s \in Stmts, NEW kind \in Commands, NewCursor(s, kind)
        PROVE  [Contract!Next]_(Contract!vars)
    <3>1. PICK r \in Prepare(kind) : vm' = [vm EXCEPT ![s] = r.vm]
      BY <2>5 DEF NewCursor
    <3> DEFINE c == IF r.vm = "null" THEN "idle" ELSE "compiled"
    <3>2. ContractCursor' = [ContractCursor EXCEPT ![s] = c]
      BY <2>5, <3>1, CommandsAssumption DEF NewCursor
    <3>3. c \in {"idle"} \cup (IF ContractConn = "open" THEN {"compiled"} ELSE {})
      BY PrepareOutcomes
    <3>4. ContractConn # "gone" /\ ContractCursor[s] = "absent" /\ UNCHANGED ContractConn
      BY <2>5 DEF NewCursor
    <3>5. Contract!Create(s)
      BY <3>2, <3>3, <3>4 DEF Contract!Create
    <3>6. QED
      BY <3>5 DEF Contract!Next
  <2>6. ASSUME NEW s \in Stmts, NEW kind \in Commands, ConnectionExec(s, kind)
        PROVE  [Contract!Next]_(Contract!vars)
    BY <2>6 DEF ConnectionExec
  <2>7. ASSUME NEW s \in Stmts, s \in Alive, UNCHANGED <<handle, command>>, NEW v,
               vm' = [vm EXCEPT ![s] = v], vm[s] # "null" => v # "null",
               v # "null" => handle = "open"
        PROVE  [Contract!Next]_(Contract!vars)
    <3>1. CASE vm[s] = "null" /\ v # "null"
      <4>1. Contract!Compile(s)
        BY <2>7, <3>1 DEF Contract!Compile
      <4>2. QED
        BY <4>1 DEF Contract!Next
    <3>2. CASE vm[s] # "null" \/ v = "null"
      BY <2>7, <3>2
    <3>3. QED
      BY <3>1, <3>2
  <2>8. ASSUME NEW s \in Stmts, QueryReset(s)
        PROVE  [Contract!Next]_(Contract!vars)
    <3>1. PICK r \in Reset(s) : vm' = [vm EXCEPT ![s] = r.vm]
      BY <2>8 DEF QueryReset
    <3>2. QED
      BY <2>7, <2>8, <3>1, ResetOutcomes DEF QueryReset
  <2>9. ASSUME NEW s \in Stmts, Exec(s)
        PROVE  [Contract!Next]_(Contract!vars)
    <3>1. PICK r \in Reset(s) : \E e \in StepAfter(r) : vm' = [vm EXCEPT ![s] = e.vm]
      BY <2>9 DEF Exec
    <3>2. PICK e \in StepAfter(r) : vm' = [vm EXCEPT ![s] = e.vm]
      BY <3>1
    <3>3. /\ vm[s] # "null" => e.vm # "null"
          /\ e.vm # "null" => handle = "open"
      BY ResetOutcomes, StepOutcomes
    <3>4. QED
      BY <2>7, <2>9, <3>2, <3>3 DEF Exec
  <2>10. ASSUME NEW s \in Stmts, QueryNext(s)
         PROVE  [Contract!Next]_(Contract!vars)
    BY <2>7, <2>10 DEF QueryNext, StepStates
  <2>11. ASSUME NEW s \in Stmts, Bind(s)
         PROVE  [Contract!Next]_(Contract!vars)
    <3>1. PICK r \in Reset(s) : vm' = [vm EXCEPT ![s] = r.vm]
      BY <2>11 DEF Bind
    <3>2. QED
      BY <2>7, <2>11, <3>1, ResetOutcomes DEF Bind
  <2>12. ASSUME NEW s \in Stmts, CursorRefuses(s)
         PROVE  [Contract!Next]_(Contract!vars)
    BY <2>12 DEF CursorRefuses
  <2>13. ASSUME NEW s \in Stmts, CloseCursor(s)
         PROVE  [Contract!Next]_(Contract!vars)
    <3>1. CASE vm[s] = "null"
      BY <2>13, <3>1 DEF CloseCursor, Finalize
    <3>2. CASE vm[s] # "null"
      <4>1. ContractCursor' = [ContractCursor EXCEPT ![s] = "idle"]
        BY <2>13, <3>2 DEF CloseCursor, Finalize
      <4>2. ContractCursor[s] = "compiled" /\ UNCHANGED ContractConn
        BY <2>13, <3>2 DEF CloseCursor
      <4>3. Contract!Finish(s)
        BY <4>1, <4>2 DEF Contract!Finish
      <4>4. QED
        BY <4>3 DEF Contract!Next
    <3>3. QED
      BY <3>1, <3>2
  <2>14. ASSUME NEW s \in Stmts, DeleteCursor(s)
         PROVE  [Contract!Next]_(Contract!vars)
    <3>1. Contract!Discard(s)
      BY <2>14 DEF DeleteCursor, Finalize, Contract!Discard
    <3>2. QED
      BY <3>1 DEF Contract!Next
  <2>15. CASE UNCHANGED vars
    BY <2>15 DEF vars
  <2>16. QED
    BY <2>1, <2>2, <2>3, <2>4, <2>5, <2>6, <2>8, <2>9, <2>10, <2>11, <2>12, <2>13,
       <2>14, <2>15 DEF Next, CursorStep
<1>3. QED
  BY <1>1, <1>2, Invariance, PTL DEF Spec, ImplementsContract, Contract!Spec
=============================================================================
