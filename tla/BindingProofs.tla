--------------------------- MODULE BindingProofs ---------------------------
(***************************************************************************)
(* Proofs about Binding for every set of parameters, buffers and values.    *)
(***************************************************************************)
EXTENDS Binding, TLAPS

Inv == TypeOK /\ RowsMatchBindings

\* reset() answers a Result, fails on a compiled statement only to repeat an error,
\* and leaves a compiled statement ready.
LEMMA ResetFacts ==
    ASSUME TypeOK, NEW r \in ResetResults
    PROVE  /\ r \in {"success", "error"}
           /\ VmAfterReset(r) \in {"null", "ready"}
           /\ vm # "null" => VmAfterReset(r) = "ready"
           /\ vm # "null" /\ vm # "error" => r = "success"
           /\ r = "success" => VmAfterReset(r) = "ready"
  BY DEF ResetResults, VmAfterReset, TypeOK

\* The values the command would run with are values.
LEMMA BoundType ==
    ASSUME TypeOK
    PROVE  Bound \in [Params -> Values \cup {Null}]
  BY DEF TypeOK, Bound, ValueOf

\* What the program's or the caller's place for a value counts as is a value.
LEMMA ValueOfType ==
    ASSUME TypeOK, NEW c \in Buffers \cup Values
    PROVE  ValueOf(c) \in Values
  BY DEF TypeOK, ValueOf

\* What bindIndex does, whatever reset() answered.
LEMMA BindFacts ==
    ASSUME TypeOK, NEW p, NEW c, BindIndex(p, c)
    PROVE  /\ vm # "null" /\ vm' = "ready"
           /\ UNCHANGED <<memory, ran>>
           /\ call' = <<"bind", p, ValueOf(c)>>
           /\ \/ result' = "success" /\ cell' = [cell EXCEPT ![p] = c]
              \/ result' = "error" /\ cell' = cell
           /\ vm # "error" => result' = "success"
           /\ vm = "error" => result' = "error"
  BY ResetFacts DEF BindIndex, SqliteBind, ResetResults

LEMMA InitInv == Init => Inv
  BY DEF Init, Inv, TypeOK, Unbound, RowsMatchBindings, Calls

LEMMA NextType == TypeOK /\ [Next]_vars => TypeOK'
<1> SUFFICES ASSUME TypeOK, [Next]_vars
             PROVE  TypeOK'
  OBVIOUS
<1> USE DEF TypeOK, Calls
<1>1. CASE Reset
  BY <1>1, ResetFacts DEF Reset
<1>2. CASE Exec
  BY <1>2, ResetFacts, BoundType DEF Exec, StepStates
<1>3. CASE QueryNext
  BY <1>3, BoundType DEF QueryNext, StepStates
<1>4. CASE BindRefused \/ NextRefused
  BY <1>4 DEF BindRefused, NextRefused
<1>5. CASE Close
  BY <1>5 DEF Close, Unbound
<1>6. ASSUME NEW p \in Params, NEW v \in Values, BindNumber(p, v)
      PROVE  TypeOK'
  BY <1>6, BindFacts, ValueOfType DEF BindNumber
<1>7. ASSUME NEW p \in Params, NEW b \in Buffers, NEW opt \in BindTypes, BindBuffer(p, b, opt)
      PROVE  TypeOK'
  BY <1>7, BindFacts, ValueOfType DEF BindBuffer, Destructor
<1>8. ASSUME NEW b \in Buffers, NEW v \in Values, Overwrite(b, v)
      PROVE  TypeOK'
  BY <1>8 DEF Overwrite
<1>9. CASE UNCHANGED vars
  BY <1>9 DEF vars
<1>10. QED
  BY <1>1, <1>2, <1>3, <1>4, <1>5, <1>6, <1>7, <1>8, <1>9 DEF Next

\* The parameters and the statement keep their types.
THEOREM TypeCorrect == Spec => []TypeOK
<1>1. Init => TypeOK
  BY InitInv DEF Inv
<1>2. QED
  BY <1>1, NextType, PTL DEF Spec

\* A caller that leaves bound buffers alone changes no bound value by writing memory.
LEMMA OverwriteKeepsBound ==
    ASSUME TypeOK, KeepsBuffers, NEW b \in Buffers, NEW v \in Values, Overwrite(b, v)
    PROVE  Bound' = Bound
<1>1. \A p \in Params : cell'[p] = cell[p] /\ cell[p] # b
  BY DEF Overwrite
<1>2. \A p \in Params : cell[p] \in Buffers => memory'[cell[p]] = memory[cell[p]]
  BY <1>1 DEF Overwrite, TypeOK
<1>3. QED
  BY <1>1, <1>2 DEF Bound, ValueOf

\* While the caller leaves bound buffers alone, the row a query stands on was selected
\* with the values bound now.
THEOREM RowsAlwaysMatch ==
    ASSUME KeepsBuffers
    PROVE  Spec => []RowsMatchBindings
<1>1. TypeOK /\ RowsMatchBindings /\ [Next]_vars => RowsMatchBindings'
  <2> SUFFICES ASSUME TypeOK, RowsMatchBindings, [Next]_vars
               PROVE  RowsMatchBindings'
    OBVIOUS
  <2> USE DEF RowsMatchBindings
  <2>1. CASE Reset
    BY <2>1, ResetFacts DEF Reset
  <2>2. CASE Exec
    <3>1. UNCHANGED <<cell, memory>>
      BY <2>2 DEF Exec
    <3>2. Bound' = Bound
      BY <3>1 DEF Bound, ValueOf
    <3>3. CASE vm' = VmAfterReset("error") /\ "error" \in ResetResults
      BY <3>3, ResetFacts
    <3>4. CASE ran' = Bound
      BY <3>2, <3>4
    <3>5. QED
      BY <2>2, <3>3, <3>4 DEF Exec
  <2>3. CASE QueryNext
    <3>1. Bound' = Bound
      BY <2>3 DEF QueryNext, Bound, ValueOf
    <3>2. QED
      BY <2>3, <3>1 DEF QueryNext, Starts, TypeOK
  <2>4. CASE BindRefused \/ NextRefused
    BY <2>4 DEF BindRefused, NextRefused, Bound, ValueOf
  <2>5. CASE Close
    BY <2>5 DEF Close
  <2>6. ASSUME NEW p \in Params, NEW v \in Values, BindNumber(p, v)
        PROVE  RowsMatchBindings'
    BY <2>6, BindFacts DEF BindNumber
  <2>7. ASSUME NEW p \in Params, NEW b \in Buffers, NEW opt \in BindTypes,
               BindBuffer(p, b, opt)
        PROVE  RowsMatchBindings'
    BY <2>7, BindFacts DEF BindBuffer
  <2>8. ASSUME NEW b \in Buffers, NEW v \in Values, Overwrite(b, v)
        PROVE  RowsMatchBindings'
    BY <2>8, OverwriteKeepsBound DEF Overwrite
  <2>9. CASE UNCHANGED vars
    BY <2>9 DEF vars, Bound, ValueOf
  <2>10. QED
    BY <2>1, <2>2, <2>3, <2>4, <2>5, <2>6, <2>7, <2>8, <2>9 DEF Next
<1>2. Init => RowsMatchBindings
  BY InitInv DEF Inv
<1>3. QED
  BY <1>1, <1>2, TypeCorrect, PTL DEF Spec

\* bind() of a parameter fails only to report the error of the step before it.
THEOREM BindFailsOnlyToReport == Spec => BindFailsOnlyOnError
<1>1. TypeOK /\ [Next]_vars =>
        [\A p \in Params, v \in Values :
            BindNumber(p, v) /\ vm # "error" => result' = "success"]_vars
  BY BindFacts DEF BindNumber
<1>2. QED
  BY <1>1, TypeCorrect, PTL DEF Spec, BindFailsOnlyOnError

\* While the caller leaves bound buffers alone, every call does to the bindings and to
\* what has been run what BoundCommand says of it.
THEOREM BindingImplementsBoundCommand ==
    ASSUME KeepsBuffers
    PROVE  Spec => ImplementsBoundCommand
<1>1. Init => Contract!Init
  <2> SUFFICES ASSUME Init
               PROVE  Contract!Init
    OBVIOUS
  <2>1. Bound = Contract!Unbound
    BY BindingAssumption DEF Init, Unbound, Bound, ValueOf, Contract!Unbound
  <2>2. QED
    BY <2>1 DEF Init, Unbound, Phase, Contract!Init, Contract!Unbound
<1>2. TypeOK /\ [Next]_vars => [Contract!Next]_(Contract!vars)
  <2> SUFFICES ASSUME TypeOK, [Next]_vars
               PROVE  [Contract!Next]_(Contract!vars)
    OBVIOUS
  <2> USE DEF Contract!vars, TypeOK
  <2>1. UNCHANGED <<cell, memory>> => Bound' = Bound
    BY DEF Bound, ValueOf
  <2>2. ASSUME NEW p \in Params, NEW c \in Buffers \cup Values, BindIndex(p, c)
        PROVE  [Contract!Next]_(Contract!vars)
    <3> DEFINE v == ValueOf(c)
    <3>1. v \in Values
      BY ValueOfType
    <3>2. Phase \in {"idle", "row", "failed"} /\ Phase' = "idle"
      BY <2>2, BindFacts DEF Phase
    <3>3. CASE vm = "error"
      <4>1. Bound' = Bound
        BY <2>1, <2>2, <3>3, BindFacts
      <4>2. Contract!Bind(p, v)
        BY <2>2, <3>2, <3>3, <4>1, BindFacts DEF Contract!Bind, Phase
      <4>3. QED
        BY <3>1, <4>2 DEF Contract!Next
    <3>4. CASE vm # "error"
      <4>1. result' = "success" /\ cell' = [cell EXCEPT ![p] = c]
        BY <2>2, <3>4, BindFacts
      <4>2. memory' = memory /\ ran' = ran /\ call' = <<"bind", p, v>>
        BY <2>2, BindFacts
      <4>3. Bound' = [Bound EXCEPT ![p] = v]
        BY <4>1, <4>2 DEF Bound, ValueOf
      <4>4. Phase # "failed"
        BY <2>2, <3>4, BindFacts DEF Phase
      <4>5. Contract!Bind(p, v)
        BY <3>2, <4>1, <4>2, <4>3, <4>4 DEF Contract!Bind
      <4>6. QED
        BY <3>1, <4>5 DEF Contract!Next
    <3>5. QED
      BY <3>3, <3>4
  <2>3. CASE Reset
    <3>1. Contract!Reset
      BY <2>1, <2>3 DEF Reset, ResetResults, VmAfterReset, Phase, Contract!Reset
    <3>2. QED
      BY <3>1 DEF Contract!Next
  <2>4. CASE Exec
    <3>1. Contract!Exec
      BY <2>1, <2>4 DEF Exec, ResetResults, VmAfterReset, StepStates, Phase, Contract!Exec
    <3>2. QED
      BY <3>1 DEF Contract!Next
  <2>5. CASE QueryNext
    <3>1. Contract!QueryNext
      BY <2>1, <2>5 DEF QueryNext, StepStates, Starts, Phase, Contract!QueryNext
    <3>2. QED
      BY <3>1 DEF Contract!Next
  <2>6. CASE BindRefused
    <3>1. Contract!BindNothing
      BY <2>1, <2>6 DEF BindRefused, Phase, Contract!BindNothing
    <3>2. QED
      BY <3>1 DEF Contract!Next
  <2>7. CASE NextRefused
    <3>1. Contract!QueryNext
      BY <2>1, <2>7 DEF NextRefused, Phase, Contract!QueryNext
    <3>2. QED
      BY <3>1 DEF Contract!Next
  <2>8. CASE Close
    <3>1. Bound' = Contract!Unbound
      BY <2>8, BindingAssumption DEF Close, Unbound, Bound, ValueOf, Contract!Unbound
    <3>2. Contract!Close
      BY <2>8, <3>1 DEF Close, Phase, Contract!Close
    <3>3. QED
      BY <3>2 DEF Contract!Next
  <2>9. ASSUME NEW p \in Params, NEW v \in Values, BindNumber(p, v)
        PROVE  [Contract!Next]_(Contract!vars)
    BY <2>2, <2>9 DEF BindNumber
  <2>10. ASSUME NEW p \in Params, NEW b \in Buffers, NEW opt \in BindTypes,
                BindBuffer(p, b, opt)
         PROVE  [Contract!Next]_(Contract!vars)
    BY <2>2, <2>10 DEF BindBuffer, Destructor
  <2>11. ASSUME NEW b \in Buffers, NEW v \in Values, Overwrite(b, v)
         PROVE  [Contract!Next]_(Contract!vars)
    BY <2>11, OverwriteKeepsBound DEF Overwrite, Phase
  <2>12. CASE UNCHANGED vars
    BY <2>1, <2>12 DEF vars, Phase
  <2>13. QED
    BY <2>3, <2>4, <2>5, <2>6, <2>7, <2>8, <2>9, <2>10, <2>11, <2>12 DEF Next
<1>3. QED
  BY <1>1, <1>2, TypeCorrect, PTL DEF Spec, ImplementsBoundCommand, Contract!Spec
=============================================================================
