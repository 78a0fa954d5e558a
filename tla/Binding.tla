------------------------------ MODULE Binding ------------------------------
(***************************************************************************)
(* The parameters of one Statement on an open connection: bind(), exec(),   *)
(* next(), reset() and close() of Core/Statement.cpp and .hpp, with the     *)
(* error that sqlite3_reset reports a second time, and with the caller's    *)
(* memory that a bound text or blob points into.                            *)
(*                                                                          *)
(* Lifecycle says when a Statement has an sqlite3_stmt; here the connection *)
(* stays open, so reset() can always try to compile it again, and the       *)
(* command has parameters, so it is not blank.  `call` is history: it tells *)
(* the properties which call a step was, and no action reads it.  A         *)
(* definition X_Y is X with one plausible slip, Y, in it.                   *)
(***************************************************************************)
CONSTANTS
    Params,         \* indices 1.._parametersCount of the command
    Buffers,        \* places in the caller's memory
    Values,         \* contents of a place, and numbers passed by value
    Null,           \* SQL NULL, the value of an unbound parameter
    BindTypes,      \* the BindTypes the caller uses: "Copy", "Static"
    KeepsBuffers    \* whether the caller leaves a buffer alone while it is bound

ASSUME BindingAssumption ==
    /\ Buffers \cap Values = {}
    /\ Null \notin Buffers \cup Values
    /\ BindTypes \subseteq {"Copy", "Static"}
    /\ KeepsBuffers \in BOOLEAN

VARIABLES
    vm,             \* as in Lifecycle: "null", "ready", "row", "done", "error"
    cell,           \* what SQLite holds for a parameter: a value, or a buffer of
                    \* the caller it was told not to copy
    memory,         \* [Buffers -> Values]: the caller's memory
    ran,            \* parameter values of the last execution that was started
    result,         \* Result of the last call: "success" or "error"
    call            \* the last call: <<name>>, or <<"bind", parameter, value>>

vars == <<vm, cell, memory, ran, result, call>>

Calls ==
    {<<"none">>, <<"bind">>, <<"exec">>, <<"next">>, <<"reset">>, <<"close">>}
        \cup {"bind"} \X Params \X Values

TypeOK ==
    /\ vm \in {"null", "ready", "row", "done", "error"}
    /\ cell \in [Params -> Buffers \cup Values \cup {Null}]
    /\ memory \in [Buffers -> Values]
    /\ ran \in [Params -> Values \cup {Null}]
    /\ result \in {"success", "error"}
    /\ call \in Calls

Unbound == [p \in Params |-> Null]

Init ==
    /\ vm = "null"
    /\ cell = Unbound
    /\ memory \in [Buffers -> Values]
    /\ ran = Unbound
    /\ result = "error"
    /\ call = <<"none">>

\* What a parameter that holds c counts as: SQLite reads the caller's memory when
\* it executes the command.
ValueOf(c) == IF c \in Buffers THEN memory[c] ELSE c

\* What SQLite reads for each parameter when it executes the command.
Bound == [p \in Params |-> ValueOf(cell[p])]
-----------------------------------------------------------------------------
(* Outcomes of reset() and of one sqlite3_step.                             *)

\* sqlite3_reset rewinds the statement and repeats the error of the last step;
\* a null statement is compiled, with every parameter unbound.
ResetResults ==
    CASE vm = "null" -> {"success", "error"}
      [] vm = "error" -> {"error"}
      [] OTHER -> {"success"}

\* The statement after a reset() that answered r.
VmAfterReset(r) == IF vm = "null" /\ r = "error" THEN "null" ELSE "ready"

StepStates_UnknownCode == {"row", "done", "error", "busy"}

StepStates == {"row", "done", "error"}

\* sqlite3_step starts an execution unless it stands on a row.
Starts(state) == state \in {"ready", "done", "error"}
-----------------------------------------------------------------------------
Reset ==
    /\ \E r \in ResetResults :
          /\ vm' = VmAfterReset(r)
          /\ result' = r
    /\ call' = <<"reset">>
    /\ UNCHANGED <<cell, memory, ran>>

Exec_IgnoresReset ==
    /\ \E v \in StepStates :
          /\ vm' = v
          /\ result' = IF v = "error" THEN "error" ELSE "success"
    /\ ran' = Bound
    /\ call' = <<"exec">>
    /\ UNCHANGED <<cell, memory>>

\* Statement::step: reset, and only if that succeeds one sqlite3_step.
Exec ==
    /\ \/ /\ "error" \in ResetResults
          /\ vm' = VmAfterReset("error")
          /\ result' = "error"
          /\ ran' = ran
       \/ /\ "success" \in ResetResults
          /\ \E v \in StepStates :
                /\ vm' = v
                /\ result' = IF v = "error" THEN "error" ELSE "success"
          /\ ran' = Bound
    /\ call' = <<"exec">>
    /\ UNCHANGED <<cell, memory>>

\* Statement::query: one sqlite3_step, no reset, success only on a row.
QueryNext ==
    /\ vm # "null"
    /\ \E v \in StepStates :
          /\ vm' = v
          /\ result' = IF v = "row" THEN "success" ELSE "error"
    /\ ran' = IF Starts(vm) THEN Bound ELSE ran
    /\ call' = <<"next">>
    /\ UNCHANGED <<cell, memory>>

\* The destructor argument that reaches sqlite3_bind_text / _blob.  Cursor.cpp
\* derives it from the BindType, but the BindValue constructors assign their
\* parameter to itself, and the member keeps the null that init() gave it, which
\* is SQLITE_STATIC.
Destructor(opt) == "SQLITE_STATIC"

\* sqlite3_bind_*: refused while the statement stands on a row or has not been
\* reset, otherwise the parameter's cell is replaced.
SqliteBind(p, c, state) ==
    IF state = "ready"
    THEN cell' = [cell EXCEPT ![p] = c] /\ result' = "success"
    ELSE cell' = cell /\ result' = "error"

BindIndex_SkipsReset(p, c) ==
    /\ vm # "null"
    /\ SqliteBind(p, c, vm)
    /\ call' = <<"bind", p, ValueOf(c)>>
    /\ UNCHANGED <<vm, memory, ran>>

BindIndex_KeepsRow(p, c) ==
    /\ vm # "null"
    /\ cell' = [cell EXCEPT ![p] = c]
    /\ result' = "success"
    /\ call' = <<"bind", p, ValueOf(c)>>
    /\ UNCHANGED <<vm, memory, ran>>

\* Statement::bindIndex of a valid index on a compiled statement.
BindIndex(p, c) ==
    /\ vm # "null"
    /\ \E r \in ResetResults :
          /\ vm' = VmAfterReset(r)
          /\ IF r = "success"
             THEN SqliteBind(p, c, vm')
             ELSE cell' = cell /\ result' = "error"
    /\ call' = <<"bind", p, ValueOf(c)>>
    /\ UNCHANGED <<memory, ran>>

\* bind() of an int, an int64 or a double.
BindNumber(p, v) == BindIndex(p, v)

\* bind() of a std::string or a blob at b.
BindBuffer(p, b, opt) ==
    BindIndex(p, IF Destructor(opt) = "SQLITE_STATIC" THEN b ELSE memory[b])

\* An index or a name the command does not have (a statement that is not compiled
\* has none), or a blob without bytes.
BindRefused ==
    /\ result' = "error"
    /\ call' = <<"bind">>
    /\ UNCHANGED <<vm, cell, memory, ran>>

\* next() of a statement that is not compiled.
NextRefused ==
    /\ vm = "null"
    /\ result' = "error"
    /\ call' = <<"next">>
    /\ UNCHANGED <<vm, cell, memory, ran>>

\* finilize, by Cursor::close or by Connection::close: SQLite drops the bindings.
Close ==
    /\ vm' = "null"
    /\ cell' = Unbound
    /\ call' = <<"close">>
    /\ UNCHANGED <<memory, ran, result>>

\* The caller changes or frees the memory at b.
Overwrite(b, v) ==
    /\ KeepsBuffers => \A p \in Params : cell[p] # b
    /\ memory' = [memory EXCEPT ![b] = v]
    /\ UNCHANGED <<vm, cell, ran, result, call>>

Next ==
    \/ Reset
    \/ Exec
    \/ QueryNext
    \/ BindRefused
    \/ NextRefused
    \/ Close
    \/ \E p \in Params :
          \/ \E v \in Values : BindNumber(p, v)
          \/ \E b \in Buffers, opt \in BindTypes : BindBuffer(p, b, opt)
    \/ \E b \in Buffers, v \in Values : Overwrite(b, v)

Spec == Init /\ [][Next]_vars
-----------------------------------------------------------------------------
(* Properties.                                                              *)

\* The row a query stands on was selected with the values that are bound now: a
\* bind() in the middle of a result set rewinds the query (Statement.hpp:183), so
\* rows of the old and of the new values never mix.
RowsMatchBindings == vm = "row" => ran = Bound

\* bind() of a parameter of a compiled statement fails only to report the error of
\* the step before it; a statement that is running or finished can be bound again
\* (Statement.hpp:183-186; test cursor_bind).
BindFailsOnlyOnError ==
    [][\A p \in Params, v \in Values :
          BindNumber(p, v) /\ vm # "error" => result' = "success"]_vars

\* The state of the statement as a caller can tell it from the answers.
Phase ==
    CASE vm = "null" -> "closed"
      [] vm \in {"ready", "done"} -> "idle"
      [] vm = "row" -> "row"
      [] OTHER -> "failed"

\* Each call does to the bindings, and to what has been run with them, what
\* BoundCommand says of that call: an exec() after a failed step runs nothing
\* (Statement.cpp:91-94), a next() past the end runs the command again
\* (Statement.cpp:104), and only close() forgets the values (Statement.cpp:48).
Contract == INSTANCE BoundCommand WITH phase <- Phase, bound <- Bound

ImplementsBoundCommand == Contract!Spec

\* A value bound with BindType Copy is the statement's own: the caller's memory can
\* change without changing what the command will use.
CopyIsPrivate == [][\A b \in Buffers, v \in Values : Overwrite(b, v) => Bound' = Bound]_vars
=============================================================================
