---------------------------- MODULE BoundCommand ----------------------------
(***************************************************************************)
(* What a caller can rely on, call by call, about the parameters of one     *)
(* Cursor whose command is not blank, on an open connection:                *)
(*   - a value is bound by a bind() that answers success, of that parameter *)
(*     and to that value, and is forgotten by close() and by nothing else;  *)
(*   - exec() that answers success has run the command, with exactly the    *)
(*     values bound now; after a failed step it runs nothing and answers    *)
(*     that step's error once more;                                         *)
(*   - next() goes on from a row, and runs the command again from anywhere  *)
(*     else;                                                                *)
(*   - bind() and reset() rewind, and report the error of a failed step     *)
(*     once.                                                                *)
(* Module Binding implements this one.                                      *)
(***************************************************************************)
CONSTANTS
    Params,         \* the parameters of the command
    Values,         \* what can be bound to them
    Null            \* what an unbound parameter counts as

VARIABLES
    phase,          \* "closed", "idle", "row" (a result is being read), "failed"
    bound,          \* [Params -> Values \cup {Null}]
    ran,            \* the values of the last execution that was started
    result,         \* of the last call: "success" or "error"
    call            \* the last call: <<name>>, or <<"bind", parameter, value>>

vars == <<phase, bound, ran, result, call>>

Unbound == [p \in Params |-> Null]

Init ==
    /\ phase = "closed"
    /\ bound = Unbound
    /\ ran = Unbound
    /\ result \in {"success", "error"}
    /\ call = <<"none">>

Bind(p, v) ==
    /\ call' = <<"bind", p, v>>
    /\ phase \in {"idle", "row", "failed"}
    /\ phase' = "idle"
    /\ \/ /\ phase # "failed"
          /\ bound' = [bound EXCEPT ![p] = v]
          /\ result' = "success"
       \/ /\ phase = "failed"
          /\ bound' = bound
          /\ result' = "error"
    /\ ran' = ran

\* bind() of no parameter of the compiled command.
BindNothing ==
    /\ call' = <<"bind">>
    /\ result' = "error"
    /\ UNCHANGED <<phase, bound, ran>>

Exec ==
    /\ call' = <<"exec">>
    /\ \/ /\ phase # "failed"
          /\ ran' = bound
          /\ \/ phase' \in {"idle", "row"} /\ result' = "success"
             \/ phase' = "failed" /\ result' = "error"
       \/ /\ phase = "failed"
          /\ phase' = "idle"
          /\ result' = "error"
          /\ ran' = ran
       \/ /\ phase = "closed"       \* the command cannot be compiled
          /\ result' = "error"
          /\ UNCHANGED <<phase, ran>>
    /\ bound' = bound

QueryNext ==
    /\ call' = <<"next">>
    /\ \/ /\ phase # "closed"
          /\ ran' = IF phase = "row" THEN ran ELSE bound
          /\ \/ phase' = "row" /\ result' = "success"
             \/ phase' \in {"idle", "failed"} /\ result' = "error"
       \/ /\ phase = "closed"
          /\ result' = "error"
          /\ UNCHANGED <<phase, ran>>
    /\ bound' = bound

Reset ==
    /\ call' = <<"reset">>
    /\ \/ phase # "failed" /\ phase' = "idle" /\ result' = "success"
       \/ phase = "failed" /\ phase' = "idle" /\ result' = "error"
       \/ phase = "closed" /\ phase' = "closed" /\ result' = "error"
    /\ UNCHANGED <<bound, ran>>

Close ==
    /\ call' = <<"close">>
    /\ phase' = "closed"
    /\ bound' = Unbound
    /\ UNCHANGED <<ran, result>>

Next ==
    \/ \E p \in Params, v \in Values : Bind(p, v)
    \/ BindNothing
    \/ Exec
    \/ QueryNext
    \/ Reset
    \/ Close

Spec == Init /\ [][Next]_vars
=============================================================================
