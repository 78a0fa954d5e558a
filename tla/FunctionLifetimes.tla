------------------------- MODULE FunctionLifetimes -------------------------
(***************************************************************************)
(* What Connection promises whoever writes a Function: it is handed over     *)
(* once, SQLite may call it from then until it is replaced or the            *)
(* connection closes, and it is deleted at that moment and no other.         *)
(* Nothing is said of names, signatures or of when SQLite says BUSY.         *)
(***************************************************************************)
CONSTANT Objects

VARIABLES
    connected,   \* there is a handle to register functions with
    life         \* per object: "unborn", "owned" by its caller, "callable", "gone"

vars == <<connected, life>>

Init ==
    /\ connected = FALSE
    /\ life = [o \in Objects |-> "unborn"]

\* The objects of gone are deleted, o is now at stage s.
Becomes(o, s, gone) ==
    life' = [x \in Objects |-> IF x \in gone THEN "gone" ELSE IF x = o THEN s ELSE life[x]]

Connect ==
    /\ ~connected
    /\ connected' = TRUE
    /\ UNCHANGED life

Create(o) ==
    /\ life[o] = "unborn"
    /\ Becomes(o, "owned", {})
    /\ UNCHANGED connected

\* A registration takes the place of one other function at most.
Accept(o) ==
    /\ connected
    /\ life[o] = "owned"
    /\ \/ Becomes(o, "callable", {})
       \/ \E x \in Objects \ {o} : life[x] = "callable" /\ Becomes(o, "callable", {x})
    /\ UNCHANGED connected

\* A registration that fails takes the object all the same.
Refuse(o) ==
    /\ life[o] = "owned"
    /\ Becomes(o, "gone", {})
    /\ UNCHANGED connected

Disconnect ==
    /\ connected
    /\ connected' = FALSE
    /\ life' = [o \in Objects |-> IF life[o] = "callable" THEN "gone" ELSE life[o]]

Next ==
    \/ Connect
    \/ Disconnect
    \/ \E o \in Objects : Create(o) \/ Accept(o) \/ Refuse(o)

Spec == Init /\ [][Next]_vars
=============================================================================
