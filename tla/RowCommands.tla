----------------------------- MODULE RowCommands -----------------------------
(***************************************************************************)
(* One command object of Extension/InsertCommand, UpdateCommand or           *)
(* DeleteCommand with the conditions of ExprCommand: the calls that build    *)
(* it, and what the statement that command() spells does to a row.           *)
(*                                                                          *)
(* The object can be used again: command() changes nothing, and later calls  *)
(* add to what is there.  Every schema has a table of the name.  A           *)
(* definition X_Y is X with one plausible slip, Y, in it.                    *)
(***************************************************************************)
EXTENDS Naturals, Sequences, FiniteSets

CONSTANTS
    Columns,        \* the columns of the table
    Spellings,      \* names the caller uses; SQLite compares without case
    Folded,         \* [Spellings -> Columns]
    ByteOrder,      \* the spellings as a std::map sorts them
    Values, Null,   \* what a cell can hold
    Streamed,       \* what operator<< prints of a value, read as an expression: six
                    \* digits of a number, a text as if it were SQL
    Quoted,         \* the same between quotes
    Holds,          \* which rows a condition selects
    Texts,          \* the texts the caller gives where(), in their parts
    Schemas, First, \* the schemas, and the one whose table a bare name finds
    MaxParts        \* bound on the columns and conditions of a command

Rows == [Columns -> Values \cup {Null}]

\* An expression the caller or operator<< writes: a value, a column's name, or
\* something SQLite refuses.
Exprs == [is : {"value"}, of : Values] \cup [is : {"column"}, of : Columns]
            \cup [is : {"nonsense"}, of : {Null}]

Value(v) == [is |-> "value", of |-> v]

\* A value as value() is given it.
Types == {"const char *", "other"}
Given == [is : {"given"}, of : Values, type : Types]

Conditions == DOMAIN Holds

\* A text is conditions with AND or OR between them, and perhaps before the first; one
\* that the caller puts in parentheses is one condition.
Links == {"", "AND", "OR"}
Parts == [link : Links, test : Conditions]

ASSUME RowCommandsAssumption ==
    /\ Folded \in [Spellings -> Columns]
    /\ ByteOrder \in Seq(Spellings)
    /\ \A n \in Spellings : \E i \in DOMAIN ByteOrder : ByteOrder[i] = n
    /\ \A i, j \in DOMAIN ByteOrder : ByteOrder[i] = ByteOrder[j] => i = j
    /\ Streamed \in [Values -> Exprs] /\ Quoted \in [Values -> Exprs]
    /\ Holds \in [Conditions -> SUBSET Rows]
    /\ Texts \subseteq Seq(Parts) \ {<<>>}
    /\ First \in Schemas /\ Null \notin Schemas
    /\ MaxParts \in Nat

VARIABLES
    kind,           \* "insert", "update" or "delete"
    schema,         \* _schema, Null if empty
    column,         \* _column of an InsertCommand or UpdateCommand
    expr,           \* _expr, in its parts
    meant           \* history: per column the expression or value of the last call
                    \* for it, and the texts of all calls of where()

vars == <<kind, schema, column, expr, meant>>

Partial(D, S) == UNION {[E -> S] : E \in SUBSET D}

TypeOK ==
    /\ kind \in {"insert", "update", "delete"}
    /\ schema \in Schemas \cup {Null}
    /\ column \in Partial(Spellings, Exprs)
    /\ expr \in Seq(Parts)
    /\ meant \in [cells : Partial(Columns, Exprs \cup Given), texts : SUBSET Texts]

Init ==
    /\ kind \in {"insert", "update", "delete"}
    /\ schema = Null
    /\ column = <<>>
    /\ expr = <<>>
    /\ meant = [cells |-> <<>>, texts |-> {}]
-----------------------------------------------------------------------------
(* The calls.                                                               *)

With(f, k, v) == [x \in DOMAIN f \cup {k} |-> IF x = k THEN v ELSE f[x]]

RoomFor(n) == Cardinality(DOMAIN column) + Len(expr) + n <= MaxParts

\* schema(), which an InsertCommand inherits privately.
SetSchema(s) ==
    /\ kind # "insert"
    /\ schema' = s
    /\ UNCHANGED <<kind, column, expr, meant>>

Keep_First(n, e) == IF n \in DOMAIN column THEN column ELSE With(column, n, e)

\* The map entry of the name as the caller spells it.
Keep(n, e) == With(column, n, e)

\* expr() of a name and a text, neither empty; datetimeNow and timeNow call it.
Expr(n, e) ==
    /\ kind # "delete"
    /\ n \in DOMAIN column \/ RoomFor(1)
    /\ column' = Keep(n, e)
    /\ meant' = [meant EXCEPT !.cells = With(@, Folded[n], e)]
    /\ UNCHANGED <<kind, schema, expr>>

ValueText_AsGiven(v, type) == [is |-> "given", of |-> v, type |-> type]

ValueText_NeverQuotes(v, type) == Streamed[v]

\* value() puts quotes around what converts to const char *: a std::string does not.
ValueText(v, type) == IF type = "const char *" THEN Quoted[v] ELSE Streamed[v]

\* value() of something that prints as a text that is not empty.
SetValue(n, v, type) ==
    /\ kind # "delete"
    /\ n \in DOMAIN column \/ RoomFor(1)
    /\ column' = Keep(n, ValueText(v, type))
    /\ meant' = [meant EXCEPT !.cells =
                    With(@, Folded[n], [is |-> "given", of |-> v, type |-> type])]
    /\ UNCHANGED <<kind, schema, expr>>

Where_Replaces(text) ==
    /\ kind # "insert"
    /\ RoomFor(Len(text))
    /\ expr' = text
    /\ meant' = [meant EXCEPT !.texts = @ \cup {text}]
    /\ UNCHANGED <<kind, schema, column>>

Where_Alternative(text) ==
    /\ kind # "insert"
    /\ RoomFor(Len(text))
    /\ expr' = expr \o [text EXCEPT ![1].link = IF expr = <<>> THEN "" ELSE "OR"]
    /\ meant' = [meant EXCEPT !.texts = @ \cup {text}]
    /\ UNCHANGED <<kind, schema, column>>

\* where() joins the texts as they are: without parentheses, so that the parts of one
\* group with those of the next.
Where(text) ==
    /\ kind # "insert"
    /\ RoomFor(Len(text))
    /\ expr' = expr \o text
    /\ meant' = [meant EXCEPT !.texts = @ \cup {text}]
    /\ UNCHANGED <<kind, schema, column>>

\* Calls with an empty name or text change nothing and are not listed.
Next ==
    \/ \E s \in Schemas \cup {Null} : SetSchema(s)
    \/ \E n \in Spellings :
          \/ \E e \in Exprs : Expr(n, e)
          \/ \E v \in Values, type \in Types : SetValue(n, v, type)
    \/ \E text \in Texts : Where(text)

Spec == Init /\ [][Next]_vars
-----------------------------------------------------------------------------
(* What the statement of command() does.                                    *)

\* Without a column command() is empty, and exec() refuses it.  WHERE takes one
\* condition first and a link before every other.
WellFormed ==
    /\ kind # "delete" => DOMAIN column # {}
    /\ \A n \in DOMAIN column :
          column[n].is \in IF kind = "insert" THEN {"value"} ELSE {"value", "column"}
    /\ \A i \in DOMAIN expr : expr[i].link = "" <=> i = 1

\* tablename().
Target == IF schema = Null THEN First ELSE schema

\* The conditions of q from the i-th up to the next OR all hold.
Alternative(q, i, row) ==
    \A j \in i..Len(q) :
        (\A k \in (i + 1)..j : q[k].link = "AND") => row \in Holds[q[j].test]

\* AND binds before OR: the conditions are alternatives, each from the beginning or an OR
\* to the next OR.
Matches(row) ==
    \/ expr = <<>>
    \/ \E i \in DOMAIN expr : expr[i].link # "AND" /\ Alternative(expr, i, row)

\* The rows an UPDATE or DELETE changes.
Touches(s, row) == WellFormed /\ kind # "insert" /\ s = Target /\ Matches(row)

\* Where the statement names column c: of several an INSERT uses the first, an UPDATE
\* the last.
Places(c) == {i \in DOMAIN ByteOrder : ByteOrder[i] \in DOMAIN column
                                          /\ Folded[ByteOrder[i]] = c}
Chosen(c) == CHOOSE i \in Places(c) :
                \A j \in Places(c) : IF kind = "insert" THEN i <= j ELSE j <= i

Result(e, row) == IF e.is = "column" THEN row[e.of] ELSE e.of

\* What an UPDATE makes of a row, or an INSERT of a row of Nulls.
After(row) ==
    [c \in Columns |->
        IF Places(c) = {} THEN row[c] ELSE Result(column[ByteOrder[Chosen(c)]], row)]
-----------------------------------------------------------------------------
(* Properties.                                                              *)

\* What a text selects on its own, if the link before it is not read.
Selects(text, row) ==
    \E i \in DOMAIN text : (i = 1 \/ text[i].link # "AND") /\ Alternative(text, i, row)

\* However often where() was called and however the texts regroup when they are joined, no
\* row is updated or deleted that none of the texts selects on its own, and without an OR
\* in any of them only rows that satisfy every condition of every text; that holds for
\* the commands SQLite accepts, since texts without a link between them are refused
\* (ExprCommand.hpp:40-57, UpdateCommand.cpp:64-67, DeleteCommand.cpp:34-37).
OnlySelectedRows ==
    meant.texts # {} =>
        \A s \in Schemas, row \in Rows : Touches(s, row) =>
            /\ \E t \in meant.texts : Selects(t, row)
            /\ (\A i \in DOMAIN expr : expr[i].link # "OR")
                  => \A t \in meant.texts : \A i \in DOMAIN t : row \in Holds[t[i].test]

\* where("AND ...") makes a command touch a row it did not touch before only by an OR in
\* that text, whose alternative the row satisfies whatever the earlier texts say: the
\* texts are joined without parentheses (ExprCommand.hpp:45-46).
AndNarrows ==
    [][\A text \in Texts : text[1].link = "AND" /\ Where(text) =>
          \A s \in Schemas, row \in Rows : Touches(s, row)' =>
              \/ Touches(s, row)
              \/ \E i \in DOMAIN text : text[i].link = "OR" /\ Alternative(text, i, row)]_vars

\* A value that keeps its meaning as SQL text: a C string without quotes in it, a number
\* of at most six digits, but not a std::string.
Plain(e) ==
    e.is = "given" =>
        Value(e.of) = IF e.type = "const char *" THEN Quoted[e.of] ELSE Streamed[e.of]

OneSpelling(c) ==
    \A m, n \in DOMAIN column : Folded[m] = c /\ Folded[n] = c => m = n

\* An accepted INSERT or UPDATE gives a column what the last call for it asked for, and
\* leaves the others alone, if the caller spells the column one way and the value is
\* plain.  With two spellings the map keeps two entries, of which INSERT and UPDATE use
\* different ones (InsertCommand.cpp:30-37 and 54-62, UpdateCommand.cpp:53-59).
LastCallCounts ==
    WellFormed /\ kind # "delete" =>
        \A row \in Rows, c \in Columns :
            LET asked == meant.cells[c]
            IN  IF c \notin DOMAIN meant.cells
                THEN After(row)[c] = row[c]
                ELSE OneSpelling(c) /\ Plain(asked) => After(row)[c] = Result(asked, row)
=============================================================================
