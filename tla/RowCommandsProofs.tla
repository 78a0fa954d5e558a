-------------------------- MODULE RowCommandsProofs --------------------------
(* Theorems about module RowCommands, for all columns, values and conditions. *)
EXTENDS RowCommands, TLAPS

LEMMA EmptyFits == \A S : <<>> \in [{} -> S]
  OBVIOUS

\* One more entry of a partial map.
LEMMA WithFacts ==
    ASSUME NEW D, NEW S, NEW f \in Partial(D, S), NEW k \in D, NEW v \in S
    PROVE  /\ With(f, k, v) \in Partial(D, S)
           /\ DOMAIN With(f, k, v) = DOMAIN f \cup {k}
           /\ With(f, k, v)[k] = v
           /\ \A x \in DOMAIN f \ {k} : With(f, k, v)[x] = f[x]
           /\ DOMAIN f \subseteq D
<1>1. PICK E \in SUBSET D : f \in [E -> S]
  BY DEF Partial
<1>2. With(f, k, v) \in [E \cup {k} -> S]
  BY <1>1 DEF With
<1>3. E \cup {k} \in SUBSET D
  OBVIOUS
<1>4. With(f, k, v) \in Partial(D, S)
  BY <1>2, <1>3 DEF Partial
<1> QED
  BY <1>1, <1>4 DEF With

LEMMA JoinFacts ==
    ASSUME NEW S, NEW p \in Seq(S), NEW q \in Seq(S)
    PROVE  /\ p \o q \in Seq(S)
           /\ Len(p) \in Nat /\ Len(q) \in Nat /\ Len(p \o q) = Len(p) + Len(q)
           /\ DOMAIN p = 1..Len(p) /\ DOMAIN q = 1..Len(q)
           /\ DOMAIN (p \o q) = 1..(Len(p) + Len(q))
           /\ \A i \in 1..Len(p) : (p \o q)[i] = p[i]
           /\ \A i \in 1..Len(q) : (p \o q)[Len(p) + i] = q[i]
  OBVIOUS

\* The texts a caller gives.
LEMMA TextFacts ==
    ASSUME NEW t \in Texts
    PROVE  t \in Seq(Parts) /\ Len(t) \in Nat /\ DOMAIN t = 1..Len(t) /\ 1 \in DOMAIN t
<1>1. t \in Seq(Parts) /\ t # <<>>
  BY RowCommandsAssumption
<1> QED
  BY <1>1

LEMMA Elements ==
    ASSUME NEW S, NEW q \in Seq(S)
    PROVE  Len(q) \in Nat /\ DOMAIN q = 1..Len(q) /\ \A i \in DOMAIN q : q[i] \in S
  OBVIOUS

\* The text a call puts into the map for what it was asked.
TextOf(e) == IF e.is = "given" THEN ValueText(e.of, e.type) ELSE e

\* Every entry of the map is of a column something was asked for, and the other way
\* round; an entry that is its column's only one holds what was asked last.
CellsKept ==
    /\ \A n \in DOMAIN column : Folded[n] \in DOMAIN meant.cells
    /\ \A c \in DOMAIN meant.cells : \E n \in DOMAIN column : Folded[n] = c
    /\ \A n \in DOMAIN column :
          OneSpelling(Folded[n]) => column[n] = TextOf(meant.cells[Folded[n]])

\* A text is read in expr from behind position o.
Stands(t, o) == \A k \in DOMAIN t : o + k \in DOMAIN expr /\ expr[o + k] = t[k]

\* _expr holds the texts of all calls and nothing else.
TextsKept ==
    /\ \A t \in meant.texts : \E o \in Nat : Stands(t, o)
    /\ \A i \in DOMAIN expr : \E t \in meant.texts, o \in Nat :
          Stands(t, o) /\ \E k \in DOMAIN t : i = o + k

Inv == TypeOK /\ CellsKept /\ TextsKept

LEMMA InitInv == Init => Inv
<1> SUFFICES ASSUME Init PROVE Inv
  OBVIOUS
<1>1. \A D, S : <<>> \in Partial(D, S)
  BY EmptyFits DEF Partial
<1>2. DOMAIN column = {} /\ DOMAIN expr = {} /\ DOMAIN meant.cells = {}
  BY DEF Init
<1>3. <<>> \in Seq(Parts)
  OBVIOUS
<1>4. meant \in [cells : Partial(Columns, Exprs \cup Given), texts : SUBSET Texts]
  BY <1>1 DEF Init
<1>5. TypeOK
  BY <1>1, <1>3, <1>4 DEF Init, TypeOK
<1>6. CellsKept
  BY <1>2 DEF CellsKept
<1>7. TextsKept
  BY <1>2 DEF Init, TextsKept, Stands
<1> QED
  BY <1>5, <1>6, <1>7 DEF Inv

\* A call that puts one entry into the map.
LEMMA EntryInv ==
    ASSUME Inv, NEW n \in Spellings, NEW e \in Exprs \cup Given, NEW text \in Exprs,
           text = TextOf(e),
           column' = With(column, n, text),
           meant' = [meant EXCEPT !.cells = With(meant.cells, Folded[n], e)],
           UNCHANGED <<kind, schema, expr>>
    PROVE  Inv'
<1>1. /\ column \in Partial(Spellings, Exprs)
      /\ meant \in [cells : Partial(Columns, Exprs \cup Given), texts : SUBSET Texts]
      /\ meant.cells \in Partial(Columns, Exprs \cup Given)
  BY DEF Inv, TypeOK
<1>2. Folded \in [Spellings -> Columns] /\ Folded[n] \in Columns
  BY RowCommandsAssumption
<1>3. /\ column' \in Partial(Spellings, Exprs)
      /\ DOMAIN column' = DOMAIN column \cup {n}
      /\ column'[n] = text
      /\ \A m \in DOMAIN column \ {n} : column'[m] = column[m]
  <2>1. column' = With(column, n, text)
    OBVIOUS
  <2> DEFINE w == With(column, n, text)
  <2>2. n \in Spellings /\ text \in Exprs /\ column \in Partial(Spellings, Exprs)
    BY <1>1
  <2>3. /\ w \in Partial(Spellings, Exprs)
        /\ DOMAIN w = DOMAIN column \cup {n}
        /\ w[n] = text
        /\ \A m \in DOMAIN column \ {n} : w[m] = column[m]
    BY ONLY <2>2, WithFacts
  <2> HIDE DEF w
  <2>4. column' = w
    BY <2>1 DEF w
  <2> QED
    BY ONLY <2>3, <2>4
<1>4. DEFINE cells == With(meant.cells, Folded[n], e)
<1>5. /\ cells \in Partial(Columns, Exprs \cup Given)
      /\ DOMAIN cells = DOMAIN meant.cells \cup {Folded[n]}
      /\ cells[Folded[n]] = e
      /\ \A c \in DOMAIN meant.cells \ {Folded[n]} : cells[c] = meant.cells[c]
  <2> DEFINE m == meant.cells
             c == Folded[n]
             S == Exprs \cup Given
             w == With(m, c, e)
  <2>1. c \in Columns /\ e \in S /\ m \in Partial(Columns, S)
    BY <1>1, <1>2
  <2> HIDE DEF m, c, S
  <2>2. /\ w \in Partial(Columns, S)
        /\ DOMAIN w = DOMAIN m \cup {c}
        /\ w[c] = e
        /\ \A x \in DOMAIN m \ {c} : w[x] = m[x]
    BY ONLY <2>1, WithFacts
  <2> QED
    BY <2>2 DEF m, c, S
<1> HIDE DEF cells
<1>6. meant'.cells = cells /\ meant'.texts = meant.texts
      /\ meant' \in [cells : Partial(Columns, Exprs \cup Given), texts : SUBSET Texts]
  BY <1>1, <1>5 DEF cells
<1>7. TypeOK'
  BY <1>3, <1>6 DEF Inv, TypeOK
<1>8. TextsKept'
  BY <1>6 DEF Inv, TextsKept, Stands
<1>9. ASSUME NEW m \in DOMAIN column', OneSpelling(Folded[m])'
      PROVE  column'[m] = TextOf(cells[Folded[m]])
  <2>1. CASE m = n
    BY <2>1, <1>3, <1>5
  <2>2. CASE m # n
    <3>1. Folded[m] # Folded[n]
      BY <1>3, <1>9, <2>2 DEF OneSpelling
    <3>2. m \in DOMAIN column /\ OneSpelling(Folded[m])
      BY <1>3, <1>9, <2>2 DEF OneSpelling
    <3>3. column[m] = TextOf(meant.cells[Folded[m]]) /\ Folded[m] \in DOMAIN meant.cells
      BY <3>2 DEF Inv, CellsKept
    <3> QED
      BY <1>3, <1>5, <2>2, <3>1, <3>2, <3>3
  <2> QED
    BY <2>1, <2>2
<1>10. \A m \in DOMAIN column' : Folded[m] \in DOMAIN cells
  BY <1>3, <1>5 DEF Inv, CellsKept
<1>11. \A c \in DOMAIN cells : \E m \in DOMAIN column' : Folded[m] = c
  BY <1>3, <1>5 DEF Inv, CellsKept
<1>12. CellsKept'
  BY <1>6, <1>9, <1>10, <1>11 DEF CellsKept, TextOf, ValueText
<1> QED
  BY <1>7, <1>8, <1>12 DEF Inv

LEMMA ExprInv ==
    ASSUME Inv, NEW n \in Spellings, NEW e \in Exprs, Expr(n, e) PROVE Inv'
<1>1. TextOf(e) = e
  BY DEF TextOf, Exprs
<1>2. e \in Exprs \cup Given
  OBVIOUS
<1> QED
  BY <1>1, <1>2, EntryInv DEF Expr, Keep

LEMMA SetValueInv ==
    ASSUME Inv, NEW n \in Spellings, NEW v \in Values, NEW type \in Types, SetValue(n, v, type)
    PROVE  Inv'
<1> DEFINE e == [is |-> "given", of |-> v, type |-> type]
<1>1. e \in Exprs \cup Given /\ TextOf(e) = ValueText(v, type)
  BY DEF Given, TextOf
<1>2. ValueText(v, type) \in Exprs
  BY RowCommandsAssumption DEF ValueText
<1> QED
  BY <1>1, <1>2, EntryInv DEF SetValue, Keep

LEMMA WhereInv ==
    ASSUME Inv, NEW text \in Texts, Where(text) PROVE Inv'
<1>1. expr \in Seq(Parts) /\ text \in Seq(Parts) /\ expr' = expr \o text
  BY TextFacts DEF Inv, TypeOK, Where
<1>2. /\ expr' \in Seq(Parts)
      /\ Len(expr) \in Nat /\ Len(text) \in Nat
      /\ DOMAIN expr' = 1..(Len(expr) + Len(text)) /\ DOMAIN expr = 1..Len(expr)
      /\ DOMAIN text = 1..Len(text)
      /\ \A i \in 1..Len(expr) : expr'[i] = expr[i]
      /\ \A i \in 1..Len(text) : expr'[Len(expr) + i] = text[i]
  BY <1>1, JoinFacts
<1>3. /\ meant' = [meant EXCEPT !.texts = @ \cup {text}]
      /\ UNCHANGED <<kind, schema, column>>
  BY DEF Where
<1>4. /\ meant' \in [cells : Partial(Columns, Exprs \cup Given), texts : SUBSET Texts]
      /\ meant'.cells = meant.cells /\ meant'.texts = meant.texts \cup {text}
  BY <1>3 DEF Inv, TypeOK
<1>5. TypeOK'
  BY <1>2, <1>3, <1>4 DEF Inv, TypeOK
<1>6. ASSUME NEW t, NEW o, Stands(t, o) PROVE Stands(t, o)'
  <2> SUFFICES ASSUME NEW k \in DOMAIN t PROVE o + k \in DOMAIN expr' /\ expr'[o + k] = t[k]
    BY DEF Stands
  <2>1. o + k \in DOMAIN expr /\ expr[o + k] = t[k]
    BY <1>6 DEF Stands
  <2>2. DOMAIN expr \subseteq DOMAIN expr' /\ \A i \in DOMAIN expr : expr'[i] = expr[i]
    BY <1>2
  <2> QED
    BY <2>1, <2>2
<1>7. PICK n \in Nat : n = Len(expr)
  BY <1>2
<1>8. Stands(text, n)'
  <2> SUFFICES ASSUME NEW k \in 1..Len(text)
               PROVE  n + k \in DOMAIN expr' /\ expr'[n + k] = text[k]
    BY <1>2 DEF Stands
  <2> QED
    BY <1>2, <1>7
<1>9. ASSUME NEW i \in DOMAIN expr'
      PROVE  \E t \in meant'.texts, o \in Nat : Stands(t, o)' /\ \E k \in DOMAIN t : i = o + k
  <2>1. CASE i \in DOMAIN expr
    <3>1. PICK t \in meant.texts, o \in Nat : Stands(t, o) /\ \E k \in DOMAIN t : i = o + k
      BY <2>1 DEF Inv, TextsKept
    <3> QED
      BY <1>4, <1>6, <3>1
  <2>2. CASE i \notin DOMAIN expr
    <3>1. i - n \in DOMAIN text /\ i = n + (i - n)
      BY <1>2, <1>7, <2>2
    <3> QED
      BY <1>4, <1>8, <3>1
  <2> QED
    BY <2>1, <2>2
<1>10. \A t \in meant'.texts : \E o \in Nat : Stands(t, o)'
  BY <1>4, <1>6, <1>8 DEF Inv, TextsKept
<1>11. TextsKept'
  BY <1>9, <1>10 DEF TextsKept
<1>12. CellsKept'
  BY <1>3, <1>4 DEF Inv, CellsKept, OneSpelling, TextOf, ValueText
<1> QED
  BY <1>5, <1>11, <1>12 DEF Inv

LEMMA NextInv == Inv /\ [Next]_vars => Inv'
<1> SUFFICES ASSUME Inv, [Next]_vars PROVE Inv'
  OBVIOUS
<1>1. ASSUME NEW s \in Schemas \cup {Null}, SetSchema(s) PROVE Inv'
  <2>1. schema' = s /\ UNCHANGED <<kind, column, expr, meant>>
    BY <1>1 DEF SetSchema
  <2>2. TypeOK'
    BY <2>1 DEF Inv, TypeOK
  <2>3. CellsKept' /\ TextsKept'
    BY <2>1 DEF Inv, CellsKept, TextsKept, Stands, OneSpelling
  <2> QED
    BY <2>2, <2>3 DEF Inv
<1>2. CASE UNCHANGED vars
  <2>1. UNCHANGED <<kind, schema, column, expr, meant>>
    BY <1>2 DEF vars
  <2>2. TypeOK'
    BY <2>1 DEF Inv, TypeOK
  <2>3. CellsKept' /\ TextsKept'
    BY <2>1 DEF Inv, CellsKept, TextsKept, Stands, OneSpelling
  <2> QED
    BY <2>2, <2>3 DEF Inv
<1> QED
  BY <1>1, <1>2, ExprInv, SetValueInv, WhereInv DEF Next

THEOREM InvHolds == Spec => []Inv
  BY InitInv, NextInv, PTL DEF Spec

\* A command object keeps the types of its members.
THEOREM TypeCorrect == Spec => []TypeOK
<1>1. Inv => TypeOK
  BY DEF Inv
<1> QED
  BY InvHolds, <1>1, PTL
-----------------------------------------------------------------------------
(* The rows a command touches.                                              *)

\* An alternative of expr that begins in a text is no wider than what it cuts from it.
LEMMA AlternativeOfText ==
    ASSUME TypeOK, NEW t \in Texts, NEW o \in Nat, Stands(t, o), NEW k \in DOMAIN t,
           NEW row, Alternative(expr, o + k, row)
    PROVE  Alternative(t, k, row)
<1>1. Len(expr) \in Nat /\ DOMAIN expr = 1..Len(expr)
  BY DEF TypeOK
<1>2. Len(t) \in Nat /\ DOMAIN t = 1..Len(t)
  BY TextFacts
<1> SUFFICES ASSUME NEW j \in k..Len(t), \A m \in (k + 1)..j : t[m].link = "AND"
             PROVE  row \in Holds[t[j].test]
  BY DEF Alternative
<1>3. j \in DOMAIN t /\ o + j \in (o + k)..Len(expr) /\ expr[o + j] = t[j]
  <2>1. j \in DOMAIN t
    BY <1>2
  <2> QED
    BY <1>1, <1>2, <2>1 DEF Stands
<1>4. ASSUME NEW m \in ((o + k) + 1)..(o + j) PROVE expr[m].link = "AND"
  <2>1. m - o \in (k + 1)..j /\ m - o \in DOMAIN t /\ o + (m - o) = m
    BY <1>2, <1>3
  <2> QED
    BY <2>1 DEF Stands
<1> QED
  BY <1>3, <1>4 DEF Alternative

LEMMA Selected == Inv => OnlySelectedRows
<1> SUFFICES ASSUME Inv, meant.texts # {}, NEW s \in Schemas, NEW row \in Rows,
                    Touches(s, row)
             PROVE  /\ \E t \in meant.texts : Selects(t, row)
                    /\ (\A i \in DOMAIN expr : expr[i].link # "OR")
                          => \A t \in meant.texts : \A i \in DOMAIN t : row \in Holds[t[i].test]
  BY DEF OnlySelectedRows
<1>1. meant.texts \subseteq Texts /\ expr \in Seq(Parts)
  BY DEF Inv, TypeOK
<1>2. Len(expr) \in Nat /\ DOMAIN expr = 1..Len(expr)
      /\ \A i \in DOMAIN expr : expr[i].link \in Links
  <2>1. Len(expr) \in Nat /\ DOMAIN expr = 1..Len(expr)
        /\ \A i \in DOMAIN expr : expr[i] \in Parts
    BY <1>1, Elements
  <2> QED
    BY <2>1 DEF Parts
<1>3. expr # <<>>
  <2>1. PICK t \in meant.texts : TRUE
    OBVIOUS
  <2>2. PICK o \in Nat : Stands(t, o)
    BY <2>1 DEF Inv, TextsKept
  <2>3. o + 1 \in DOMAIN expr
    BY <1>1, <2>2, TextFacts DEF Stands
  <2> QED
    BY <1>2, <2>3
<1>4. \A i \in DOMAIN expr : expr[i].link = "" <=> i = 1
  BY DEF Touches, WellFormed
<1>5. PICK i \in DOMAIN expr : expr[i].link # "AND" /\ Alternative(expr, i, row)
  BY <1>3 DEF Touches, Matches
<1>6. \E t \in meant.texts : Selects(t, row)
  <2>1. PICK t \in meant.texts, o \in Nat : Stands(t, o) /\ \E k \in DOMAIN t : i = o + k
    BY DEF Inv, TextsKept
  <2>2. PICK k \in DOMAIN t : i = o + k
    BY <2>1
  <2>3. Alternative(t, k, row)
    BY <1>1, <1>5, <2>1, <2>2, AlternativeOfText DEF Inv
  <2>4. t[k].link # "AND"
    BY <1>5, <2>1, <2>2 DEF Stands
  <2> QED
    BY <2>3, <2>4 DEF Selects
<1>7. ASSUME \A k \in DOMAIN expr : expr[k].link # "OR", NEW j \in DOMAIN expr
      PROVE  row \in Holds[expr[j].test]
  <2>1. \A k \in DOMAIN expr : k # 1 => expr[k].link = "AND"
    BY <1>2, <1>4, <1>7 DEF Links
  <2>2. i = 1
    BY <1>5, <2>1
  <2>3. j \in i..Len(expr) /\ \A k \in (i + 1)..j : k \in DOMAIN expr /\ k # 1
    BY <1>2, <2>2
  <2> QED
    BY <1>5, <2>1, <2>3 DEF Alternative
<1>8. ASSUME \A k \in DOMAIN expr : expr[k].link # "OR",
             NEW t \in meant.texts, NEW k \in DOMAIN t
      PROVE  row \in Holds[t[k].test]
  <2>1. PICK o \in Nat : Stands(t, o)
    BY DEF Inv, TextsKept
  <2>2. o + k \in DOMAIN expr /\ expr[o + k] = t[k]
    BY <2>1 DEF Stands
  <2>3. row \in Holds[expr[o + k].test]
    BY <1>7, <1>8, <2>2
  <2> QED
    BY <2>2, <2>3
<1> QED
  BY <1>6, <1>8

\* UPDATE and DELETE touch no row that every text given to where() leaves out, and without
\* an OR none that one of their conditions leaves out.
THEOREM SelectedRows == Spec => []OnlySelectedRows
  BY InvHolds, Selected, PTL

LEMMA AndStep ==
    ASSUME Inv, NEW text \in Texts, text[1].link = "AND", Where(text),
           NEW s \in Schemas, NEW row \in Rows, Touches(s, row)'
    PROVE  \/ Touches(s, row)
           \/ \E i \in DOMAIN text : text[i].link = "OR" /\ Alternative(text, i, row)
<1>1. expr \in Seq(Parts) /\ text \in Seq(Parts) /\ 1 \in DOMAIN text
  BY TextFacts DEF Inv, TypeOK
<1>2. expr' = expr \o text /\ UNCHANGED <<kind, schema, column>>
  BY DEF Where
<1>3. /\ Len(expr) \in Nat /\ Len(text) \in Nat /\ Len(expr') = Len(expr) + Len(text)
      /\ DOMAIN expr' = 1..(Len(expr) + Len(text)) /\ DOMAIN expr = 1..Len(expr)
      /\ DOMAIN text = 1..Len(text)
      /\ \A i \in 1..Len(expr) : expr'[i] = expr[i]
      /\ \A i \in 1..Len(text) : expr'[Len(expr) + i] = text[i]
  BY <1>1, <1>2, JoinFacts
<1>4. WellFormed' /\ kind # "insert" /\ s = Target' /\ Matches(row)'
  BY <1>2 DEF Touches
<1>5. \A i \in DOMAIN expr' : expr'[i].link = "" <=> i = 1
  BY <1>4 DEF WellFormed
<1>6. \A i \in DOMAIN expr : i \in DOMAIN expr' /\ expr'[i] = expr[i]
  BY <1>3
<1>7. \A i \in DOMAIN expr : expr[i].link = "" <=> i = 1
  <2> TAKE i \in DOMAIN expr
  <2> QED
    BY ONLY <1>5, <1>6, i \in DOMAIN expr, Zenon
<1>8. WellFormed
  BY <1>2, <1>4, <1>7 DEF WellFormed
<1>9. PICK i \in DOMAIN expr' : expr'[i].link # "AND" /\ Alternative(expr', i, row)
  <2>1. expr' # <<>>
    BY <1>1, <1>3
  <2> QED
    BY <1>4, <2>1 DEF Matches, Alternative
<1>10. CASE i \in DOMAIN expr
  <2>1. ASSUME NEW j \in i..Len(expr), \A k \in (i + 1)..j : expr[k].link = "AND"
        PROVE  row \in Holds[expr[j].test]
    <3>1. j \in i..Len(expr') /\ expr'[j] = expr[j]
      BY <1>3, <1>10
    <3>2. \A k \in (i + 1)..j : expr'[k].link = "AND"
      BY <1>3, <1>10, <2>1
    <3> QED
      BY <1>9, <3>1, <3>2 DEF Alternative
  <2>2. expr[i].link # "AND"
    BY <1>6, <1>9, <1>10
  <2>3. Matches(row)
    BY <1>10, <2>1, <2>2 DEF Matches, Alternative
  <2> QED
    BY <1>2, <1>4, <1>8, <2>3 DEF Touches, Target
<1>11. CASE i \notin DOMAIN expr
  <2> DEFINE k == i - Len(expr)
  <2>1. k \in DOMAIN text /\ Len(expr) + k = i /\ expr'[i] = text[k]
    BY <1>3, <1>11
  <2>2. text[k].link = "OR"
    <3>1. text[k] \in Parts
      BY <1>1, <2>1, Elements
    <3>2. i # 1
      <4>1. CASE k = 1
        BY <1>9, <2>1, <4>1
      <4>2. CASE k # 1
        BY <1>3, <2>1, <4>2
      <4> QED
        BY <4>1, <4>2
    <3>3. text[k].link # "" /\ text[k].link # "AND"
      BY <1>5, <1>9, <2>1, <3>2
    <3> QED
      BY <3>1, <3>3 DEF Parts, Links
  <2>3. ASSUME NEW j \in k..Len(text), \A m \in (k + 1)..j : text[m].link = "AND"
        PROVE  row \in Holds[text[j].test]
    <3>1. /\ j \in 1..Len(text) /\ Len(expr) + j \in i..Len(expr')
          /\ expr'[Len(expr) + j] = text[j]
      BY <1>3, <2>1
    <3>2. ASSUME NEW m \in (i + 1)..(Len(expr) + j) PROVE expr'[m].link = "AND"
      <4>1. m - Len(expr) \in (k + 1)..j /\ m - Len(expr) \in 1..Len(text)
            /\ Len(expr) + (m - Len(expr)) = m
        BY <1>3, <2>1, <3>1
      <4> QED
        BY <1>3, <2>3, <4>1
    <3> QED
      BY <1>9, <3>1, <3>2 DEF Alternative
  <2> QED
    BY <2>1, <2>2, <2>3 DEF Alternative
<1> QED
  BY <1>10, <1>11

\* A text that begins with AND makes a command touch more rows only by an OR of its own.
THEOREM AndNarrowsRows == Spec => AndNarrows
<1>1. Inv /\ [Next]_vars =>
        [\A text \in Texts : text[1].link = "AND" /\ Where(text) =>
            \A s \in Schemas, row \in Rows : Touches(s, row)' =>
                \/ Touches(s, row)
                \/ \E i \in DOMAIN text : text[i].link = "OR" /\ Alternative(text, i, row)]_vars
  BY AndStep
<1> QED
  BY <1>1, InvHolds, PTL DEF Spec, AndNarrows
-----------------------------------------------------------------------------
(* The cells a command sets.                                                *)

\* A column that is spelled one way stands at one place of the statement.
LEMMA OnePlace ==
    ASSUME Inv, NEW n \in DOMAIN column, OneSpelling(Folded[n])
    PROVE  ByteOrder[Chosen(Folded[n])] = n /\ Places(Folded[n]) # {}
<1>1. n \in Spellings
  BY WithFacts DEF Inv, TypeOK, Partial
<1>2. PICK i \in DOMAIN ByteOrder : ByteOrder[i] = n
  BY <1>1, RowCommandsAssumption
<1>3. \A j \in DOMAIN ByteOrder : ByteOrder[j] = n => j = i
  BY <1>2, RowCommandsAssumption
<1>4. Places(Folded[n]) = {i}
  BY <1>2, <1>3 DEF Places, OneSpelling
<1>5. i \in Nat
  BY RowCommandsAssumption
<1>6. Chosen(Folded[n]) = i
  BY <1>4, <1>5 DEF Chosen
<1> QED
  BY <1>2, <1>4, <1>6

LEMMA Counts == Inv => LastCallCounts
<1> SUFFICES ASSUME Inv, WellFormed, NEW row \in Rows, NEW c \in Columns
             PROVE  IF c \notin DOMAIN meant.cells
                    THEN After(row)[c] = row[c]
                    ELSE OneSpelling(c) /\ Plain(meant.cells[c])
                            => After(row)[c] = Result(meant.cells[c], row)
  BY DEF LastCallCounts
<1>1. CASE c \notin DOMAIN meant.cells
  <2>1. Places(c) = {}
    BY <1>1 DEF Places, Inv, CellsKept
  <2> QED
    BY <1>1, <2>1 DEF After
<1>2. CASE c \in DOMAIN meant.cells /\ OneSpelling(c) /\ Plain(meant.cells[c])
  <2>1. PICK n \in DOMAIN column : Folded[n] = c
    BY <1>2 DEF Inv, CellsKept
  <2>2. column[n] = TextOf(meant.cells[c])
    BY <1>2, <2>1 DEF Inv, CellsKept
  <2>3. Places(c) # {} /\ ByteOrder[Chosen(c)] = n
    BY <1>2, <2>1, OnePlace
  <2>4. After(row)[c] = Result(column[n], row)
    BY <2>3 DEF After
  <2>5. Result(TextOf(meant.cells[c]), row) = Result(meant.cells[c], row)
    <3> DEFINE e == meant.cells[c]
    <3>1. CASE e.is = "given"
      <4>1. TextOf(e) = Value(e.of)
        BY <1>2, <3>1 DEF Plain, TextOf, ValueText
      <4>2. Result(Value(e.of), row) = e.of
        BY DEF Value, Result
      <4> QED
        BY <3>1, <4>1, <4>2 DEF Result
    <3>2. CASE e.is # "given"
      BY <3>2 DEF TextOf
    <3> QED
      BY <3>1, <3>2
  <2> QED
    BY <1>2, <2>2, <2>4, <2>5
<1> QED
  BY <1>1, <1>2

\* INSERT and UPDATE set each column to what the last call for it asked for.
THEOREM LastCallsCount == Spec => []LastCallCounts
  BY InvHolds, Counts, PTL
=============================================================================
