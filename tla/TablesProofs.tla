---------------------------- MODULE TablesProofs ----------------------------
(* Theorems about module Tables, for all sets of names, files and commands.  *)
EXTENDS Tables, TLAPS

LEMMA NoTableIsNone ==
    /\ NoTable \notin Table
    /\ \A t \in Table : t.name # "" /\ t.columns # <<>> /\ Folded[t.name] \in FoldedTables
  BY TablesAssumption DEF NoTable, Table, FoldedTables

\* Replacing one entry of a function of functions.
LEMMA Replaced ==
    ASSUME NEW S, NEW K, NEW E, NEW t \in [S -> [K -> E]],
           NEW f \in S, NEW k \in K, NEW v \in E,
           NEW u, u = [t EXCEPT ![f][k] = v]
    PROVE  /\ u \in [S -> [K -> E]]
           /\ \A g \in S, j \in K : u[g][j] = IF g = f /\ j = k THEN v ELSE t[g][j]
<1>1. u \in [S -> [K -> E]]
  OBVIOUS
<1>2. \A g \in S, j \in K : u[g][j] = IF g = f /\ j = k THEN v ELSE t[g][j]
  OBVIOUS
<1> QED
  BY <1>1, <1>2

\* Adding to a sequence.
LEMMA Appended ==
    ASSUME NEW C, NEW q \in Seq(C), NEW x \in C
    PROVE  /\ Append(q, x) \in Seq(C) \ {<<>>}
           /\ Len(q) \in Nat /\ DOMAIN q = 1..Len(q)
           /\ Len(Append(q, x)) = Len(q) + 1
           /\ Append(q, x)[Len(q) + 1] = x
           /\ \A i \in 1..Len(q) : Append(q, x)[i] = q[i]
<1>1. Append(q, x) \in Seq(C) /\ Len(Append(q, x)) = Len(q) + 1 /\ Len(q) \in Nat
  OBVIOUS
<1>2. Append(q, x)[Len(q) + 1] = x /\ \A i \in 1..Len(q) : Append(q, x)[i] = q[i]
  OBVIOUS
<1> QED
  BY <1>1, <1>2

LEMMA Bound == MaxAttached \in Nat
  BY TablesAssumption

LEMMA MembershipIsBoolean ==
    \A x, S : (x \in S) \in BOOLEAN /\ (x \notin S) \in BOOLEAN
<1>1. \A x, S : (x \in S) \in BOOLEAN
  OBVIOUS
<1>2. \A x, S : (x \notin S) \in BOOLEAN
  OBVIOUS
<1> QED
  BY <1>1, <1>2

\* A column that ALTER TABLE adds.
LEMMA AddedColumn ==
    ASSUME NEW m \in ColumnNames, NEW d \in Declarations, d.type # ""
    PROVE  Column(m, d, FALSE, "NotNull" \notin d.clauses) \in ColumnInfo
<1>1. d.type \in Types
  BY TablesAssumption DEF ColumnDeclaration
<1>2. ("NotNull" \notin d.clauses) \in BOOLEAN /\ ("Default" \in d.clauses) \in BOOLEAN
  BY ONLY MembershipIsBoolean, Zenon
<1> QED
  BY ONLY <1>1, <1>2 DEF Column, ColumnInfo

\* What an entry of the catalogue holds.
LEMMA Entry ==
    ASSUME TypeOK, NEW f \in Stores, NEW n \in TableNames, Holds(tables, f, n)
    PROVE  /\ tables[f][Folded[n]] \in Table
           /\ Folded[tables[f][Folded[n]].name] = Folded[n]
<1>1. Folded[n] \in FoldedTables
  BY DEF FoldedTables
<1> QED
  BY <1>1 DEF TypeOK, Catalogue, Holds

\* Replacing one table by none, or by one of the right name, keeps a catalogue.
LEMMA WithKeeps ==
    ASSUME Catalogue(tables), NEW f \in Stores, NEW k \in FoldedTables,
           NEW v \in Table \cup {NoTable}, v # NoTable => Folded[v.name] = k
    PROVE  Catalogue(With(f, k, v))
  BY DEF Catalogue, With

LEMMA SchemaNames == \A s \in Schemas : s \notin {"main", "temp"} /\ s # ""
  BY TablesAssumption

\* The places there are.
LEMMA Places ==
    /\ MainFile \in Stores /\ Temp \in Stores /\ MainFile # Temp
    /\ \A n \in TableNames : Folded[n] \in FoldedTables
    /\ TypeOK => \A i \in DOMAIN attached :
          /\ attached[i].schema \in Schemas
          /\ attached[i].file \in Stores \ {MainFile, Temp}
<1>1. MainFile \in Stores /\ Temp \in Stores /\ MainFile # Temp /\ Files \subseteq Stores \ {Temp}
  BY TablesAssumption DEF Stores
<1>2. \A n \in TableNames : Folded[n] \in FoldedTables
  BY DEF FoldedTables
<1>3. ASSUME TypeOK, NEW i \in DOMAIN attached
      PROVE  attached[i] \in [schema : Schemas, file : Files \ {MainFile}]
  <2> DEFINE S == [schema : Schemas, file : Files \ {MainFile}]
  <2>1. attached \in Seq(S)
    BY <1>3 DEF TypeOK
  <2> HIDE DEF S
  <2>2. attached[i] \in S
    BY <1>3, <2>1
  <2> QED
    BY <2>2 DEF S
<1> QED
  BY <1>1, <1>2, <1>3

\* The places a name is found in are places, and hold it.
LEMMA FindsIn ==
    ASSUME TypeOK, NEW t, NEW n \in TableNames, NEW s \in AnySchema \cup {""},
           NEW f \in Find(t, n, s)
    PROVE  f \in Stores /\ Holds(t, f, n)
<1>1. CASE s # ""
  BY <1>1, Zenon DEF Find
<1>2. CASE s = "" /\ Holds(t, Temp, n)
  BY <1>2, Places DEF Find
<1>3. CASE s = "" /\ ~Holds(t, Temp, n) /\ Holds(t, MainFile, n)
  BY <1>3, Places DEF Find
<1>4. CASE s = "" /\ ~Holds(t, Temp, n) /\ ~Holds(t, MainFile, n)
  <2>1. PICK i \in AttachedWith(t, n) : f = attached[i].file
    BY <1>4 DEF Find
  <2> QED
    BY <2>1, Places DEF AttachedWith
<1> QED
  BY <1>1, <1>2, <1>3, <1>4

LEMMA FindFinds ==
    ASSUME TypeOK, NEW n \in TableNames, NEW s \in AnySchema \cup {""},
           NEW f \in Find(tables, n, s)
    PROVE  f \in Stores /\ Holds(tables, f, n)
  BY FindsIn

\* The columns of a command that parses make a table.
LEMMA DeclaredIsColumns ==
    ASSUME NEW b, CreateTableCommand(b), Parses(b)
    PROVE  Declared(b) \in Seq(ColumnInfo) \ {<<>>}
<1> DEFINE D == DOMAIN b.columnDef
           order == Iterated[D]
           col(m) == Column(m, b.columnDef[m], InKey(b, m),
                            "NotNull" \notin b.columnDef[m].clauses
                               /\ ~(b.withoutRowId /\ InKey(b, m)))
<1>1. /\ D \in SUBSET ColumnNames /\ D # {}
      /\ order \in Seq(ColumnNames) /\ {order[i] : i \in DOMAIN order} = D
  BY TablesAssumption DEF CreateTableCommand, Parses
<1>2. \A m \in D : col(m) \in ColumnInfo
  <2> TAKE m \in D
  <2>1. m \in ColumnNames /\ b.columnDef[m].type \in Types
    BY <1>1 DEF CreateTableCommand
  <2>2. InKey(b, m) \in BOOLEAN
    BY DEF InKey
  <2>3. ("NotNull" \notin b.columnDef[m].clauses /\ ~(b.withoutRowId /\ InKey(b, m))) \in BOOLEAN
    OBVIOUS
  <2>4. ("Default" \in b.columnDef[m].clauses) \in BOOLEAN
    OBVIOUS
  <2> QED
    BY ONLY <2>1, <2>2, <2>3, <2>4 DEF Column, ColumnInfo
<1>3. Declared(b) = [i \in DOMAIN order |-> col(order[i])]
  BY DEF Declared
<1>4. DOMAIN order = 1..Len(order) /\ Len(order) \in Nat
  BY <1>1
<1>5. \A i \in 1..Len(order) : col(order[i]) \in ColumnInfo
  BY <1>1, <1>2, <1>4
<1>6. Declared(b) \in Seq(ColumnInfo)
  <2> HIDE DEF col
  <2>1. [i \in 1..Len(order) |-> col(order[i])] \in [1..Len(order) -> ColumnInfo]
    BY <1>5
  <2> QED
    BY ONLY <1>3, <1>4, <2>1
<1>7. DOMAIN Declared(b) # {}
  BY <1>1, <1>3
<1> QED
  BY <1>6, <1>7

-----------------------------------------------------------------------------
(* The outcomes of a command are catalogues.                                 *)

LEMMA CreatedKeeps ==
    ASSUME TypeOK, NEW b, CreateTableCommand(b), NEW o \in Created(b)
    PROVE  Catalogue(o.tables) /\ o.result \in {"success", "error"}
<1>1. CASE o = Failed
  BY <1>1 DEF Failed, TypeOK
<1>2. CASE o = Done(tables)
  BY <1>2 DEF Done, TypeOK
<1>3. CASE o # Failed /\ o # Done(tables)
  <2> DEFINE v == [name |-> b.table, columns |-> Declared(b)]
             f == StoreOf(Target(b))
             k == Folded[b.table]
  <2>1. o = Done(With(f, k, v)) /\ Parses(b) /\ Known(Target(b))
    BY <1>3 DEF Created
  <2>2. b.table \in TableNames /\ Target(b) \in AnySchema /\ CreateTableCommand(b)
    BY <2>1, TablesAssumption DEF CreateTableCommand, Parses, Target, AnySchema
  <2>3. k \in FoldedTables /\ v \in Table
    BY <2>1, <2>2, DeclaredIsColumns, Places DEF Table
  <2>4. f \in Stores
    BY <2>1, Places DEF StoreOf, Known
  <2>5. Catalogue(With(f, k, v))
    <3> HIDE DEF f
    <3> QED
      BY <2>3, <2>4, WithKeeps DEF TypeOK
  <2> QED
    BY <2>1, <2>5 DEF Done
<1> QED
  BY <1>1, <1>2, <1>3

LEMMA DroppedKeeps ==
    ASSUME TypeOK, NEW n \in TableNames \cup {""}, NEW s \in AnySchema \cup {""},
           NEW ifExists \in BOOLEAN, NEW o \in Dropped(n, s, ifExists)
    PROVE  Catalogue(o.tables) /\ o.result \in {"success", "error"}
<1>1. CASE o = Failed
  BY <1>1 DEF Failed, TypeOK
<1>2. CASE o = Done(tables)
  BY <1>2 DEF Done, TypeOK
<1>3. CASE o # Failed /\ o # Done(tables)
  <2>1. n \in TableNames
    BY <1>3 DEF Dropped
  <2>2. PICK f \in Find(tables, n, s) : o = Done(With(f, Folded[n], NoTable))
    BY <1>3 DEF Dropped
  <2> QED
    BY <2>1, <2>2, FindFinds, Places, WithKeeps DEF TypeOK, Done
<1> QED
  BY <1>1, <1>2, <1>3

LEMMA AlteredKeeps ==
    ASSUME TypeOK, NEW n \in TableNames \cup {""}, NEW s \in AnySchema \cup {""},
           NEW m \in ColumnNames \cup {""}, NEW d \in Declarations,
           NEW o \in Altered(n, s, m, d)
    PROVE  Catalogue(o.tables) /\ o.result \in {"success", "error"}
<1>1. CASE o = Failed
  BY <1>1 DEF Failed, TypeOK
<1>2. CASE o # Failed
  <2> DEFINE c == Column(m, d, FALSE, "NotNull" \notin d.clauses)
             after(f) == [tables[f][Folded[n]] EXCEPT !.columns = Append(@, c)]
  <2>1. n \in TableNames /\ m \in ColumnNames /\ d.type # ""
    BY <1>2 DEF Altered
  <2>2. PICK f \in Find(tables, n, s) : o = Done(With(f, Folded[n], after(f)))
    BY <1>2 DEF Altered
  <2>3. c \in ColumnInfo
    BY <2>1, AddedColumn
  <2>4. /\ f \in Stores /\ Folded[n] \in FoldedTables
        /\ tables[f][Folded[n]] \in Table
        /\ Folded[tables[f][Folded[n]].name] = Folded[n]
    BY <2>1, FindFinds, Places, Entry
  <2>5. after(f) \in Table /\ after(f).name = tables[f][Folded[n]].name
    <3> DEFINE t == tables[f][Folded[n]]
    <3>1. /\ t \in [name : TableNames, columns : Seq(ColumnInfo) \ {<<>>}]
          /\ t.columns \in Seq(ColumnInfo)
      BY <2>4 DEF Table
    <3>2. Append(t.columns, c) \in Seq(ColumnInfo) \ {<<>>}
      <4> HIDE DEF c, t
      <4> QED
        BY <2>3, <3>1, Appended
    <3>3. after(f) = [t EXCEPT !.columns = Append(t.columns, c)]
      OBVIOUS
    <3> HIDE DEF c, t, after
    <3>4. /\ after(f) \in [name : TableNames, columns : Seq(ColumnInfo) \ {<<>>}]
          /\ after(f).name = t.name
      BY ONLY <3>1, <3>2, <3>3
    <3> QED
      BY <3>4 DEF t, Table
  <2>6. Catalogue(With(f, Folded[n], after(f)))
    <3> HIDE DEF after
    <3> QED
      BY <2>4, <2>5, WithKeeps DEF TypeOK
  <2> QED
    BY <2>2, <2>6 DEF Done
<1> QED
  BY <1>1, <1>2

\* A rename leaves everything else alone: the table it found has the new name and the
\* old entry of that place is empty.
RenamedAt(f, old, new, o) ==
    /\ f \in Stores /\ Holds(tables, f, old) /\ ~Holds(tables, f, new)
    /\ Folded[old] # Folded[new]
    /\ o.result = "success"
    /\ o.tables \in [Stores -> [FoldedTables -> Table \cup {NoTable}]]
    /\ \A g \in Stores, k \in FoldedTables :
          o.tables[g][k] = IF g # f \/ k \notin {Folded[old], Folded[new]} THEN tables[g][k]
                           ELSE IF k = Folded[old] THEN NoTable
                           ELSE [name |-> new, columns |-> tables[f][Folded[old]].columns]

LEMMA RenamedTable ==
    ASSUME TypeOK, NEW old \in TableNames \cup {""}, NEW new \in TableNames \cup {""},
           NEW s \in AnySchema \cup {""}, NEW o \in Renamed(old, new, s), o # Failed
    PROVE  /\ old \in TableNames /\ new \in TableNames /\ open
           /\ \E f \in Find(tables, old, s) : RenamedAt(f, old, new, o)
<1> DEFINE moved(f) == [tables[f][Folded[old]] EXCEPT !.name = new]
<1>1. old \in TableNames /\ new \in TableNames /\ open
  BY DEF Renamed, CheckTablename
<1>2. PICK f \in Find(tables, old, s) :
          /\ ~Holds(tables, f, new)
          /\ o = Done([tables EXCEPT ![f][Folded[new]] = moved(f), ![f][Folded[old]] = NoTable])
  BY DEF Renamed
<1>3. /\ f \in Stores /\ Holds(tables, f, old)
      /\ Folded[old] \in FoldedTables /\ Folded[new] \in FoldedTables
  BY <1>1, FindFinds, Places
<1>4. Folded[old] # Folded[new]
  BY <1>2, <1>3 DEF Holds
<1>5. tables \in [Stores -> [FoldedTables -> Table \cup {NoTable}]]
      /\ tables[f][Folded[old]] \in Table
  BY <1>1, <1>3, Entry DEF TypeOK, Catalogue
<1>6. /\ moved(f) = [name |-> new, columns |-> tables[f][Folded[old]].columns]
      /\ moved(f) \in Table
  <2> DEFINE t == tables[f][Folded[old]]
  <2>1. /\ t \in [name : TableNames, columns : Seq(ColumnInfo) \ {<<>>}]
        /\ moved(f) = [t EXCEPT !.name = new]
    BY <1>5 DEF Table
  <2> HIDE DEF t, moved
  <2>2. /\ moved(f) = [name |-> new, columns |-> t.columns]
        /\ moved(f) \in [name : TableNames, columns : Seq(ColumnInfo) \ {<<>>}]
    BY ONLY <1>1, <2>1
  <2> QED
    BY <2>2 DEF t, Table
<1> HIDE DEF moved
<1>7. o.result = "success" /\ o.tables = [tables EXCEPT ![f][Folded[new]] = moved(f),
                                                        ![f][Folded[old]] = NoTable]
  BY <1>2 DEF Done
<1>8. /\ o.tables \in [Stores -> [FoldedTables -> Table \cup {NoTable}]]
      /\ \A g \in Stores, k \in FoldedTables :
            o.tables[g][k] = IF g # f \/ k \notin {Folded[old], Folded[new]} THEN tables[g][k]
                             ELSE IF k = Folded[old] THEN NoTable ELSE moved(f)
  <2> DEFINE E == Table \cup {NoTable}
             one == [tables EXCEPT ![f][Folded[new]] = moved(f)]
  <2>1. tables \in [Stores -> [FoldedTables -> E]] /\ moved(f) \in E /\ NoTable \in E
    BY <1>5, <1>6
  <2>2. o.tables = [one EXCEPT ![f][Folded[old]] = NoTable]
    BY <1>7
  <2> HIDE DEF E
  <2>3. /\ one \in [Stores -> [FoldedTables -> E]]
        /\ \A g \in Stores, k \in FoldedTables :
              one[g][k] = IF g = f /\ k = Folded[new] THEN moved(f) ELSE tables[g][k]
    <3>1. one = [tables EXCEPT ![f][Folded[new]] = moved(f)]
      OBVIOUS
    <3> HIDE DEF one
    <3> QED
      BY ONLY <1>3, <2>1, <3>1, Replaced
  <2> HIDE DEF one
  <2>4. /\ o.tables \in [Stores -> [FoldedTables -> E]]
        /\ \A g \in Stores, k \in FoldedTables :
              o.tables[g][k] = IF g = f /\ k = Folded[old] THEN NoTable ELSE one[g][k]
    <3> DEFINE two == o.tables
    <3>1. two = [one EXCEPT ![f][Folded[old]] = NoTable]
      BY <2>2
    <3> HIDE DEF two
    <3>2. /\ two \in [Stores -> [FoldedTables -> E]]
          /\ \A g \in Stores, k \in FoldedTables :
                two[g][k] = IF g = f /\ k = Folded[old] THEN NoTable ELSE one[g][k]
      BY ONLY <1>3, <2>1, <2>3, <3>1, Replaced
    <3> QED
      BY ONLY <3>2 DEF two
  <2>5. o.tables \in [Stores -> [FoldedTables -> Table \cup {NoTable}]]
    BY <2>4 DEF E
  <2>6. ASSUME NEW g \in Stores, NEW k \in FoldedTables
        PROVE  o.tables[g][k] = IF g # f \/ k \notin {Folded[old], Folded[new]} THEN tables[g][k]
                                ELSE IF k = Folded[old] THEN NoTable ELSE moved(f)
    <3> DEFINE e == o.tables[g][k]
    <3>1. /\ e = IF g = f /\ k = Folded[old] THEN NoTable ELSE one[g][k]
          /\ one[g][k] = IF g = f /\ k = Folded[new] THEN moved(f) ELSE tables[g][k]
      BY <2>3, <2>4
    <3> HIDE DEF e
    <3>2. e = IF g # f \/ k \notin {Folded[old], Folded[new]} THEN tables[g][k]
              ELSE IF k = Folded[old] THEN NoTable ELSE moved(f)
      BY ONLY <1>4, <3>1
    <3> QED
      BY ONLY <3>2 DEF e
  <2> QED
    BY <2>5, <2>6
<1>10. \A g \in Stores, k \in FoldedTables :
          o.tables[g][k] = IF g # f \/ k \notin {Folded[old], Folded[new]} THEN tables[g][k]
                           ELSE IF k = Folded[old] THEN NoTable
                           ELSE [name |-> new, columns |-> tables[f][Folded[old]].columns]
  BY <1>6, <1>8
<1>11. f \in Find(tables, old, s) /\ ~Holds(tables, f, new)
  BY <1>2
<1> QED
  BY ONLY <1>1, <1>3, <1>4, <1>7, <1>8, <1>10, <1>11 DEF RenamedAt

LEMMA RenamedKeeps ==
    ASSUME TypeOK, NEW old \in TableNames \cup {""}, NEW new \in TableNames \cup {""},
           NEW s \in AnySchema \cup {""}, NEW o \in Renamed(old, new, s)
    PROVE  Catalogue(o.tables) /\ o.result \in {"success", "error"}
<1>1. CASE o = Failed
  BY <1>1 DEF Failed, TypeOK
<1>2. CASE o # Failed
  <2>1. PICK f \in Find(tables, old, s) : RenamedAt(f, old, new, o)
    BY <1>2, RenamedTable
  <2>2. ASSUME NEW g \in Stores, NEW k \in FoldedTables, o.tables[g][k] # NoTable
        PROVE  Folded[o.tables[g][k].name] = k
    <3>1. CASE g # f \/ k \notin {Folded[old], Folded[new]}
      <4>1. o.tables[g][k] = tables[g][k]
        BY <2>1, <3>1 DEF RenamedAt
      <4> QED
        BY <2>2, <4>1 DEF TypeOK, Catalogue
    <3>2. CASE g = f /\ k = Folded[old]
      BY <2>1, <2>2, <3>2 DEF RenamedAt
    <3>3. CASE g = f /\ k = Folded[new] /\ k # Folded[old]
      <4>1. o.tables[g][k] = [name |-> new, columns |-> tables[f][Folded[old]].columns]
        BY <2>1, <3>3 DEF RenamedAt
      <4>2. \A x, y : [name |-> x, columns |-> y].name = x
        OBVIOUS
      <4>3. o.tables[g][k].name = new
        BY ONLY <4>1, <4>2, Zenon
      <4> QED
        BY ONLY <3>3, <4>3, Zenon
    <3> QED
      BY <3>1, <3>2, <3>3
  <2> QED
    BY <2>1, <2>2 DEF Catalogue, RenamedAt
<1> QED
  BY <1>1, <1>2

LEMMA CloseKeeps ==
    ASSUME TypeOK, Close
    PROVE  Catalogue(tables')
<1> DEFINE E == Table \cup {NoTable}
<1>1. /\ tables \in [Stores -> [FoldedTables -> E]] /\ Temp \in Stores
      /\ tables' = [tables EXCEPT ![Temp] = [k \in FoldedTables |-> NoTable]]
  BY Places DEF TypeOK, Catalogue, Close
<1>2. [k \in FoldedTables |-> NoTable] \in [FoldedTables -> E]
  OBVIOUS
<1> HIDE DEF E
<1>3. tables' \in [Stores -> [FoldedTables -> E]]
  BY ONLY <1>1, <1>2
<1>4. ASSUME NEW f \in Stores, NEW k \in FoldedTables, tables'[f][k] # NoTable
      PROVE  tables'[f][k] = tables[f][k]
  BY <1>1, <1>4
<1> QED
  BY <1>3, <1>4 DEF E, TypeOK, Catalogue

\* Attaching one more database under a name no other has.
LEMMA AttachKeeps ==
    ASSUME TypeOK, NEW f \in Files \ {MainFile}, NEW s \in Schemas, Attach(f, s)
    PROVE  /\ attached' \in Seq([schema : Schemas, file : Files \ {MainFile}])
           /\ Len(attached') <= MaxAttached
           /\ \A i, j \in DOMAIN attached' : attached'[i].schema = attached'[j].schema => i = j
<1> DEFINE A == [schema : Schemas, file : Files \ {MainFile}]
           x == [schema |-> s, file |-> f]
           p == attached'
           q == attached
           n == Len(q)
<1>1. /\ q \in Seq(A) /\ n < MaxAttached /\ x \in A /\ p = Append(q, x)
      /\ \A i \in DOMAIN q : q[i].schema # x.schema
      /\ \A i, j \in DOMAIN q : q[i].schema = q[j].schema => i = j
  BY DEF TypeOK, Attach, Known
<1>2. /\ p \in Seq(A) /\ Len(p) <= MaxAttached
      /\ \A i, j \in DOMAIN p : p[i].schema = p[j].schema => i = j
  <2> HIDE DEF A, x, p, q
  <2>1. /\ p \in Seq(A) /\ n \in Nat /\ DOMAIN q = 1..n /\ Len(p) = n + 1
        /\ p[n + 1] = x /\ \A i \in 1..n : p[i] = q[i]
    BY ONLY <1>1, Appended
  <2> HIDE DEF n
  <2>2. DOMAIN p = 1..(n + 1) /\ \A i \in 1..(n + 1) : i \in 1..n \/ i = n + 1
    BY ONLY <2>1
  <2>3. n + 1 <= MaxAttached
    BY ONLY <1>1, <2>1, Bound
  <2>4. ASSUME NEW i \in DOMAIN p, NEW j \in DOMAIN p, p[i].schema = p[j].schema
        PROVE  i = j
    <3>1. CASE i \in 1..n /\ j \in 1..n
      BY ONLY <1>1, <2>1, <2>4, <3>1
    <3>2. CASE i \in 1..n /\ j = n + 1
      BY ONLY <1>1, <2>1, <2>4, <3>2
    <3>3. CASE i = n + 1 /\ j \in 1..n
      BY ONLY <1>1, <2>1, <2>4, <3>3
    <3> QED
      BY <2>2, <2>4, <3>1, <3>2, <3>3
  <2> QED
    BY ONLY <2>1, <2>3, <2>4
<1> QED
  BY ONLY <1>2

LEMMA DetachKeeps ==
    ASSUME TypeOK, NEW s, DetachDatabase(s)
    PROVE  /\ attached' \in Seq([schema : Schemas, file : Files \ {MainFile}])
           /\ Len(attached') <= MaxAttached
           /\ \A i, j \in DOMAIN attached' : attached'[i].schema = attached'[j].schema => i = j
<1> DEFINE A == [schema : Schemas, file : Files \ {MainFile}]
<1>1. /\ attached \in Seq(A) /\ Len(attached) <= MaxAttached
      /\ \A i, j \in DOMAIN attached : attached[i].schema = attached[j].schema => i = j
  BY DEF TypeOK
<1>2. CASE attached' = attached
  BY <1>1, <1>2
<1>3. ASSUME NEW d \in Detachable(s),
             attached' = [j \in 1..(Len(attached) - 1) |-> attached[IF j < d THEN j ELSE j + 1]]
      PROVE  /\ attached' \in Seq(A) /\ Len(attached') <= MaxAttached
             /\ \A i, j \in DOMAIN attached' : attached'[i].schema = attached'[j].schema => i = j
  <2> HIDE DEF A
  <2>1. d \in DOMAIN attached
    BY <1>3 DEF Detachable
  <2>2. /\ DOMAIN attached = 1..Len(attached) /\ Len(attached) \in Nat
        /\ Len(attached) - 1 \in Nat
    BY <1>1, <2>1
  <2>3. \A j \in 1..(Len(attached) - 1) :
           /\ (IF j < d THEN j ELSE j + 1) \in DOMAIN attached
           /\ attached[IF j < d THEN j ELSE j + 1] \in A
    BY <1>1, <2>1, <2>2
  <2>4. /\ attached' \in Seq(A) /\ Len(attached') = Len(attached) - 1
        /\ DOMAIN attached' = 1..(Len(attached) - 1)
    BY ONLY <1>3, <2>2, <2>3
  <2>5. ASSUME NEW i \in DOMAIN attached', NEW j \in DOMAIN attached',
               attached'[i].schema = attached'[j].schema
        PROVE  i = j
    <3>1. (IF i < d THEN i ELSE i + 1) = (IF j < d THEN j ELSE j + 1)
      BY <1>1, <1>3, <2>3, <2>4, <2>5
    <3> QED
      BY <2>1, <2>2, <2>4, <3>1
  <2>6. Len(attached') <= MaxAttached
    BY ONLY <1>1, <2>2, <2>4, Bound
  <2> QED
    BY <2>4, <2>5, <2>6
<1> QED
  BY <1>2, <1>3 DEF DetachDatabase

\* A database that is attached or detached leaves the locks on the others.
LEMMA AttachKeepsLocks ==
    ASSUME TypeOK, NEW f \in Files \ {MainFile}, NEW s \in Schemas, Attach(f, s)
    PROVE  locked' \subseteq AttachedSchemas'
<1>1. locked' \subseteq locked \cup {s}
  BY DEF Attach
<1>2. AttachedSchemas \cup {s} \subseteq AttachedSchemas'
  <2> DEFINE A == [schema : Schemas, file : Files \ {MainFile}]
             x == [schema |-> s, file |-> f]
             q == attached
             p == attached'
             n == Len(q)
  <2>1. q \in Seq(A) /\ x \in A /\ p = Append(q, x) /\ x.schema = s
    BY DEF TypeOK, Attach
  <2>2. \A y \in AttachedSchemas \cup {s} : \E i \in DOMAIN p : p[i].schema = y
    <3> SUFFICES ASSUME NEW y \in AttachedSchemas \cup {s}
                 PROVE  \E i \in DOMAIN p : p[i].schema = y
      OBVIOUS
    <3>1. y = s \/ \E i \in DOMAIN q : q[i].schema = y
      BY DEF AttachedSchemas
    <3> HIDE DEF A, x, p, q
    <3>2. /\ p \in Seq(A) /\ n \in Nat /\ DOMAIN q = 1..n /\ Len(p) = n + 1
          /\ p[n + 1] = x /\ \A i \in 1..n : p[i] = q[i]
      BY ONLY <2>1, Appended
    <3> HIDE DEF n
    <3>3. DOMAIN p = 1..(n + 1) /\ n + 1 \in 1..(n + 1) /\ 1..n \subseteq 1..(n + 1)
      BY ONLY <3>2
    <3>4. CASE y = s
      BY ONLY <2>1, <3>2, <3>3, <3>4
    <3>5. ASSUME NEW i \in DOMAIN q, q[i].schema = y
          PROVE  \E k \in DOMAIN p : p[k].schema = y
      BY ONLY <3>2, <3>3, <3>5
    <3> QED
      BY <3>1, <3>4, <3>5
  <2> QED
    BY <2>2 DEF AttachedSchemas
<1> QED
  BY <1>1, <1>2 DEF TypeOK

LEMMA DetachKeepsLocks ==
    ASSUME TypeOK, NEW s, DetachDatabase(s)
    PROVE  locked' \subseteq AttachedSchemas'
<1>1. locked' = locked /\ locked \subseteq AttachedSchemas
  BY DEF DetachDatabase, locks, TypeOK
<1>2. CASE attached' = attached
  BY <1>1, <1>2 DEF AttachedSchemas
<1>3. ASSUME NEW d \in Detachable(s),
             attached' = [j \in 1..(Len(attached) - 1) |-> attached[IF j < d THEN j ELSE j + 1]]
      PROVE  locked' \subseteq AttachedSchemas'
  <2> SUFFICES ASSUME NEW x \in locked PROVE \E j \in DOMAIN attached' : attached'[j].schema = x
    BY <1>1 DEF AttachedSchemas
  <2>1. PICK i \in DOMAIN attached : attached[i].schema = x
    BY <1>1 DEF AttachedSchemas
  <2>2. /\ DOMAIN attached = 1..Len(attached) /\ Len(attached) \in Nat
        /\ d \in DOMAIN attached /\ i # d
    <3>1. d \in DOMAIN attached /\ attached[d].schema = s /\ s \notin locked
      BY <1>3 DEF Detachable
    <3>2. DOMAIN attached = 1..Len(attached) /\ Len(attached) \in Nat
      <4>1. attached \in Seq([schema : Schemas, file : Files \ {MainFile}])
        BY DEF TypeOK
      <4> QED
        BY <4>1
    <3> QED
      BY <2>1, <3>1, <3>2
  <2>3. /\ (IF i < d THEN i ELSE i - 1) \in 1..(Len(attached) - 1)
        /\ attached'[IF i < d THEN i ELSE i - 1] = attached[i]
    BY <1>3, <2>2
  <2> QED
    BY <1>3, <2>1, <2>3
<1> QED
  BY <1>2, <1>3 DEF DetachDatabase

LEMMA ExecKeeps ==
    ASSUME TypeOK, NEW outcomes, Exec(outcomes),
           \A o \in outcomes : Catalogue(o.tables) /\ o.result \in {"success", "error"}
    PROVE  TypeOK'
<1>1. PICK o \in outcomes : tables' = o.tables /\ result' = o.result
  BY DEF Exec
<1>2. Catalogue(tables')
  BY <1>1
<1>3. result' \in {"success", "error"}
  BY <1>1
<1>4. UNCHANGED <<open, attached, reading, transaction>>
  BY DEF Exec
<1>5. AttachedSchemas' = AttachedSchemas
  BY <1>4 DEF AttachedSchemas
<1>6. locked' \subseteq AttachedSchemas'
  BY <1>5 DEF Exec, Left, TypeOK
<1> QED
  BY <1>2, <1>3, <1>4, <1>6 DEF TypeOK, Catalogue
-----------------------------------------------------------------------------
(* The invariant: besides the types, every table stands where SQLite looks it *)
(* up by its folded name, and no two databases are attached under one name.   *)

LEMMA InitTypeOK == Init => TypeOK
<1> SUFFICES ASSUME Init PROVE TypeOK
  OBVIOUS
<1>1. attached = <<>> /\ attached \in Seq([schema : Schemas, file : Files \ {MainFile}])
      /\ Len(attached) = 0 /\ DOMAIN attached = {}
  BY DEF Init
<1>2. Catalogue(tables)
  BY DEF Init, Catalogue
<1>3. Len(attached) <= MaxAttached
  BY ONLY <1>1, Bound
<1>4. /\ open \in BOOLEAN /\ reading \in BOOLEAN /\ transaction \in BOOLEAN
      /\ locked \subseteq AttachedSchemas /\ result \in {"success", "error"}
  BY DEF Init
<1> QED
  BY ONLY <1>1, <1>2, <1>3, <1>4 DEF TypeOK

LEMMA NextTypeOK == TypeOK /\ [Next]_vars => TypeOK'
<1> SUFFICES ASSUME TypeOK, [Next]_vars PROVE TypeOK'
  OBVIOUS
<1>1. CASE Open
  <2>1. AttachedSchemas' = AttachedSchemas
    BY <1>1 DEF Open, AttachedSchemas
  <2> QED
    BY <1>1, <2>1 DEF Open, TypeOK, Catalogue, locks
<1>2. CASE Close
  <2>1. /\ attached' = <<>> /\ Len(attached') = 0 /\ DOMAIN attached' = {}
        /\ attached' \in Seq([schema : Schemas, file : Files \ {MainFile}])
    BY <1>2 DEF Close
  <2>2. /\ open' = FALSE /\ result' = "success"
        /\ reading' = FALSE /\ transaction' = FALSE /\ locked' = {}
    BY <1>2 DEF Close
  <2>3. Catalogue(tables')
    BY <1>2, CloseKeeps
  <2>4. Len(attached') <= MaxAttached
    BY ONLY <2>1, Bound
  <2> QED
    BY ONLY <2>1, <2>2, <2>3, <2>4 DEF TypeOK, Catalogue
<1>3. CASE AttachRefused
  <2>1. AttachedSchemas' = AttachedSchemas
    BY <1>3 DEF AttachRefused, AttachedSchemas
  <2> QED
    BY <1>3, <2>1 DEF AttachRefused, TypeOK, Catalogue, locks
<1>4. ASSUME NEW b \in Creates, Exec(Created(b)) PROVE TypeOK'
  <2>1. CreateTableCommand(b)
    BY TablesAssumption
  <2> QED
    BY <1>4, <2>1, CreatedKeeps, ExecKeeps
<1>5. ASSUME NEW n \in TableNames \cup {""}, NEW s \in AnySchema \cup {""},
             NEW ifExists \in BOOLEAN, Exec(Dropped(n, s, ifExists))
      PROVE  TypeOK'
  BY <1>5, DroppedKeeps, ExecKeeps
<1>6. ASSUME NEW n \in TableNames \cup {""}, NEW s \in AnySchema \cup {""},
             NEW m \in ColumnNames \cup {""}, NEW d \in Declarations,
             Exec(Altered(n, s, m, d))
      PROVE  TypeOK'
  BY <1>6, AlteredKeeps, ExecKeeps
<1>7. ASSUME NEW n \in TableNames \cup {""}, NEW s \in AnySchema \cup {""},
             NEW new \in TableNames \cup {""}, Exec(Renamed(n, new, s))
      PROVE  TypeOK'
  BY <1>7, RenamedKeeps, ExecKeeps
<1>8. ASSUME NEW f \in Unused \cup {""}, NEW s \in AnySchema \cup {""}, Attach(f, s)
      PROVE  TypeOK'
  <2>1. UNCHANGED <<open, tables, reading, transaction>> /\ result' = "success"
    BY <1>8 DEF Attach
  <2>2. f \in Files \ {MainFile} /\ s \in Schemas
    BY <1>8 DEF Attach, Unused, AnySchema, Known
  <2> QED
    BY <1>8, <2>1, <2>2, AttachKeeps, AttachKeepsLocks DEF TypeOK, Catalogue
<1>9. ASSUME NEW s \in AnySchema \cup {""}, DetachDatabase(s) PROVE TypeOK'
  <2>1. UNCHANGED <<open, tables, reading, transaction, result>>
    BY <1>9 DEF DetachDatabase, locks
  <2> QED
    BY <1>9, <2>1, DetachKeeps, DetachKeepsLocks DEF TypeOK, Catalogue
<1>10. ASSUME /\ UNCHANGED <<open, attached, tables>>
              /\ reading' \in BOOLEAN /\ transaction' \in BOOLEAN
              /\ locked' \subseteq AttachedSchemas /\ result' \in {"success", "error"}
       PROVE  TypeOK'
  <2>1. AttachedSchemas' = AttachedSchemas
    BY <1>10 DEF AttachedSchemas
  <2> QED
    BY <1>10, <2>1 DEF TypeOK, Catalogue
<1>11. ASSUME NEW s \in AnySchema, QueryOpens(s) PROVE TypeOK'
  <2>1. {s} \cap Schemas \subseteq AttachedSchemas
    BY <1>11, SchemaNames DEF QueryOpens, Known, AttachedSchemas
  <2> QED
    BY <1>10, <1>11, <2>1 DEF QueryOpens, TypeOK
<1>12. ASSUME NEW s \in AnySchema, StatementUses(s) PROVE TypeOK'
  BY <1>10, <1>12 DEF StatementUses, TypeOK
<1>13. ASSUME NEW type, BeginTransaction(type) PROVE TypeOK'
  BY <1>10, <1>13 DEF BeginTransaction, TypeOK
<1>14. CASE QueryCloses \/ TransactionEnds
  BY <1>10, <1>14 DEF QueryCloses, TransactionEnds, TypeOK
<1>15. CASE UNCHANGED vars
  BY <1>10, <1>15 DEF vars, locks, TypeOK
<1> QED
  BY <1>1, <1>2, <1>3, <1>4, <1>5, <1>6, <1>7, <1>8, <1>9, <1>11, <1>12, <1>13, <1>14, <1>15
     DEF Next

\* No sequence of commands, attachments and queries leaves the catalogue: in every place
\* a table is kept under its own folded name, and no two databases share a schema name.
THEOREM TypeCorrect == Spec => []TypeOK
  BY InitTypeOK, NextTypeOK, PTL DEF Spec
-----------------------------------------------------------------------------
(* What the queries answer.                                                  *)

\* A name of a schema that is there stands for one place.
LEMMA InSchema ==
    ASSUME TypeOK, NEW s \in AnySchema
    PROVE  /\ s # ""
           /\ Known(s) => StoreOf(s) \in Stores /\ Master(s) = {StoreOf(s)}
           /\ ~Known(s) => Master(s) = {}
           /\ Master(s) \subseteq Stores
           /\ \A t, n : Find(t, n, s) = {f \in Master(s) : Holds(t, f, n)}
<1>1. s # ""
  BY TablesAssumption DEF AnySchema
<1>2. ASSUME Known(s) PROVE StoreOf(s) \in Stores
  <2>1. CASE s \in {"main", "temp"}
    BY <2>1, Places DEF StoreOf
  <2>2. CASE s \notin {"main", "temp"}
    <3> DEFINE i == CHOOSE i \in DOMAIN attached : attached[i].schema = s
    <3>1. i \in DOMAIN attached
      BY <1>2, <2>2 DEF Known
    <3>2. StoreOf(s) = attached[i].file
      BY <2>2 DEF StoreOf
    <3> HIDE DEF i
    <3> QED
      BY <3>1, <3>2, Places
  <2> QED
    BY <2>1, <2>2
<1>3. Master(s) = {f \in Stores : Known(s) /\ f = StoreOf(s)}
  BY <1>1 DEF Master
<1>4. \A t, n : Find(t, n, s) = {f \in Stores : Known(s) /\ f = StoreOf(s) /\ Holds(t, f, n)}
  BY <1>1 DEF Find
<1> QED
  BY <1>1, <1>2, <1>3, <1>4, Zenon

LEMMA WithoutSchema == Master("") = {MainFile}
  BY DEF Master

\* A table with this spelling can only be the entry of its folded name.
LEMMA ExistsIn ==
    ASSUME NEW t, Catalogue(t), NEW n \in TableNames, NEW s, Master(s) \subseteq Stores
    PROVE  /\ TableExists(t, n, s) <=> open /\ \E f \in Master(s) : t[f][Folded[n]].name = n
           /\ \A f \in Stores : t[f][Folded[n]].name = n => Holds(t, f, n)
<1>1. n # "" /\ Folded[n] \in FoldedTables /\ NoTable.name = ""
  BY TablesAssumption, Places DEF NoTable
<1>2. ASSUME NEW f \in Stores, NEW k \in FoldedTables, t[f][k].name = n
      PROVE  k = Folded[n]
  <2>1. t[f][k] # NoTable
    BY <1>1, <1>2
  <2>2. Folded[t[f][k].name] = k
    BY <2>1 DEF Catalogue
  <2> QED
    BY <1>2, <2>2
<1>3. \A f \in Stores : t[f][Folded[n]].name = n => Holds(t, f, n)
  BY <1>1 DEF Holds
<1>4. TableExists(t, n, s) => open /\ \E f \in Master(s) : t[f][Folded[n]].name = n
  BY <1>2 DEF TableExists
<1>5. (open /\ \E f \in Master(s) : t[f][Folded[n]].name = n) => TableExists(t, n, s)
  BY <1>1 DEF TableExists
<1> QED
  BY <1>3, <1>4, <1>5

LEMMA ExistsIffListed ==
    ASSUME NEW t, NEW n \in TableNames, NEW s
    PROVE  TableExists(t, n, s) <=> n \in AllTables(t, s)
<1>1. n # ""
  BY TablesAssumption
<1>2. TableExists(t, n, s) <=> open /\ \E f \in Master(s), k \in FoldedTables : t[f][k].name = n
  BY <1>1, Zenon DEF TableExists
<1>3. n \in AllTables(t, s)
         <=> open /\ \E f \in Master(s), k \in FoldedTables : t[f][k].name = n
  BY Zenon DEF AllTables
<1> QED
  BY ONLY <1>2, <1>3, Zenon

\* tableInfo answers columns exactly for a table that is found.
LEMMA InfoFinds ==
    ASSUME NEW t, Catalogue(t), NEW n \in TableNames, NEW s,
           \A f \in Find(t, n, s) : f \in Stores /\ Holds(t, f, n)
    PROVE  /\ TableInfo(t, n, s).columndefs # <<>> <=> open /\ Find(t, n, s) # {}
           /\ \A f : open /\ Find(t, n, s) = {f} =>
                        TableInfo(t, n, s).columndefs = t[f][Folded[n]].columns
<1> DEFINE found == IF open /\ n # "" THEN Find(t, n, s) ELSE {}
           f == CHOOSE f \in found : TRUE
           defs == IF found = {} THEN <<>> ELSE t[f][Folded[n]].columns
<1>1. TableInfo(t, n, s).columndefs = defs
  BY DEF TableInfo
<1>2. n # "" /\ Folded[n] \in FoldedTables
  BY TablesAssumption, Places
<1>3. ASSUME open, Find(t, n, s) # {} PROVE defs # <<>>
  <2>1. found # {} /\ f \in Find(t, n, s)
    BY <1>2, <1>3
  <2> HIDE DEF f
  <2>2. t[f][Folded[n]] \in Table
    <3>1. f \in Stores /\ t[f][Folded[n]] # NoTable
      BY <2>1 DEF Holds
    <3>2. t \in [Stores -> [FoldedTables -> Table \cup {NoTable}]]
      BY DEF Catalogue
    <3> QED
      BY ONLY <1>2, <3>1, <3>2
  <2>3. t[f][Folded[n]].columns # <<>>
    BY <2>2, NoTableIsNone
  <2> QED
    BY <2>1, <2>3
<1>4. ASSUME ~open \/ Find(t, n, s) = {} PROVE defs = <<>>
  BY <1>4
<1>5. ASSUME NEW g, open, Find(t, n, s) = {g} PROVE defs = t[g][Folded[n]].columns
  BY <1>2, <1>5
<1> QED
  BY <1>1, <1>3, <1>4, <1>5

\* The schema queries agree in every reachable state.
LEMMA TypeQueriesAgree == TypeOK => QueriesAgree
<1> SUFFICES ASSUME TypeOK, NEW n \in TableNames, NEW s, s \in AnySchema \/ s = ""
             PROVE  LET found == TableInfo(tables, n, s).columndefs # <<>>
                    IN  /\ TableExists(tables, n, s) <=> n \in AllTables(tables, s)
                        /\ TableExists(tables, n, s) => found
                        /\ found /\ ~TableExists(tables, n, s) =>
                              \E m \in TableNames, r \in {s} \cup IF s = "" THEN AnySchema ELSE {} :
                                 /\ Folded[m] = Folded[n] /\ <<m, r>> # <<n, s>>
                                 /\ TableExists(tables, m, r)
  BY DEF QueriesAgree
<1> DEFINE found == TableInfo(tables, n, s).columndefs # <<>>
           entry(f) == tables[f][Folded[n]]
<1>1. Catalogue(tables)
  BY DEF TypeOK
<1>2. Master(s) \subseteq Stores
  <2>1. CASE s \in AnySchema
    BY <2>1, InSchema
  <2>2. CASE s = ""
    BY <2>2, WithoutSchema, Places
  <2> QED
    BY <2>1, <2>2
<1>3. \A f \in Find(tables, n, s) : f \in Stores /\ Holds(tables, f, n)
  BY FindFinds
<1>4. found <=> open /\ Find(tables, n, s) # {}
  BY <1>1, <1>3, InfoFinds
<1>5. TableExists(tables, n, s) <=> n \in AllTables(tables, s)
  BY ExistsIffListed
<1>6. TableExists(tables, n, s) => found
  <2> SUFFICES ASSUME TableExists(tables, n, s) PROVE Find(tables, n, s) # {}
    BY <1>1, <1>2, <1>4, ExistsIn
  <2>1. PICK f \in Master(s) : f \in Stores /\ Holds(tables, f, n)
    BY <1>1, <1>2, ExistsIn
  <2>2. CASE s \in AnySchema
    BY <2>1, <2>2, InSchema
  <2>3. CASE s = ""
    BY <2>1, <2>3, WithoutSchema DEF Find
  <2> QED
    BY <2>2, <2>3
<1>7. ASSUME found, ~TableExists(tables, n, s)
      PROVE  \E m \in TableNames, r \in {s} \cup IF s = "" THEN AnySchema ELSE {} :
                /\ Folded[m] = Folded[n] /\ <<m, r>> # <<n, s>>
                /\ TableExists(tables, m, r)
  <2>1. PICK f \in Find(tables, n, s) : f \in Stores /\ Holds(tables, f, n) /\ open
    BY <1>3, <1>4, <1>7
  <2> DEFINE m == entry(f).name
  <2>2. /\ m \in TableNames /\ Folded[m] = Folded[n]
        /\ tables[f][Folded[m]].name = m
    BY <2>1, Entry DEF Table
  <2> HIDE DEF m
  <2>3. ASSUME NEW r, Master(r) \subseteq Stores, f \in Master(r) PROVE TableExists(tables, m, r)
    BY <1>1, <2>1, <2>2, <2>3, ExistsIn
  <2>4. CASE s \in AnySchema
    <3>1. f \in Master(s) /\ s # ""
      BY <2>1, <2>4, InSchema
    <3>2. TableExists(tables, m, s)
      BY <1>2, <2>3, <3>1
    <3>3. m # n
      BY <1>7, <3>2
    <3> QED
      BY <2>2, <3>1, <3>2, <3>3
  <2>5. CASE s = ""
    <3>1. PICK r \in AnySchema : f \in Master(r)
      <4>1. CASE f = Temp
        BY <4>1, Places DEF Master, Known, StoreOf, AnySchema
      <4>2. CASE f = MainFile
        BY <4>2, Places DEF Master, Known, StoreOf, AnySchema
      <4>3. CASE f # Temp /\ f # MainFile
        <5>1. PICK i \in DOMAIN attached : f = attached[i].file
          BY <2>1, <2>5, <4>3 DEF Find, AttachedWith
        <5> DEFINE r == attached[i].schema
        <5>2. r \in Schemas /\ r \notin {"main", "temp"} /\ r # ""
          BY <5>1, Places, SchemaNames
        <5>3. \A j \in DOMAIN attached : attached[j].schema = r => j = i
          BY <5>1 DEF TypeOK
        <5>4. StoreOf(r) = attached[i].file /\ Known(r)
          <6>1. (CHOOSE j \in DOMAIN attached : attached[j].schema = r) = i
            BY <5>1, <5>3
          <6> QED
            BY <5>1, <5>2, <6>1 DEF StoreOf, Known
        <5> HIDE DEF r
        <5> QED
          BY <2>1, <5>1, <5>2, <5>4 DEF Master, AnySchema
      <4> QED
        BY <4>1, <4>2, <4>3
    <3>2. r # "" /\ TableExists(tables, m, r)
      BY <2>3, <3>1, InSchema
    <3>3. <<m, r>> # <<n, s>>
      BY <2>5, <3>2
    <3> QED
      BY <2>2, <2>5, <3>1, <3>2, <3>3
  <2> QED
    BY <2>4, <2>5
<1> QED
  BY <1>5, <1>6, <1>7

THEOREM Agreement == Spec => []QueriesAgree
  BY TypeCorrect, TypeQueriesAgree, PTL

\* Replacing an entry changes no other one.
LEMMA WithOnly ==
    ASSUME TypeOK, NEW f \in Stores, NEW k \in FoldedTables, NEW v
    PROVE  /\ With(f, k, v)[f][k] = v
           /\ \A g \in Stores, j \in FoldedTables :
                 g # f \/ j # k => With(f, k, v)[g][j] = tables[g][j]
  BY DEF TypeOK, Catalogue, With

LEMMA Removed ==
    ASSUME TypeOK, NEW f \in Stores, NEW g \in Stores, NEW n \in TableNames,
           Holds(With(f, Folded[n], NoTable), g, n)
    PROVE  f # g /\ Holds(tables, g, n)
<1> DEFINE w == With(f, Folded[n], NoTable)
<1>1. Folded[n] \in FoldedTables
  BY Places
<1>2. w[f][Folded[n]] = NoTable
  BY <1>1, WithOnly
<1>3. f # g => w[g][Folded[n]] = tables[g][Folded[n]]
  BY <1>1, WithOnly
<1>4. w[g][Folded[n]] # NoTable
  BY DEF Holds
<1> HIDE DEF w
<1> QED
  BY ONLY <1>2, <1>3, <1>4 DEF Holds

LEMMA DroppedOutcome ==
    ASSUME NEW n, NEW s, NEW ifExists, NEW o \in Dropped(n, s, ifExists), o # Failed
    PROVE  \/ o.tables = tables /\ Find(tables, n, s) = {}
           \/ \E f \in Find(tables, n, s) : o.tables = With(f, Folded[n], NoTable)
<1>1. CASE Find(tables, n, s) = {}
  <2>1. o = Done(tables)
    BY <1>1 DEF Dropped
  <2> QED
    BY <1>1, <2>1 DEF Done
<1>2. CASE Find(tables, n, s) # {}
  <2>1. PICK f \in Find(tables, n, s) : o = Done(With(f, Folded[n], NoTable))
    BY <1>2 DEF Dropped
  <2>2. o.tables = With(f, Folded[n], NoTable)
    BY <2>1 DEF Done
  <2> QED
    BY <2>2
<1> QED
  BY <1>1, <1>2

LEMMA TypeDropLeavesNone == TypeOK => DropLeavesNone
<1> SUFFICES ASSUME TypeOK, NEW n \in TableNames, NEW s, s \in AnySchema \/ s = "",
                    NEW ifExists \in BOOLEAN, NEW o \in Dropped(n, s, ifExists),
                    o.result = "success", s = "" => ~Holds(tables, Temp, n),
                    NEW m \in TableNames, Folded[m] = Folded[n],
                    TableExists(o.tables, m, s)
             PROVE  FALSE
  BY DEF DropLeavesNone
<1>1. Master(s) \subseteq Stores
  <2>1. CASE s \in AnySchema
    BY <2>1, InSchema
  <2>2. CASE s = ""
    BY <2>2, WithoutSchema, Places
  <2> QED
    BY <2>1, <2>2
<1>2. Catalogue(o.tables)
  BY DroppedKeeps
<1>3. PICK g \in Master(s) : g \in Stores /\ Holds(o.tables, g, n)
  <2>1. \E g \in Master(s) : Holds(o.tables, g, m)
    BY <1>1, <1>2, ExistsIn
  <2> QED
    BY <1>1, <2>1 DEF Holds
\* Where the query looks, the DROP looked before.
<1>4. Holds(tables, g, n) => g \in Find(tables, n, s) /\ \A f \in Find(tables, n, s) : f = g
  <2>1. CASE s \in AnySchema
    <3>1. Master(s) = {g}
      BY <1>3, <2>1, InSchema
    <3>2. Find(tables, n, s) = {f \in {g} : Holds(tables, f, n)}
      BY <2>1, <3>1, InSchema
    <3> QED
      BY <3>2, Zenon
  <2>2. CASE s = ""
    BY <1>3, <2>2, WithoutSchema DEF Find
  <2> QED
    BY <2>1, <2>2
<1>5. CASE o.tables = tables /\ Find(tables, n, s) = {}
  BY <1>3, <1>4, <1>5
<1>6. ASSUME NEW f \in Find(tables, n, s), o.tables = With(f, Folded[n], NoTable)
      PROVE  FALSE
  <2>1. f \in Stores /\ Folded[n] \in FoldedTables
    BY FindFinds, Places
  <2>2. f # g /\ Holds(tables, g, n)
    BY <1>3, <1>6, <2>1, Removed
  <2> QED
    BY <1>4, <2>2
<1>7. o # Failed
  <2>1. Failed.result = "error"
    BY DEF Failed
  <2> QED
    BY <2>1
<1> QED
  BY <1>5, <1>6, <1>7, DroppedOutcome

THEOREM DroppedIsGone == Spec => []DropLeavesNone
  BY TypeCorrect, TypeDropLeavesNone, PTL

LEMMA TypeRenameMoves == TypeOK => RenameMoves
<1> SUFFICES ASSUME TypeOK, NEW old \in TableNames, NEW new \in TableNames, NEW s \in AnySchema,
                    NEW o \in Renamed(old, new, s), o.result = "success"
             PROVE  LET before == TableInfo(tables, old, s)
                        after == TableInfo(o.tables, new, s)
                    IN  /\ TableExists(o.tables, new, s) /\ ~TableExists(o.tables, old, s)
                        /\ TableInfo(o.tables, old, s).columndefs = <<>>
                        /\ after.columndefs = before.columndefs /\ after.columndefs # <<>>
                        /\ AllTables(o.tables, s) \ {new} \subseteq AllTables(tables, s)
  BY DEF RenameMoves
<1>1. o # Failed
  BY DEF Failed
<1>2. PICK f \in Find(tables, old, s) : RenamedAt(f, old, new, o)
  BY <1>1, RenamedTable
<1>3. /\ open /\ Master(s) = {f} /\ f \in Stores /\ Find(tables, old, s) = {f}
      /\ \A t, n : Find(t, n, s) = {g \in {f} : Holds(t, g, n)}
  <2>1. open /\ f \in Stores
    BY <1>1, <1>2, RenamedTable DEF RenamedAt
  <2>2. Master(s) = {f}
    BY <1>2, InSchema
  <2>3. \A t, n : Find(t, n, s) = {g \in {f} : Holds(t, g, n)}
    BY <2>2, InSchema
  <2>4. Find(tables, old, s) = {f}
    BY <1>2, <2>3
  <2> QED
    BY <2>1, <2>2, <2>3, <2>4
<1>4. Catalogue(tables) /\ Catalogue(o.tables)
  BY RenamedKeeps DEF TypeOK
<1>5. Folded[old] \in FoldedTables /\ Folded[new] \in FoldedTables /\ Folded[old] # Folded[new]
  BY <1>2, Places DEF RenamedAt
<1>6. /\ o.tables[f][Folded[old]] = NoTable
      /\ o.tables[f][Folded[new]] = [name |-> new, columns |-> tables[f][Folded[old]].columns]
  BY <1>2, <1>3, <1>5 DEF RenamedAt
<1>7. /\ o.tables[f][Folded[new]].name = new
      /\ o.tables[f][Folded[new]].columns = tables[f][Folded[old]].columns
  <2>1. \A x, y : [name |-> x, columns |-> y].name = x
    OBVIOUS
  <2>2. \A x, y : [name |-> x, columns |-> y].columns = y
    OBVIOUS
  <2>3. o.tables[f][Folded[new]].name = new
    BY ONLY <1>6, <2>1, Zenon
  <2>4. o.tables[f][Folded[new]].columns = tables[f][Folded[old]].columns
    BY ONLY <1>6, <2>2, Zenon
  <2> QED
    BY ONLY <2>3, <2>4
<1>8. TableExists(o.tables, new, s)
  BY <1>3, <1>4, <1>7, ExistsIn
<1>9. ~Holds(o.tables, f, old) /\ Find(o.tables, old, s) = {}
  BY <1>3, <1>6 DEF Holds
<1>10. ~TableExists(o.tables, old, s)
  BY <1>3, <1>4, <1>9, ExistsIn
<1>11. TableInfo(o.tables, old, s).columndefs = <<>>
  BY <1>4, <1>9, InfoFinds
<1>12. Find(o.tables, new, s) = {f}
  BY <1>3, <1>4, <1>7, ExistsIn
<1>13. /\ TableInfo(o.tables, new, s).columndefs = o.tables[f][Folded[new]].columns
       /\ TableInfo(o.tables, new, s).columndefs # <<>>
  BY <1>3, <1>4, <1>12, InfoFinds
<1>14. TableInfo(tables, old, s).columndefs = tables[f][Folded[old]].columns
  BY <1>3, <1>4, FindFinds, InfoFinds
<1>15. ASSUME NEW n \in AllTables(o.tables, s), n # new PROVE n \in AllTables(tables, s)
  <2>1. PICK k \in FoldedTables : o.tables[f][k].name = n /\ n \in TableNames
    BY <1>3, <1>15 DEF AllTables
  <2>2. n # ""
    BY <2>1, TablesAssumption
  <2>3. k # Folded[old] /\ k # Folded[new]
    <3>1. NoTable.name = ""
      BY DEF NoTable
    <3>2. k # Folded[old]
      BY ONLY <1>6, <2>1, <2>2, <3>1
    <3>3. k # Folded[new]
      BY ONLY <1>7, <1>15, <2>1
    <3> QED
      BY <3>2, <3>3
  <2>4. tables[f][k].name = n
    BY <1>2, <1>3, <2>1, <2>3 DEF RenamedAt
  <2> QED
    BY <1>3, <2>1, <2>4 DEF AllTables
<1> QED
  BY <1>7, <1>8, <1>10, <1>11, <1>13, <1>14, <1>15

THEOREM RenamedMoves == Spec => []RenameMoves
  BY TypeCorrect, TypeRenameMoves, PTL

LEMMA DetachStep ==
    ASSUME TypeOK, NEW s \in Schemas, DetachDatabase(s), s \notin locked
    PROVE  /\ AllTables(tables, s)' = {}
           /\ \A x \in AllDatabase(tables)' : x[1] # s
           /\ \A n \in TableNames : TableInfo(tables, n, s)'.columndefs = <<>>
<1>1. s # "" /\ s \notin {"main", "temp"}
  BY SchemaNames
<1>2. open' => \A i \in DOMAIN attached' : attached'[i].schema # s
  <2> SUFFICES ASSUME open, NEW i \in DOMAIN attached', attached'[i].schema = s
               PROVE  FALSE
    BY DEF DetachDatabase
  <2>1. Detachable(s) = {j \in DOMAIN attached : attached[j].schema = s}
    BY <1>1 DEF Detachable
  <2>2. PICK d \in Detachable(s) :
           attached' = [j \in 1..(Len(attached) - 1) |-> attached[IF j < d THEN j ELSE j + 1]]
    BY <2>1 DEF DetachDatabase
  <2>3. /\ DOMAIN attached = 1..Len(attached) /\ Len(attached) \in Nat
        /\ \A j, k \in DOMAIN attached : attached[j].schema = attached[k].schema => j = k
    BY DEF TypeOK
  <2>4. d \in DOMAIN attached /\ attached[d].schema = s /\ i \in 1..(Len(attached) - 1)
    BY <2>1, <2>2
  <2>5. attached[IF i < d THEN i ELSE i + 1].schema = s
    BY <2>2, <2>4
  <2>6. (IF i < d THEN i ELSE i + 1) \in DOMAIN attached /\ (IF i < d THEN i ELSE i + 1) # d
    BY <2>3, <2>4
  <2> QED
    BY <2>3, <2>4, <2>5, <2>6
<1>3. open' => ~Known(s)'
  BY <1>1, <1>2 DEF Known
<1>4. open' => Master(s)' = {}
  BY <1>1, <1>3 DEF Master
<1>5. AllTables(tables, s)' = {}
  BY <1>4 DEF AllTables
<1>6. \A x \in AllDatabase(tables)' : x[1] # s
  <2> SUFFICES ASSUME NEW x \in AllDatabase(tables)' PROVE x[1] # s
    OBVIOUS
  <2>1. open'
    BY DEF AllDatabase
  <2>2. \/ x = <<"main", MainFile>> \/ x = <<"temp", Temp>>
        \/ \E i \in DOMAIN attached' : x = <<attached'[i].schema, attached'[i].file>>
    BY <2>1 DEF AllDatabase
  <2> QED
    <3>1. CASE x = <<"main", MainFile>> \/ x = <<"temp", Temp>>
      <4>1. \A y, z : <<y, z>>[1] = y
        OBVIOUS
      <4>2. x[1] = "main" \/ x[1] = "temp"
        BY ONLY <3>1, <4>1, Zenon
      <4> QED
        BY <1>1, <4>2
    <3>2. ASSUME NEW i \in DOMAIN attached', x = <<attached'[i].schema, attached'[i].file>>
          PROVE  x[1] # s
      BY <1>2, <2>1, <3>2
    <3> QED
      BY <2>2, <3>1, <3>2
<1>7. ASSUME NEW n \in TableNames PROVE TableInfo(tables, n, s)'.columndefs = <<>>
  <2>1. open' => Find(tables, n, s)' = {}
    BY <1>1, <1>3 DEF Find
  <2> QED
    BY <2>1 DEF TableInfo
<1> QED
  BY <1>5, <1>6, <1>7

\* SQLite keeps a transaction open on an attached database only for a query that is open
\* or for an explicit transaction.
LocksAreOwned == locked # {} => reading \/ transaction

LEMMA NextLocksAreOwned == LocksAreOwned /\ [Next]_vars => LocksAreOwned'
<1> SUFFICES ASSUME LocksAreOwned, [Next]_vars PROVE LocksAreOwned'
  OBVIOUS
<1> USE DEF LocksAreOwned
<1>1. CASE UNCHANGED locks
  BY <1>1 DEF locks
<1>2. ASSUME NEW outcomes, Exec(outcomes) PROVE LocksAreOwned'
  BY <1>2 DEF Exec, Left
<1>3. CASE Close \/ QueryCloses \/ TransactionEnds
  BY <1>3 DEF Close, QueryCloses, TransactionEnds
<1>4. ASSUME NEW f, NEW s, Attach(f, s) PROVE LocksAreOwned'
  BY <1>4 DEF Attach
<1>5. ASSUME NEW s, QueryOpens(s) \/ StatementUses(s) PROVE LocksAreOwned'
  BY <1>5 DEF QueryOpens, StatementUses
<1>6. ASSUME NEW type, BeginTransaction(type) PROVE LocksAreOwned'
  BY <1>6 DEF BeginTransaction
<1>7. CASE Open \/ AttachRefused \/ UNCHANGED vars
  BY <1>1, <1>7 DEF Open, AttachRefused, vars
<1>8. ASSUME NEW s, DetachDatabase(s) PROVE LocksAreOwned'
  BY <1>1, <1>8 DEF DetachDatabase
<1> QED
  BY <1>2, <1>3, <1>4, <1>5, <1>6, <1>7, <1>8 DEF Next

\* After detachDatabase with no query on a row and no transaction open, the database is
\* gone from every answer.
THEOREM DetachRemoves == Spec => DetachedIsGone
<1>1. TypeOK /\ LocksAreOwned =>
        [\A s \in Schemas : DetachDatabase(s) /\ ~reading /\ ~transaction =>
              /\ AllTables(tables, s)' = {}
              /\ \A x \in AllDatabase(tables)' : x[1] # s
              /\ \A n \in TableNames : TableInfo(tables, n, s)'.columndefs = <<>>]_vars
  BY DetachStep DEF LocksAreOwned
<1>2. Init => LocksAreOwned
  BY DEF Init, LocksAreOwned
<1>3. TypeOK /\ LocksAreOwned =>
         (open /\ ~reading /\ ~transaction => \A s \in AttachedSchemas : Detachable(s) # {})
  <2> SUFFICES ASSUME TypeOK, open, locked = {}, NEW i \in DOMAIN attached
               PROVE  Detachable(attached[i].schema) # {}
    BY DEF LocksAreOwned, AttachedSchemas
  <2>1. attached[i].schema # ""
    BY Places, SchemaNames
  <2> QED
    BY <2>1 DEF Detachable
<1> QED
  BY <1>1, <1>2, <1>3, NextLocksAreOwned, TypeCorrect, PTL DEF Spec, DetachedIsGone
-----------------------------------------------------------------------------
(* What a CREATE TABLE leaves behind.                                        *)

\* One more declaration makes a command of a command, and counts from then on.
LEMMA ColumnDefines ==
    ASSUME NEW b \in Creates, NEW m \in ColumnNames, NEW d \in Declarations
    PROVE  LET c == ColumnDef(b, m, d)
           IN  /\ CreateTableCommand(c)
               /\ d.type # "" => /\ DOMAIN c.columnDef = DOMAIN b.columnDef \cup {m}
                                 /\ c.columnDef[m] = d
<1> DEFINE c == ColumnDef(b, m, d)
<1> SUFFICES /\ CreateTableCommand(c)
             /\ d.type # "" => /\ DOMAIN c.columnDef = DOMAIN b.columnDef \cup {m}
                               /\ c.columnDef[m] = d
  OBVIOUS
<1>1. CreateTableCommand(b) /\ m # "" /\ d \in ColumnDeclaration
  BY TablesAssumption
<1>2. CASE d.type = ""
  BY <1>1, <1>2 DEF ColumnDef
<1>3. CASE d.type # ""
  <2>1. c = [b EXCEPT !.columnDef = Put(b.columnDef, m, d)]
    BY <1>1, <1>3 DEF ColumnDef
  <2>2. d \in [type : Types, clauses : SUBSET ColumnConstraint]
    BY <1>1, <1>3 DEF ColumnDeclaration
  <2> DEFINE R == [type : Types, clauses : SUBSET ColumnConstraint]
             e == b.columnDef
             p == Put(e, m, d)
  <2>3. DOMAIN p = DOMAIN e \cup {m} /\ p[m] = d /\ \A n \in DOMAIN p : p[n] \in R
    <3>1. d \in R /\ \A n \in DOMAIN e : e[n] \in R
      BY <1>1, <2>2 DEF CreateTableCommand
    <3> HIDE DEF R, e
    <3>2. DOMAIN p = DOMAIN e \cup {m} /\ p[m] = d /\ \A n \in DOMAIN e : n # m => p[n] = e[n]
      BY DEF Put
    <3> QED
      BY ONLY <3>1, <3>2
  <2> HIDE DEF p, c
  <2>4. /\ DOMAIN c = DOMAIN b /\ c.columnDef = p
        /\ \A j \in DOMAIN b : j # "columnDef" => c[j] = b[j]
    BY <1>1, <2>1 DEF CreateTableCommand, p
  <2>5. /\ c.table = b.table /\ c.schema = b.schema /\ c.temp = b.temp
        /\ c.withoutRowId = b.withoutRowId /\ c.createIfNotExist = b.createIfNotExist
        /\ c.tableConstraint = b.tableConstraint
    BY <1>1, <2>4 DEF CreateTableCommand
  <2> QED
    BY <1>1, <2>3, <2>4, <2>5 DEF CreateTableCommand
<1> QED
  BY <1>2, <1>3

LEMMA CreatedOutcome ==
    ASSUME NEW c, NEW o \in Created(c), o.result = "success"
    PROVE  /\ open /\ Parses(c) /\ Known(Target(c))
           /\ LET f == StoreOf(Target(c))
              IN  \/ o.tables = tables /\ Holds(tables, f, c.table)
                 \/ /\ WellFormed(c) /\ ~Holds(tables, f, c.table)
                    /\ o.tables = With(f, Folded[c.table],
                                       [name |-> c.table, columns |-> Declared(c)])
<1>1. o # Failed
  BY DEF Failed
<1>2. CASE Holds(tables, StoreOf(Target(c)), c.table)
  <2>1. o = Done(tables) /\ open /\ Parses(c) /\ Known(Target(c))
    BY <1>1, <1>2 DEF Created
  <2> QED
    BY <1>2, <2>1 DEF Done
<1>3. CASE ~Holds(tables, StoreOf(Target(c)), c.table)
  <2>1. /\ o = Done(With(StoreOf(Target(c)), Folded[c.table],
                         [name |-> c.table, columns |-> Declared(c)]))
        /\ open /\ Parses(c) /\ Known(Target(c)) /\ WellFormed(c)
    BY <1>1, <1>3 DEF Created
  <2> QED
    BY <1>3, <2>1 DEF Done
<1> QED
  BY <1>2, <1>3

\* The place a command makes its table in is one SQLite knows; without a schema it is
\* the first place looked at, unless a temp table hides it.
LEMMA TargetIsFound ==
    ASSUME TypeOK, NEW c, CreateTableCommand(c), Parses(c), Known(Target(c)), NEW t,
           Holds(t, StoreOf(Target(c)), c.table)
    PROVE  /\ c.table \in TableNames /\ c.schema \in AnySchema \cup {""}
           /\ Find(t, c.table, c.schema) # {}
           /\ ~(c.schema = "" /\ ~c.temp /\ Holds(t, Temp, c.table)) =>
                 Find(t, c.table, c.schema) = {StoreOf(Target(c))}
<1>1. c.table \in TableNames /\ c.schema \in AnySchema \cup {""} /\ c.temp \in BOOLEAN
  BY DEF CreateTableCommand, Parses
<1>2. CASE c.schema # ""
  <2>1. Target(c) = c.schema /\ c.schema \in AnySchema
    BY <1>1, <1>2 DEF Target
  <2>2. Master(c.schema) = {StoreOf(Target(c))}
    BY <2>1, InSchema
  <2>3. \A u, n : Find(u, n, c.schema) = {f \in Master(c.schema) : Holds(u, f, n)}
    BY <2>1, InSchema
  <2>4. Find(t, c.table, c.schema) = {f \in Master(c.schema) : Holds(t, f, c.table)}
    BY <2>3, Zenon
  <2> QED
    BY <1>1, <1>2, <2>2, <2>4
<1>3. CASE c.schema = "" /\ c.temp
  <2>1. StoreOf(Target(c)) = Temp
    BY <1>3 DEF Target, StoreOf
  <2> QED
    BY <1>1, <1>3, <2>1 DEF Find
<1>4. CASE c.schema = "" /\ ~c.temp
  <2>1. StoreOf(Target(c)) = MainFile
    BY <1>4 DEF Target, StoreOf
  <2> QED
    BY <1>1, <1>4, <2>1 DEF Find
<1> QED
  BY <1>1, <1>2, <1>3, <1>4

\* A map visits every one of its keys.
LEMMA InOrder ==
    ASSUME NEW D \in SUBSET ColumnNames
    PROVE  /\ Iterated[D] \in Seq(ColumnNames)
           /\ {Iterated[D][i] : i \in DOMAIN Iterated[D]} = D
<1>1. Iterated \in [SUBSET ColumnNames -> Seq(ColumnNames)]
  BY TablesAssumption
<1>2. \A S \in SUBSET ColumnNames : {Iterated[S][i] : i \in DOMAIN Iterated[S]} = S
  BY TablesAssumption
<1>3. Iterated[D] \in Seq(ColumnNames)
  BY ONLY <1>1, D \in SUBSET ColumnNames
<1>4. {Iterated[D][i] : i \in DOMAIN Iterated[D]} = D
  BY ONLY <1>2, D \in SUBSET ColumnNames
<1> QED
  BY <1>3, <1>4

\* The columns of the table are those of the command, in the order of the map.
LEMMA DeclaredInOrder ==
    ASSUME NEW c, CreateTableCommand(c), NEW order, order = Iterated[DOMAIN c.columnDef]
    PROVE  /\ DOMAIN Declared(c) = DOMAIN order
           /\ {order[i] : i \in DOMAIN order} = DOMAIN c.columnDef
           /\ [i \in DOMAIN order |-> order[i]] = order
           /\ \A i \in DOMAIN order :
                 /\ Declared(c)[i].name = order[i]
                 /\ Declared(c)[i].type = c.columnDef[order[i]].type
                 /\ "NotNull" \in c.columnDef[order[i]].clauses => ~Declared(c)[i].nullable
                 /\ Declared(c)[i].key <=> InKey(c, order[i])
<1> DEFINE D == DOMAIN c.columnDef
           e == c.columnDef
           q == Declared(c)
           optional(i) == /\ "NotNull" \notin e[order[i]].clauses
                          /\ ~(c.withoutRowId /\ InKey(c, order[i]))
<1>1. order \in Seq(ColumnNames) /\ {order[i] : i \in DOMAIN order} = D
  <2>1. D \in SUBSET ColumnNames /\ order = Iterated[D]
    BY DEF CreateTableCommand
  <2> HIDE DEF D
  <2> QED
    BY <2>1, InOrder
<1>2. [i \in DOMAIN order |-> order[i]] = order
  BY <1>1
<1>3. DOMAIN q = DOMAIN order
  BY DEF Declared
<1>4. ASSUME NEW i \in DOMAIN order
      PROVE  q[i] = Column(order[i], e[order[i]], InKey(c, order[i]), optional(i))
  BY DEF Declared
<1>5. \A m, d, k, n : /\ Column(m, d, k, n).name = m /\ Column(m, d, k, n).type = d.type
                     /\ Column(m, d, k, n).nullable = n /\ Column(m, d, k, n).key = k
  BY DEF Column
<1>6. ASSUME NEW i \in DOMAIN order
      PROVE  /\ q[i].name = order[i] /\ q[i].type = e[order[i]].type
             /\ q[i].nullable = optional(i) /\ q[i].key = InKey(c, order[i])
  <2> DEFINE x == q[i]
             d == e[order[i]]
             k == InKey(c, order[i])
             n == optional(i)
  <2>1. x = Column(order[i], d, k, n)
    BY <1>4, <1>6
  <2> HIDE DEF x, d, k, n
  <2>2. x.name = order[i] /\ x.type = d.type /\ x.nullable = n /\ x.key = k
    BY ONLY <1>5, <2>1
  <2> QED
    BY <2>2 DEF x, d, k, n
<1>7. ASSUME NEW i \in DOMAIN order
      PROVE  /\ "NotNull" \in e[order[i]].clauses => ~q[i].nullable
             /\ q[i].key <=> InKey(c, order[i])
  BY <1>6, <1>7, Zenon
<1> QED
  BY <1>1, <1>2, <1>3, <1>6, <1>7

\* A column that is declared a key is the only one SQLite lets a table have.
LEMMA OnlyKey ==
    ASSUME NEW c, CreateTableCommand(c), WellFormed(c), NEW m \in DOMAIN c.columnDef,
           c.columnDef[m].clauses \cap KeyConstraint # {}
    PROVE  \A n \in DOMAIN c.columnDef : InKey(c, n) <=> n = m
<1>1. PICK k \in KeyConstraint : k \in c.columnDef[m].clauses
  OBVIOUS
<1>2. <<m, k>> \in KeysDeclared(c) /\ m # ""
  <2>1. m \in ColumnNames
    BY DEF CreateTableCommand
  <2>2. <<m, k>> \in (DOMAIN c.columnDef) \X KeyConstraint
    OBVIOUS
  <2>3. <<m, k>>[1] = m /\ <<m, k>>[2] = k
    OBVIOUS
  <2>4. <<m, k>> \in KeysDeclared(c)
    BY <1>1, <2>2, <2>3 DEF KeysDeclared
  <2> QED
    BY <2>1, <2>4, TablesAssumption
<1>3. \A y \in KeysDeclared(c) : y = <<m, k>>
  BY <1>2 DEF WellFormed
<1>4. "PrimaryKey" \notin DOMAIN c.tableConstraint
  <2> SUFFICES ASSUME "PrimaryKey" \in DOMAIN c.tableConstraint PROVE FALSE
    OBVIOUS
  <2>1. <<"", "PrimaryKey">> \in KeysDeclared(c)
    BY DEF KeysDeclared
  <2> QED
    BY <1>2, <1>3, <2>1
<1>5. ASSUME NEW n \in DOMAIN c.columnDef, InKey(c, n) PROVE n = m
  <2>1. PICK j \in KeyConstraint : j \in c.columnDef[n].clauses
    BY <1>4, <1>5 DEF InKey
  <2>2. <<n, j>> \in KeysDeclared(c)
    BY <2>1 DEF KeysDeclared
  <2> QED
    BY <1>3, <2>2
<1>6. InKey(c, m)
  BY DEF InKey
<1> QED
  BY <1>5, <1>6

LEMMA TypeCreateReportsDeclaration == TypeOK => CreateReportsDeclaration
<1> SUFFICES ASSUME TypeOK, NEW b \in Creates, NEW m \in ColumnNames, NEW d \in Declarations,
                    NEW o \in Created(ColumnDef(b, m, d)), o.result = "success"
             PROVE  LET c == ColumnDef(b, m, d)
                        hidden == c.schema = "" /\ ~c.temp /\ Holds(tables, Temp, c.table)
                        info == TableInfo(o.tables, c.table, c.schema)
                        defs == info.columndefs
                    IN  /\ defs # <<>>
                        /\ o.tables # tables /\ ~hidden /\ d.type # "" =>
                              /\ [i \in DOMAIN defs |-> defs[i].name]
                                    = Iterated[DOMAIN b.columnDef \cup {m}]
                              /\ \A i \in DOMAIN defs :
                                    defs[i].name = m =>
                                       /\ defs[i].type = d.type
                                       /\ "NotNull" \in d.clauses => ~defs[i].nullable
                              /\ d.clauses \cap KeyConstraint # {} => info.primaryKeys = {m}
  BY DEF CreateReportsDeclaration
<1> DEFINE c == ColumnDef(b, m, d)
           hidden == c.schema = "" /\ ~c.temp /\ Holds(tables, Temp, c.table)
           info == TableInfo(o.tables, c.table, c.schema)
           defs == info.columndefs
           f == StoreOf(Target(c))
           k == Folded[c.table]
           table == [name |-> c.table, columns |-> Declared(c)]
<1>1. /\ open /\ Parses(c) /\ Known(Target(c))
      /\ \/ o.tables = tables /\ Holds(tables, f, c.table)
         \/ WellFormed(c) /\ ~Holds(tables, f, c.table) /\ o.tables = With(f, k, table)
  BY CreatedOutcome
<1>2. /\ CreateTableCommand(c)
      /\ d.type # "" => DOMAIN c.columnDef = DOMAIN b.columnDef \cup {m} /\ c.columnDef[m] = d
  BY ColumnDefines
<1> HIDE DEF c
<1>3. Catalogue(o.tables)
  BY <1>2, CreatedKeeps DEF c
<1>4. /\ c.table \in TableNames /\ k \in FoldedTables /\ f \in Stores
      /\ c.schema \in AnySchema \cup {""}
  <2>1. /\ c.table \in TableNames /\ c.schema \in AnySchema \cup {""}
        /\ Target(c) \in AnySchema
    BY <1>1, <1>2 DEF CreateTableCommand, Parses, Target, AnySchema
  <2>2. f \in Stores
    BY <1>1, <2>1, InSchema
  <2> QED
    BY <2>1, <2>2, Places
<1> HIDE DEF f, k, table
<1>5. ASSUME o.tables = With(f, k, table)
      PROVE  /\ o.tables[f][k] = table
             /\ \A g \in Stores : g # f => o.tables[g][k] = tables[g][k]
  <2>1. /\ With(f, k, table)[f][k] = table
        /\ \A g \in Stores, j \in FoldedTables :
              g # f \/ j # k => With(f, k, table)[g][j] = tables[g][j]
    BY <1>4 DEF TypeOK, Catalogue, With
  <2> QED
    BY ONLY <1>4, <1>5, <2>1
<1>6. Holds(o.tables, f, c.table)
  <2>1. CASE o.tables = With(f, k, table)
    <3>1. table # NoTable
      <4>1. table.name # NoTable.name
        BY <1>4, TablesAssumption DEF NoTable, table
      <4> QED
        BY <4>1
    <3> QED
      BY <1>5, <2>1, <3>1 DEF Holds, k
  <2> QED
    BY <1>1, <2>1
<1>7. /\ Find(o.tables, c.table, c.schema) # {}
      /\ \A g \in Find(o.tables, c.table, c.schema) : g \in Stores /\ Holds(o.tables, g, c.table)
  BY <1>1, <1>2, <1>4, <1>6, TargetIsFound, FindsIn DEF f
<1>8. defs # <<>>
  BY <1>1, <1>3, <1>4, <1>7, InfoFinds
<1>9. ASSUME o.tables # tables, ~hidden, d.type # ""
      PROVE  /\ [i \in DOMAIN defs |-> defs[i].name] = Iterated[DOMAIN b.columnDef \cup {m}]
             /\ \A i \in DOMAIN defs :
                   defs[i].name = m => /\ defs[i].type = d.type
                                       /\ "NotNull" \in d.clauses => ~defs[i].nullable
             /\ d.clauses \cap KeyConstraint # {} => info.primaryKeys = {m}
  <2> DEFINE order == Iterated[DOMAIN c.columnDef]
             q == Declared(c)
  <2>1. /\ o.tables = With(f, k, table) /\ WellFormed(c)
        /\ DOMAIN c.columnDef = DOMAIN b.columnDef \cup {m} /\ c.columnDef[m] = d
    BY <1>1, <1>2, <1>9
  <2>2. ~(c.schema = "" /\ ~c.temp /\ Holds(o.tables, Temp, c.table))
    <3>1. c.schema = "" /\ ~c.temp => f = MainFile
      BY DEF f, Target, StoreOf
    <3> QED
      BY <1>5, <1>9, <2>1, <3>1, Places DEF Holds, k
  <2>3. Find(o.tables, c.table, c.schema) = {f}
    BY <1>1, <1>2, <1>6, <2>2, TargetIsFound DEF f
  <2>4. defs = q
    <3> DEFINE t == o.tables
               n == c.table
               s == c.schema
    <3>1. TableInfo(t, n, s).columndefs = t[f][Folded[n]].columns
      <4>1. /\ Catalogue(t) /\ n \in TableNames /\ open /\ Find(t, n, s) = {f}
            /\ \A g \in Find(t, n, s) : g \in Stores /\ Holds(t, g, n)
        BY <1>1, <1>3, <1>4, <1>7, <2>3
      <4> HIDE DEF t, n, s
      <4> QED
        BY ONLY <4>1, InfoFinds
    <3> QED
      BY <1>5, <2>1, <3>1 DEF table, k
  <2> HIDE DEF q
  <2>5. /\ DOMAIN q = DOMAIN order
        /\ {order[i] : i \in DOMAIN order} = DOMAIN c.columnDef
        /\ [i \in DOMAIN order |-> order[i]] = order
        /\ \A i \in DOMAIN order :
              /\ q[i].name = order[i]
              /\ q[i].type = c.columnDef[order[i]].type
              /\ "NotNull" \in c.columnDef[order[i]].clauses => ~q[i].nullable
              /\ q[i].key <=> InKey(c, order[i])
    BY <1>2, DeclaredInOrder DEF q
  <2>6. info.primaryKeys = {defs[i].name : i \in {i \in DOMAIN defs : defs[i].key}}
    BY DEF TableInfo
  <2> HIDE DEF order, defs
  <2>7. [i \in DOMAIN defs |-> defs[i].name] = order
    BY <2>4, <2>5
  <2>8. ASSUME NEW i \in DOMAIN defs, defs[i].name = m
        PROVE  defs[i].type = d.type /\ ("NotNull" \in d.clauses => ~defs[i].nullable)
    BY <2>1, <2>4, <2>5, <2>8
  <2>9. ASSUME d.clauses \cap KeyConstraint # {} PROVE info.primaryKeys = {m}
    <3>1. \A n \in DOMAIN c.columnDef : InKey(c, n) <=> n = m
      BY <1>2, <2>1, <2>9, OnlyKey
    <3>2. \A i \in DOMAIN order : q[i].key <=> order[i] = m
      BY <2>5, <3>1
    <3>3. PICK i \in DOMAIN order : order[i] = m
      BY <2>1, <2>5
    <3> QED
      BY <2>4, <2>5, <2>6, <3>2, <3>3
  <2> QED
    BY <2>1, <2>7, <2>8, <2>9 DEF order
<1> QED
  BY <1>8, <1>9 DEF c

\* No sequence of commands brings the catalogue to where a CREATE that answers success
\* leaves a table tableInfo does not report as it was declared.
THEOREM CreatedAsDeclared == Spec => []CreateReportsDeclaration
  BY TypeCorrect, TypeCreateReportsDeclaration, PTL
-----------------------------------------------------------------------------
(* A rename can be undone.  SQLite refuses a reserved name as the new name of a *)
(* table, so renaming back needs that no table has ever had one.               *)

NoReserved == \A f \in Stores, m \in Reserved : tables[f][Folded[m]] = NoTable

LEMMA ReservedNames == \A m \in Reserved : m \in TableNames /\ Folded[m] \in FoldedTables
  BY TablesAssumption DEF FoldedTables

LEMMA HeldIsNotReserved ==
    ASSUME NoReserved, NEW f \in Stores, NEW n, Holds(tables, f, n)
    PROVE  ~IsReserved(n)
  BY DEF NoReserved, Holds, IsReserved

LEMMA NextNoReserved == TypeOK /\ NoReserved /\ [Next]_vars => NoReserved'
<1> SUFFICES ASSUME TypeOK, NoReserved, [Next]_vars PROVE NoReserved'
  OBVIOUS
<1>1. ASSUME NEW f \in Stores, NEW n \in TableNames, NEW v, ~IsReserved(n) \/ v = NoTable
      PROVE  \A g \in Stores, m \in Reserved : With(f, Folded[n], v)[g][Folded[m]] = NoTable
  <2> SUFFICES ASSUME NEW g \in Stores, NEW m \in Reserved
               PROVE  With(f, Folded[n], v)[g][Folded[m]] = NoTable
    OBVIOUS
  <2>1. /\ With(f, Folded[n], v)[f][Folded[n]] = v
        /\ \A h \in Stores, j \in FoldedTables :
              h # f \/ j # Folded[n] => With(f, Folded[n], v)[h][j] = tables[h][j]
    BY Places, WithOnly
  <2>2. tables[g][Folded[m]] = NoTable /\ Folded[m] \in FoldedTables
    BY ReservedNames DEF NoReserved
  <2>3. Folded[m] = Folded[n] => v = NoTable
    BY <1>1 DEF IsReserved
  <2> QED
    BY <2>1, <2>2, <2>3
<1>2. CASE UNCHANGED tables
  BY <1>2 DEF NoReserved
<1>3. CASE Close
  BY <1>3, CloseKeeps, Places, ReservedNames DEF Close, NoReserved, TypeOK, Catalogue
<1>4. ASSUME NEW b \in Creates, NEW o \in Created(b), tables' = o.tables PROVE NoReserved'
  <2>1. CASE o.tables = tables
    BY <1>2, <1>4, <2>1
  <2>2. CASE o.tables # tables
    <3>1. /\ o = Done(With(StoreOf(Target(b)), Folded[b.table],
                           [name |-> b.table, columns |-> Declared(b)]))
          /\ Parses(b) /\ Known(Target(b)) /\ ~IsReserved(b.table)
      BY <2>2 DEF Created, Failed, Done
    <3>2. b.table \in TableNames /\ Target(b) \in AnySchema
      BY <3>1, TablesAssumption DEF CreateTableCommand, Parses, Target, AnySchema
    <3>3. StoreOf(Target(b)) \in Stores
      BY <3>1, <3>2, InSchema
    <3>4. tables' = With(StoreOf(Target(b)), Folded[b.table],
                         [name |-> b.table, columns |-> Declared(b)])
      BY <1>4, <3>1 DEF Done
    <3> QED
      BY <1>1, <3>1, <3>2, <3>3, <3>4 DEF NoReserved
  <2> QED
    BY <2>1, <2>2
<1>5. ASSUME NEW n \in TableNames \cup {""}, NEW s \in AnySchema \cup {""},
             NEW ifExists \in BOOLEAN, NEW o \in Dropped(n, s, ifExists), tables' = o.tables
      PROVE  NoReserved'
  <2>1. CASE o.tables = tables
    BY <1>2, <1>5, <2>1
  <2>2. CASE o.tables # tables
    <3>1. n \in TableNames /\ o # Failed
      <4>1. Failed.tables = tables
        BY DEF Failed
      <4>2. o # Failed
        BY <2>2, <4>1
      <4> QED
        BY <4>2 DEF Dropped
    <3>2. PICK f \in Find(tables, n, s) : o.tables = With(f, Folded[n], NoTable)
      BY <2>2, <3>1, DroppedOutcome
    <3>3. f \in Stores
      BY <3>1, FindFinds
    <3>4. \A g \in Stores, m \in Reserved : With(f, Folded[n], NoTable)[g][Folded[m]] = NoTable
      BY <1>1, <3>1, <3>3
    <3> QED
      BY <1>5, <3>2, <3>4 DEF NoReserved
  <2> QED
    BY <2>1, <2>2
<1>6. ASSUME NEW n \in TableNames \cup {""}, NEW s \in AnySchema \cup {""},
             NEW m \in ColumnNames \cup {""}, NEW d \in Declarations,
             NEW o \in Altered(n, s, m, d), tables' = o.tables
      PROVE  NoReserved'
  <2>1. CASE o = Failed
    BY <1>2, <1>6, <2>1 DEF Failed
  <2>2. CASE o # Failed
    <3>1. n \in TableNames
      BY <2>2 DEF Altered
    <3>2. PICK f \in Find(tables, n, s) : \E v : o = Done(With(f, Folded[n], v))
      BY <2>2 DEF Altered
    <3>3. f \in Stores /\ ~IsReserved(n)
      BY <3>1, FindFinds, HeldIsNotReserved
    <3>4. PICK v : o = Done(With(f, Folded[n], v))
      BY <3>2
    <3>5. \A t : Done(t).tables = t
      BY DEF Done
    <3>6. tables' = With(f, Folded[n], v)
      BY ONLY <1>6, <3>4, <3>5
    <3>7. \A g \in Stores, k \in Reserved : With(f, Folded[n], v)[g][Folded[k]] = NoTable
      BY <1>1, <3>1, <3>3
    <3> QED
      BY <3>6, <3>7 DEF NoReserved
  <2> QED
    BY <2>1, <2>2
<1>7. ASSUME NEW n \in TableNames \cup {""}, NEW s \in AnySchema \cup {""},
             NEW new \in TableNames \cup {""}, NEW o \in Renamed(n, new, s), tables' = o.tables
      PROVE  NoReserved'
  <2>1. CASE o = Failed
    BY <1>2, <1>7, <2>1 DEF Failed
  <2>2. CASE o # Failed
    <3>1. PICK f \in Find(tables, n, s) : RenamedAt(f, n, new, o)
      BY <2>2, RenamedTable
    <3>2. \A m \in Reserved : Folded[m] # Folded[new]
      BY <2>2 DEF Renamed, IsReserved
    <3> SUFFICES ASSUME NEW g \in Stores, NEW m \in Reserved PROVE o.tables[g][Folded[m]] = NoTable
      BY <1>7 DEF NoReserved
    <3>3. /\ Folded[m] \in FoldedTables /\ Folded[m] # Folded[new]
          /\ tables[g][Folded[m]] = NoTable
      BY <3>2, ReservedNames DEF NoReserved
    <3>4. o.tables[g][Folded[m]] = IF g # f \/ Folded[m] \notin {Folded[n], Folded[new]}
                                   THEN tables[g][Folded[m]]
                                   ELSE IF Folded[m] = Folded[n] THEN NoTable
                                   ELSE [name |-> new, columns |-> tables[f][Folded[n]].columns]
      BY <3>1, <3>3 DEF RenamedAt
    <3> QED
      BY ONLY <3>3, <3>4
  <2> QED
    BY <2>1, <2>2
<1> QED
  BY <1>2, <1>3, <1>4, <1>5, <1>6, <1>7
     DEF Next, vars, Open, AttachRefused, Exec, Attach, DetachDatabase, QueryOpens,
         QueryCloses, StatementUses, BeginTransaction, TransactionEnds

\* No command gives a table one of SQLite's own names, whatever its spelling.
THEOREM NoReservedTables == Spec => []NoReserved
<1>1. Init => NoReserved
  BY ReservedNames DEF Init, NoReserved
<1> QED
  BY <1>1, NextNoReserved, TypeCorrect, PTL DEF Spec

\* Two tables that differ only in how their name is spelled.
LEMMA Respelled ==
    ASSUME NEW t \in Table, NEW m, NEW n
    PROVE  [[name |-> m, columns |-> t.columns] EXCEPT !.name = n] = [t EXCEPT !.name = n]
  BY DEF Table

LEMMA RenameUndone ==
    ASSUME TypeOK, TypeOK', NoReserved, NEW old \in TableNames, NEW new \in TableNames,
           NEW s \in AnySchema, Exec(Renamed(old, new, s)), result' = "success"
    PROVE  \E o \in Renamed(new, old, s)' :
              /\ o.result = "success"
              /\ o.tables = [tables EXCEPT ![StoreOf(s)][Folded[old]].name = old]
<1>1. PICK q \in Renamed(old, new, s) : tables' = q.tables /\ q.result = "success"
  BY DEF Exec
<1>2. open' = open /\ attached' = attached
  BY DEF Exec
<1>3. q # Failed
  BY <1>1 DEF Failed
<1>4. PICK f \in Find(tables, old, s) : RenamedAt(f, old, new, q)
  BY <1>3, RenamedTable
<1>5. /\ open /\ Known(s) /\ f = StoreOf(s) /\ f \in Stores /\ Holds(tables, f, old)
      /\ s # ""
  <2>1. open /\ f \in Stores /\ Holds(tables, f, old)
    BY <1>3, <1>4, RenamedTable DEF RenamedAt
  <2>2. Master(s) = {StoreOf(s)} /\ Known(s) /\ f \in Master(s) /\ s # ""
    BY <1>4, InSchema
  <2> QED
    BY <2>1, <2>2
<1>6. Known(s)' /\ StoreOf(s)' = f
  BY <1>2, <1>5 DEF Known, StoreOf
<1>7. /\ CheckTablename(old) /\ CheckTablename(new) /\ ~IsReserved(old)
  BY <1>3, <1>5, HeldIsNotReserved DEF Renamed
<1>8. /\ Folded[old] \in FoldedTables /\ Folded[new] \in FoldedTables
      /\ Folded[old] # Folded[new] /\ ~Holds(tables, f, new)
  BY <1>4, Places DEF RenamedAt
<1> DEFINE t == tables'
           i == Folded[old]
           j == Folded[new]
           entry == tables[f][i]
<1>9. /\ t \in [Stores -> [FoldedTables -> Table \cup {NoTable}]]
      /\ \A g \in Stores, k \in FoldedTables :
            t[g][k] = IF g # f \/ k \notin {i, j} THEN tables[g][k]
                      ELSE IF k = i THEN NoTable ELSE [name |-> new, columns |-> entry.columns]
  BY <1>1, <1>4 DEF RenamedAt
<1>10. tables \in [Stores -> [FoldedTables -> Table \cup {NoTable}]] /\ entry \in Table
  BY <1>5, Entry DEF TypeOK, Catalogue
<1> HIDE DEF t, entry
<1> DEFINE back == [t[f][j] EXCEPT !.name = old]
           u == [t EXCEPT ![f][i] = back, ![f][j] = NoTable]
<1>11. t[f][i] = NoTable /\ t[f][j] = [name |-> new, columns |-> entry.columns]
  BY <1>5, <1>8, <1>9
<1>12. ~Holds(t, f, old) /\ Holds(t, f, new)
  <2> DEFINE x == t[f][j]
  <2>1. x = [name |-> new, columns |-> entry.columns] /\ NoTable = [name |-> "", columns |-> <<>>]
    BY <1>11 DEF NoTable
  <2> HIDE DEF x
  <2>2. x # NoTable
    <3>1. new # ""
      BY TablesAssumption
    <3> QED
      BY ONLY <2>1, <3>1
  <2> QED
    BY <1>11, <2>2 DEF Holds, x
<1>13. Done(u) \in Renamed(new, old, s)'
  <2>1. f \in Find(tables, new, s)'
    BY <1>5, <1>6, <1>12 DEF Find, t
  <2>2. Renamed(new, old, s)' =
           {Failed}' \cup
              {Done([t EXCEPT ![g][i] = [t[g][j] EXCEPT !.name = old], ![g][j] = NoTable]) :
                 g \in {g \in Find(tables, new, s)' : ~Holds(t, g, old)}}
    BY <1>2, <1>5, <1>7 DEF Renamed, t
  <2> QED
    BY <1>12, <2>1, <2>2
<1>14. back = [entry EXCEPT !.name = old]
  BY <1>10, <1>11, Respelled
<1>15. u = [tables EXCEPT ![f][i].name = old]
  <2> DEFINE E == Table \cup {NoTable}
             r == [tables EXCEPT ![f][i] = back]
             one == [t EXCEPT ![f][i] = back]
  <2>1. back \in E /\ NoTable \in E
    <3>1. entry \in [name : TableNames, columns : Seq(ColumnInfo) \ {<<>>}]
      BY <1>10 DEF Table
    <3>2. back \in [name : TableNames, columns : Seq(ColumnInfo) \ {<<>>}]
      BY ONLY <1>14, <3>1, old \in TableNames
    <3> QED
      BY <3>2 DEF Table
  <2>2. tables \in [Stores -> [FoldedTables -> E]] /\ t \in [Stores -> [FoldedTables -> E]]
    BY <1>9, <1>10
  <2>3. r = [tables EXCEPT ![f][i].name = old]
    BY <1>14 DEF entry
  <2>4. one = [t EXCEPT ![f][i] = back] /\ u = [one EXCEPT ![f][j] = NoTable]
    OBVIOUS
  <2>5. tables[f][j] = NoTable /\ i \in FoldedTables /\ j \in FoldedTables /\ i # j
    BY <1>8 DEF Holds
  <2> HIDE DEF E, r, u, one, back, i, j
  <2>6. /\ u \in [Stores -> [FoldedTables -> E]]
        /\ \A g \in Stores, k \in FoldedTables : u[g][k] = IF g = f /\ k = i THEN back
                                                      ELSE IF g = f /\ k = j THEN NoTable
                                                      ELSE t[g][k]
    <3>1. /\ one \in [Stores -> [FoldedTables -> E]]
          /\ \A g \in Stores, k \in FoldedTables :
                one[g][k] = IF g = f /\ k = i THEN back ELSE t[g][k]
      BY ONLY <1>5, <2>1, <2>2, <2>4, <2>5, Replaced
    <3>2. /\ u \in [Stores -> [FoldedTables -> E]]
          /\ \A g \in Stores, k \in FoldedTables :
                u[g][k] = IF g = f /\ k = j THEN NoTable ELSE one[g][k]
      BY ONLY <1>5, <2>1, <2>4, <2>5, <3>1, Replaced
    <3> QED
      BY ONLY <2>5, <3>1, <3>2
  <2>7. /\ r \in [Stores -> [FoldedTables -> E]]
        /\ \A g \in Stores, k \in FoldedTables :
              r[g][k] = IF g = f /\ k = i THEN back ELSE tables[g][k]
    <3>1. r = [tables EXCEPT ![f][i] = back]
      BY DEF r
    <3> QED
      BY ONLY <1>5, <2>1, <2>2, <2>5, <3>1, Replaced
  <2>8. \A g \in Stores, k \in FoldedTables : u[g][k] = r[g][k]
    <3> SUFFICES ASSUME NEW g \in Stores, NEW k \in FoldedTables PROVE u[g][k] = r[g][k]
      OBVIOUS
    <3>1. t[g][k] = IF g # f \/ k \notin {i, j} THEN tables[g][k]
                    ELSE IF k = i THEN NoTable ELSE [name |-> new, columns |-> entry.columns]
      BY <1>9 DEF i, j
    <3> QED
      BY <2>5, <2>6, <2>7, <3>1
  <2>9. u = r
    BY ONLY <2>6, <2>7, <2>8
  <2> QED
    BY <2>3, <2>9
<1> QED
  BY <1>5, <1>13, <1>15 DEF Done

\* Whatever else has happened, a rename can be undone, and undoing it restores the table.
THEOREM RenamesCanBeUndone == Spec => RenameCanBeUndone
<1>1. TypeOK /\ TypeOK' /\ NoReserved =>
        (result' = "success" /\ tables' # tables =>
           \A old, new \in TableNames, s \in AnySchema :
              Exec(Renamed(old, new, s)) =>
                 \E o \in Renamed(new, old, s)' :
                    /\ o.result = "success"
                    /\ o.tables = [tables EXCEPT ![StoreOf(s)][Folded[old]].name = old])
  BY RenameUndone
<1> QED
  BY <1>1, TypeCorrect, NoReservedTables, PTL DEF RenameCanBeUndone
=============================================================================
