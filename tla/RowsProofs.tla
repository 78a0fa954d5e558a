----------------------------- MODULE RowsProofs -----------------------------
(* Theorems about module Rows, for all sets of names and values.            *)
EXTENDS Rows, DatetimeProofs, FiniteSetTheorems, WellFoundedInduction, TLAPS

LEMMA EmptyFits == \A S : <<>> \in [{} -> S]
  OBVIOUS

\* A non-empty set of column numbers has a largest one: among the sets of numbers
\* above a member, a smallest one is empty.
LEMMA HasLargest ==
    ASSUME NEW n \in Nat, NEW T \in SUBSET (1..n), T # {}
    PROVE  \E x \in T : \A y \in T : y <= x
<1> DEFINE Above(i) == {j \in T : j > i}
           W == {Above(i) : i \in T}
<1>1. IsFiniteSet(T)
  <2>1. IsFiniteSet(1..n)
    BY FS_Interval
  <2> QED
    BY <2>1, FS_Subset
<1>2. IsWellFoundedOn(StrictSubsetOrdering(T), FiniteSubsetsOf(T))
  BY FS_StrictSubsetOrderingWellFounded
<1>3. W \subseteq FiniteSubsetsOf(T) /\ W # {}
  <2>1. \A i \in T : Above(i) \in SUBSET T /\ IsFiniteSet(Above(i))
    <3> TAKE i \in T
    <3>1. Above(i) \in SUBSET T
      OBVIOUS
    <3> QED
      BY ONLY <1>1, <3>1, FS_Subset
  <2> QED
    BY <2>1 DEF FiniteSubsetsOf
<1>4. PICK w \in W : \A v \in W : <<v, w>> \notin StrictSubsetOrdering(T)
  BY <1>2, <1>3, WFMin
<1>5. PICK x \in T : w = Above(x)
  OBVIOUS
<1>6. ASSUME NEW y \in T, y > x PROVE FALSE
  <2>1. Above(y) \in W /\ Above(y) \subseteq Above(x)
    <3>1. T \subseteq Int /\ y \in T /\ y > x
      BY <1>6
    <3>2. \A j \in Int : j > y => j > x
      BY <3>1
    <3> QED
      BY <3>1, <3>2
  <2>2. y \in Above(x) /\ y \notin Above(y)
    BY <1>6
  <2>3. <<Above(y), w>> \in StrictSubsetOrdering(T)
    BY <1>5, <2>1, <2>2 DEF StrictSubsetOrdering
  <2> QED
    BY <1>4, <2>1, <2>3
<1> QED
  BY <1>6

\* The columns before the first one without a name are columns of the result.
LEMMA NamedBounds ==
    ASSUME NEW S, NEW h \in Lists(S)
    PROVE  /\ Named(h) \subseteq DOMAIN h
           /\ Named(h) \in SUBSET (1..MaxColumns)
<1>1. PICK n \in 0..MaxColumns : h \in [1..n -> S]
  BY DEF Lists
<1> QED
  BY <1>1, RowsAssumption DEF Named

\* LastOf is the last column of its name.
LEMMA LastOfFacts ==
    ASSUME NEW S, NEW h \in Lists(S), NEW m, NEW k \in Named(h), h[k] = m
    PROVE  /\ LastOf(h, m) \in Named(h)
           /\ h[LastOf(h, m)] = m
           /\ \A j \in Named(h) : h[j] = m => j <= LastOf(h, m)
<1> DEFINE At == {i \in Named(h) : h[i] = m}
<1>1. MaxColumns \in Nat /\ At \in SUBSET (1..MaxColumns) /\ At # {}
  BY NamedBounds, RowsAssumption
<1>2. \E x \in At : \A y \in At : y <= x
  BY ONLY <1>1, HasLargest
<1>3. \E i \in Named(h) : h[i] = m /\ \A j \in Named(h) : h[j] = m => j <= i
  BY <1>2
<1> QED
  BY <1>3 DEF LastOf

LEMMA ColumnsOfType ==
    ASSUME NEW h \in Lists(Names \cup {NoName})
    PROVE  ColumnsOf(h) \in Partial(Names, 0..(MaxColumns - 1))
<1>1. \A m \in {h[i] : i \in Named(h)} : LastOf(h, m) - 1 \in 0..(MaxColumns - 1)
  BY LastOfFacts, NamedBounds, RowsAssumption
<1>2. {h[i] : i \in Named(h)} \in SUBSET Names
  <2> SUFFICES ASSUME NEW i \in Named(h) PROVE h[i] \in Names
    OBVIOUS
  <2>1. PICK n \in 0..MaxColumns : h \in [1..n -> Names \cup {NoName}]
    BY DEF Lists
  <2>2. i \in 1..n /\ h[i] # NoName
    BY <2>1 DEF Named
  <2> QED
    BY <2>1, <2>2
<1> DEFINE E == {h[i] : i \in Named(h)}
<1>3. [m \in E |-> LastOf(h, m) - 1] \in [E -> 0..(MaxColumns - 1)]
  BY <1>1
<1>4. ColumnsOf(h) \in [E -> 0..(MaxColumns - 1)]
  BY <1>3 DEF ColumnsOf
<1> HIDE DEF E
<1> QED
  BY <1>2, <1>4 DEF Partial, E

LEMMA TypesOfType ==
    ASSUME NEW h \in Lists(Names \cup {NoName}), NEW r \in [DOMAIN h -> Cells]
    PROVE  TypesOf(h, r) \in Partial(1..MaxColumns, ColumnType \ {"InvalidType"})
<1>1. \A i \in Named(h) : r[i].type \in ColumnType \ {"InvalidType"}
  BY NamedBounds DEF Cells, ColumnType
<1> QED
  BY <1>1, NamedBounds DEF TypesOf, Partial

LEMMA EmptyIsList == \A S : <<>> \in Lists(S)
<1> SUFFICES ASSUME NEW S PROVE <<>> \in [1..0 -> S]
  BY RowsAssumption DEF Lists
<1> QED
  BY EmptyFits

LEMMA EmptyIsPartial == \A D, S : <<>> \in Partial(D, S)
  BY EmptyFits DEF Partial
-----------------------------------------------------------------------------
(* The inductive invariant.                                                 *)

\* Only next() and exec() step onto a row.
RowsAreStepped == stage = "row" => stepped # "none"

Inv == TypeOK /\ InfoIsOfThisRow /\ RowsAreStepped

LEMMA InitInv == Init => Inv
  BY EmptyIsList, EmptyIsPartial DEF Init, Inv, TypeOK, InfoIsOfThisRow, RowsAreStepped

LEMMA NextInv == Inv /\ [Next]_vars => Inv'
<1> SUFFICES ASSUME Inv, [Next]_vars PROVE Inv'
  OBVIOUS
<1> USE DEF Inv, RowsAreStepped
<1>1. ASSUME NEW h \in Lists(Names \cup {NoName}), NEW r \in [DOMAIN h -> Cells],
             NextRow(h, r)
      PROVE  Inv'
  <2>1. r \in Lists(Cells)
    <3>1. PICK n \in 0..MaxColumns : h \in [1..n -> Names \cup {NoName}]
      BY DEF Lists
    <3> QED
      BY <3>1 DEF Lists
  <2>2. TypeOK'
    BY <1>1, <2>1, ColumnsOfType, TypesOfType
    DEF TypeOK, NextRow, InitColumnInfo, Answer
  <2>3. InfoIsOfThisRow'
    BY <1>1 DEF InfoIsOfThisRow, NextRow, InitColumnInfo
  <2> QED
    BY <1>1, <2>2, <2>3 DEF NextRow
<1>2. ASSUME NEW s \in {"done", "error"}, NextOff(s) PROVE Inv'
  BY <1>2, EmptyIsList DEF NextOff, TypeOK, InfoIsOfThisRow, Answer
<1>3. CASE NextRefused
  BY <1>3 DEF NextRefused, TypeOK, InfoIsOfThisRow
<1>7. ASSUME NEW h \in Lists(Names \cup {NoName}), NEW r \in [DOMAIN h -> Cells],
             ExecRow(h, r)
      PROVE  Inv'
  <2>1. r \in Lists(Cells)
    <3>1. PICK n \in 0..MaxColumns : h \in [1..n -> Names \cup {NoName}]
      BY DEF Lists
    <3> QED
      BY <3>1 DEF Lists
  <2> QED
    BY <1>7, <2>1, EmptyIsPartial
    DEF TypeOK, InfoIsOfThisRow, ExecRow, ClearColumnInfo, Answer
<1>8. ASSUME NEW s \in {"done", "error"}, ExecOff(s) PROVE Inv'
  BY <1>8, EmptyIsList, EmptyIsPartial
  DEF ExecOff, ClearColumnInfo, TypeOK, InfoIsOfThisRow, Answer
<1>9. CASE ExecRefused
  BY <1>9, EmptyIsList, EmptyIsPartial
  DEF ExecRefused, ClearColumnInfo, TypeOK, InfoIsOfThisRow
<1>4. CASE Reset
  BY <1>4, EmptyIsList, EmptyIsPartial
  DEF Reset, ClearColumnInfo, TypeOK, InfoIsOfThisRow
<1>5. CASE Close
  BY <1>5, EmptyIsList, EmptyIsPartial
  DEF Close, ClearColumnInfo, TypeOK, InfoIsOfThisRow
<1>6. CASE UNCHANGED vars
  BY <1>6 DEF vars, TypeOK, InfoIsOfThisRow
<1> QED
  BY <1>1, <1>2, <1>3, <1>4, <1>5, <1>6, <1>7, <1>8, <1>9 DEF Next

THEOREM Invariance == Spec => []Inv
<1>1. Init => Inv
  BY InitInv
<1>2. Inv /\ [Next]_vars => Inv'
  BY NextInv
<1> QED
  BY <1>1, <1>2, PTL DEF Spec
\* Whatever the results hold, the query's state is of its types.
THEOREM TypeCorrect == Spec => []TypeOK
<1>1. Inv => TypeOK
  BY DEF Inv
<1> QED
  BY <1>1, Invariance, PTL

\* The column info is that of the row next() stands on, and none where exec() left the
\* query, after any order of calls and any change of the columns between executions.
THEOREM InfoFits == Spec => []InfoIsOfThisRow
<1>1. Inv => InfoIsOfThisRow
  BY DEF Inv
<1> QED
  BY <1>1, Invariance, PTL
-----------------------------------------------------------------------------
(* What the getters answer.                                                 *)

LEMMA SmallRemainder ==
    ASSUME NEW a \in Int, NEW m \in Int, 0 <= a, a < m
    PROVE  a % m = a
  BY SMT

\* A multiple of n from 0 up to n is 0.
LEMMA MultipleGrows ==
    ASSUME NEW n \in Nat \ {0}, NEW k \in Int, 0 <= n * k, n * k < n
    PROVE  k = 0
<1>1. CASE k >= 1
  <2>1. PICK j \in Nat : k = j + 1
    BY <1>1
  <2>2. n * k = n * j + n
    BY <2>1, SMT
  <2>3. n * j >= 0
    BY <2>1, SMT
  <2> QED
    BY <2>2, <2>3, SMT
<1>2. CASE k <= -1
  <2>1. PICK j \in Nat : k = -j - 1
    BY <1>2
  <2>2. n * k = -(n * j) - n
    BY <2>1, SMT
  <2>3. n * j >= 0
    BY <2>1, SMT
  <2> QED
    BY <2>2, <2>3, SMT
<1> QED
  BY <1>1, <1>2

\* A multiple of n leaves no remainder.
LEMMA MultipleHasNoRest ==
    ASSUME NEW n \in Nat \ {0}, NEW q \in Int
    PROVE  (n * q) % n = 0
<1>1. PICK p \in Int, d \in Int, r \in Int :
        /\ p = n * q /\ d = p \div n /\ r = p % n
        /\ p = n * d + r /\ 0 <= r /\ r < n
  BY SMT
<1>2. n * (q - d) = n * q - n * d
  BY SMT
<1>3. n * (q - d) = r
  BY <1>1, <1>2, SMT
<1>4. q - d = 0
  BY <1>1, <1>3, MultipleGrows
<1>5. q = d
  BY <1>4
<1>6. r = 0
  BY <1>1, <1>3, <1>5, SMT
<1> QED
  BY <1>1, <1>6

\* The int that an integer is read as is the one with the same low bits.
LEMMA Wraps ==
    ASSUME NEW v \in Int, NEW w \in Int,
           w = ((v + HalfWord) % (2 * HalfWord)) - HalfWord
    PROVE  w \in -HalfWord..(HalfWord - 1) /\ (v - w) % (2 * HalfWord) = 0
<1>1. PICK n \in Nat \ {0} : n = 2 * HalfWord /\ n = HalfWord + HalfWord
  BY RowsAssumption
<1>2. PICK r \in Int, q \in Int, p \in Int :
        /\ r = (v + HalfWord) % n /\ 0 <= r /\ r < n
        /\ p = n * q /\ v + HalfWord = p + r
  <2>1. PICK x \in Int : x = v + HalfWord
    BY RowsAssumption
  <2>2. PICK q \in Int, r \in Int :
          q = x \div n /\ r = x % n /\ x = n * q + r /\ 0 <= r /\ r < n
    BY SMT
  <2>3. PICK p \in Int : p = n * q
    BY SMT
  <2>4. r = (v + HalfWord) % n /\ v + HalfWord = p + r
    BY <2>1, <2>2, <2>3, Zenon
  <2> QED
    BY <2>2, <2>3, <2>4, Zenon
<1>3. w = r - HalfWord
  BY <1>1, <1>2
<1>4. v - w = p
  BY <1>2, <1>3, RowsAssumption
<1>5. p % n = 0
  BY <1>2, MultipleHasNoRest
<1> QED
  BY <1>1, <1>2, <1>3, <1>4, <1>5, RowsAssumption

\* An integer that fits an int is read as it is.
LEMMA FitsInt ==
    ASSUME NEW v \in Int, v \in -HalfWord..(HalfWord - 1)
    PROVE  ((v + HalfWord) % (2 * HalfWord)) - HalfWord = v
  BY SmallRemainder, RowsAssumption

\* On a row the column info is that of the columns a getter can see.
LEMMA SeenInfo ==
    ASSUME Inv, stage = "row"
    PROVE  /\ Seen \subseteq DOMAIN row
           /\ types = [i \in Seen |-> row[i].type]
           /\ DOMAIN columns = {header[i] : i \in Seen}
           /\ \A m \in DOMAIN columns :
                 stepped = "next" /\ columns[m] = LastOf(header, m) - 1
<1>1. CASE stepped = "next"
  <2>1. columns = ColumnsOf(header) /\ types = TypesOf(header, row) /\ Seen = Named(header)
    BY <1>1 DEF Inv, InfoIsOfThisRow, Seen
  <2> QED
    BY <1>1, <2>1 DEF ColumnsOf, TypesOf, Named, Inv, TypeOK
<1>2. CASE stepped = "exec"
  <2>1. columns = <<>> /\ types = <<>> /\ Seen = {}
    BY <1>2 DEF Inv, InfoIsOfThisRow, Seen
  <2>2. DOMAIN columns = {} /\ {header[i] : i \in Seen} = {} /\ Seen \subseteq DOMAIN row
    BY <2>1
  <2>3. types = [i \in Seen |-> row[i].type]
    <3>1. \A S : S = {} => <<>> = [i \in S |-> row[i].type]
      OBVIOUS
    <3> QED
      BY <2>1, <3>1
  <2> QED
    BY <2>2, <2>3
<1>3. CASE stepped = "none"
  BY <1>3 DEF Inv, RowsAreStepped
<1> QED
  BY <1>1, <1>2, <1>3 DEF Inv, TypeOK

\* On a row a typed getter gives the cell of the right type or its error value; the
\* type check leaves nothing for SQLite to convert.
LEMMA StaticValueOnRow ==
    ASSUME Inv, stage = "row", NEW i \in DOMAIN row,
           NEW type \in {"Integer", "Text", "Float"}, NEW null, NEW err
    PROVE  StaticValueForColumnIndex(i - 1, type, null, err) =
             IF i \in Seen /\ row[i].type = type THEN row[i].value ELSE err
<1>1. i \in Int /\ (i - 1) + 1 = i
  BY DEF Inv, TypeOK, Lists
<1>2. types = [j \in Seen |-> row[j].type]
  BY SeenInfo
<1>3. row[i].type \in {"Integer", "Text", "Float", "Blob", "Null"}
  <2>1. row[i] \in Cells
    BY DEF Inv, TypeOK, Lists
  <2> QED
    BY <2>1 DEF Cells
<1>4. TypeForColumnIndex(i - 1) =
        IF i \in Seen THEN row[i].type ELSE "InvalidType"
  BY <1>1, <1>2 DEF TypeForColumnIndex
<1> QED
  BY <1>1, <1>3, <1>4 DEF StaticValueForColumnIndex, SqliteColumn

\* Off a row it gives its error value or SQLite's null value.
LEMMA StaticValueOffRow ==
    ASSUME stage # "row", NEW idx, NEW type, NEW null, NEW err
    PROVE  StaticValueForColumnIndex(idx, type, null, err) \in {null, err}
  BY DEF StaticValueForColumnIndex, SqliteColumn

LEMMA TextOnRow ==
    ASSUME Inv, stage = "row", NEW i \in DOMAIN row
    PROVE  TextForColumnIndex(i - 1) =
             IF i \in Seen /\ row[i].type = "Text" THEN row[i].value ELSE EmptyText
<1>1. CstrForColumnIndex(i - 1) =
        IF i \in Seen /\ row[i].type = "Text" THEN row[i].value ELSE NoText
  BY StaticValueOnRow DEF CstrForColumnIndex
<1>2. row[i].type = "Text" => row[i].value # NoText
  <2>1. row[i] \in Cells
    BY DEF Inv, TypeOK, Lists
  <2> QED
    BY <2>1, RowsAssumption DEF Cells
<1> QED
  BY <1>1, <1>2 DEF TextForColumnIndex

\* Every getter reads the row the query stands on, and only cells of its own type.
THEOREM GettersReadRow == Spec => []GettersReadTheRow
<1>1. Inv => GettersReadTheRow
  <2> SUFFICES ASSUME Inv, stage = "row", NEW i \in DOMAIN row
               PROVE  LET seen(type) == i \in Seen /\ row[i].type = type
                      IN  /\ Int64ForColumnIndex(i - 1) =
                               IF seen("Integer") THEN row[i].value ELSE 0
                          /\ TextForColumnIndex(i - 1) =
                               IF seen("Text") THEN row[i].value ELSE EmptyText
                          /\ FloatForColumnIndex(i - 1) =
                               IF seen("Float") THEN row[i].value ELSE ZeroFloat
    BY DEF GettersReadTheRow
  <2> QED
    BY StaticValueOnRow, TextOnRow DEF Int64ForColumnIndex, FloatForColumnIndex
<1> QED
  BY <1>1, Invariance, PTL

LEMMA EmptyTextTime == Str2tm(<<>>) = {-1}
<1>1. Field(<<>>, 1) = 0
  BY DEF Field
<1>2. ~InRange(<<>>)
  BY <1>1 DEF InRange
<1> QED
  BY <1>2 DEF Str2tm

\* Off a row nothing is read, whatever column info is left over.
THEOREM OffRowSafe == Spec => []OffRowNothingIsRead
<1>1. Inv => OffRowNothingIsRead
  <2> SUFFICES ASSUME Inv, stage # "row", NEW idx \in -1..MaxColumns
               PROVE  /\ Int64ForColumnIndex(idx) = 0
                      /\ TextForColumnIndex(idx) = EmptyText
                      /\ FloatForColumnIndex(idx) = ZeroFloat
                      /\ DatetimeForColumnIndex(idx) \subseteq {-1, 0, FloatTime[ZeroFloat]}
                      /\ stage \in {"null", "ready"} => DatetimeForColumnIndex(idx) = {-1}
    BY DEF OffRowNothingIsRead
  <2>1. /\ Int64ForColumnIndex(idx) = 0
        /\ TextForColumnIndex(idx) = EmptyText
        /\ FloatForColumnIndex(idx) = ZeroFloat
    BY StaticValueOffRow
    DEF Int64ForColumnIndex, TextForColumnIndex, CstrForColumnIndex, FloatForColumnIndex
  <2>2. IntForColumnIndex(idx) = 0
    <3>1. 0 \in -HalfWord..(HalfWord - 1)
      BY RowsAssumption
    <3> QED
      BY <2>1, <3>1, FitsInt DEF IntForColumnIndex
  <2>3. Str2tm(Fields[EmptyText]) = {-1}
    BY EmptyTextTime, FieldsAssumption
  <2>4. DatetimeForColumnIndex(idx) \in {{-1}, {0}, {FloatTime[ZeroFloat]}}
    BY <2>1, <2>2, <2>3 DEF DatetimeForColumnIndex, TimesForColumnIndex
  <2>5. ASSUME stage \in {"null", "ready"} PROVE DatetimeForColumnIndex(idx) = {-1}
    <3>1. TypeForColumn(idx) = "InvalidType"
      BY <2>5 DEF Inv, InfoIsOfThisRow, TypeForColumn, TypeForColumnIndex
    <3> QED
      BY <3>1 DEF DatetimeForColumnIndex, TimesForColumnIndex
  <2> QED
    BY <2>1, <2>4, <2>5
<1> QED
  BY <1>1, Invariance, PTL

\* A name stands for the last column that can be seen under it.
THEOREM NamesFindLast == Spec => []NamesFindTheirLastColumn
<1>1. Inv => NamesFindTheirLastColumn
  <2> SUFFICES ASSUME Inv, stage = "row", NEW m \in Names
               PROVE  LET at == {i \in Seen : header[i] = m}
                      IN  IF at = {}
                          THEN /\ ColumnIndexForName(m) = -1
                               /\ TypeForName(m) = "InvalidType"
                               /\ Int64ForName(m) = 0 /\ IntForName(m) = 0
                               /\ ~BooleanForName(m)
                               /\ TextForName(m) = EmptyText
                               /\ FloatForName(m) = ZeroFloat
                               /\ DatetimeForName(m) = {-1}
                          ELSE /\ ColumnIndexForName(m) + 1 \in at
                               /\ \A i \in at : i <= ColumnIndexForName(m) + 1
    BY DEF NamesFindTheirLastColumn
  <2> DEFINE at == {i \in Seen : header[i] = m}
  <2>1. types \in Partial(1..MaxColumns, ColumnType)
    BY DEF Inv, TypeOK, Partial
  <2>2. header \in Lists(Names \cup {NoName}) /\ MaxColumns \in Nat
    BY RowsAssumption DEF Inv, TypeOK
  <2>3. DOMAIN columns = {header[i] : i \in Seen}
    BY SeenInfo
  <2>4. CASE at = {}
    <3>1. ColumnIndexForName(m) = -1
      BY <2>3, <2>4 DEF ColumnIndexForName
    <3>2. TypeForColumnIndex(-1) = "InvalidType"
      BY <2>1, <2>2 DEF TypeForColumnIndex, Partial
    <3>3. TypeForColumn(-1) = "InvalidType"
      BY <3>2 DEF TypeForColumn
    <3>4. /\ Int64ForColumnIndex(-1) = 0
          /\ TextForColumnIndex(-1) = EmptyText
          /\ FloatForColumnIndex(-1) = ZeroFloat
      BY <3>2 DEF Int64ForColumnIndex, TextForColumnIndex, CstrForColumnIndex,
                  FloatForColumnIndex, StaticValueForColumnIndex
    <3>5. IntForColumnIndex(-1) = 0
      <4>1. 0 \in -HalfWord..(HalfWord - 1)
        BY RowsAssumption
      <4> QED
        BY <3>4, <4>1, FitsInt DEF IntForColumnIndex
    <3>6. ~BooleanForColumnIndex(-1)
      BY <3>5 DEF BooleanForColumnIndex
    <3>7. DatetimeForColumnIndex(-1) = {-1}
      BY <3>3 DEF DatetimeForColumnIndex, TimesForColumnIndex
    <3> QED
      BY <2>4, <3>1, <3>3, <3>4, <3>5, <3>6, <3>7
      DEF TypeForName, Int64ForName, IntForName, BooleanForName, TextForName,
          FloatForName, DatetimeForName
  <2>5. CASE at # {}
    <3>1. PICK k \in Seen : header[k] = m
      BY <2>5
    <3>2. m \in DOMAIN columns /\ stepped = "next" /\ Seen = Named(header)
      BY <2>3, <3>1, SeenInfo DEF Seen
    <3>5. ColumnIndexForName(m) = LastOf(header, m) - 1
      BY <3>2, SeenInfo DEF ColumnIndexForName
    <3>3. /\ LastOf(header, m) \in at
          /\ \A i \in at : i <= LastOf(header, m)
      BY <2>2, <3>1, <3>2, LastOfFacts
    <3>4. LastOf(header, m) \in Int
      BY <2>2, <3>2, <3>3, NamedBounds
    <3> QED
      BY <2>5, <3>3, <3>4, <3>5
  <2> QED
    BY <2>4, <2>5
<1> QED
  BY <1>1, Invariance, PTL

\* next() answers success exactly on a row.
THEOREM NextIsARow == Spec => NextMeansRow
<1>1. Inv /\ [Next]_vars => [stepped' = "next" \/ NextRefused
                               => (result' = "success" <=> stage' = "row")]_vars
  <2>1. ASSUME ExecRefused, NextRefused PROVE result' = "error" /\ stage' # "row"
    BY <2>1 DEF ExecRefused, NextRefused
  <2> QED
    BY <2>1 DEF Next, NextRow, NextOff, NextRefused, ExecRow, ExecOff, ExecRefused, Reset, Close,
                Answer, SuccessCodes, vars
<1> QED
  BY <1>1, Invariance, PTL DEF Spec, NextMeansRow
-----------------------------------------------------------------------------
(* Columns with names of their own.                                         *)

\* The header of a row whose columns all have names of their own.
Distinct ==
    /\ stage = "row" /\ stepped = "next"
    /\ Named(header) = DOMAIN header
    /\ \A i, j \in DOMAIN header : header[i] = header[j] => i = j

\* The columns are counted right.
LEMMA DistinctCount ==
    ASSUME Inv, Distinct
    PROVE  \E n \in 0..MaxColumns : DOMAIN row = 1..n /\ ColumnCount = n
<1>1. PICK n \in 0..MaxColumns : header \in [1..n -> Names \cup {NoName}]
  BY DEF Inv, TypeOK, Lists
<1>2. n \in Nat /\ DOMAIN row = 1..n
  BY <1>1, RowsAssumption DEF Inv, TypeOK
<1> DEFINE E == {header[i] : i \in 1..n}
<1>3. DOMAIN columns = E
  BY <1>1 DEF Inv, InfoIsOfThisRow, Distinct, ColumnsOf
<1>4. header \in Bijection(1..n, E)
  BY <1>1 DEF Distinct, Bijection, Injection, Surjection, IsInjective
<1>5. Cardinality(E) = Cardinality(1..n)
  <2>1. IsFiniteSet(1..n)
    BY <1>2, FS_Interval
  <2>2. ExistsBijection(1..n, E)
    BY ONLY <1>4 DEF ExistsBijection
  <2> QED
    BY ONLY <2>1, <2>2, FS_Bijection
<1>6. Cardinality(1..n) = n
  BY <1>2, FS_Interval
<1> QED
  BY <1>2, <1>3, <1>5, <1>6 DEF ColumnCount

\* Where no two columns share a name, indices, types and times are complete.
THEOREM DistinctComplete == Spec => []DistinctColumnsAreComplete
<1>1. Inv => DistinctColumnsAreComplete
  <2> SUFFICES ASSUME Inv, Distinct
               PROVE  /\ \A idx \in -1..MaxColumns :
                            AvailableIndex(idx) <=> idx + 1 \in DOMAIN row
                      /\ \A i \in DOMAIN row :
                            /\ TypeForColumn(i - 1) = row[i].type
                            /\ row[i].type = "Integer" =>
                                  \E v \in -HalfWord..(HalfWord - 1) :
                                     /\ (row[i].value - v) % (2 * HalfWord) = 0
                                     /\ DatetimeForColumnIndex(i - 1) = {v}
                                     /\ BooleanForColumnIndex(i - 1) <=> v # 0
                            /\ row[i].type = "Text"
                                 => DatetimeForColumnIndex(i - 1) = Str2tm(Fields[row[i].value])
    BY DEF DistinctColumnsAreComplete, Distinct
  <2>1. PICK n \in 0..MaxColumns : DOMAIN row = 1..n /\ ColumnCount = n
    BY DistinctCount
  <2>2. n \in Nat /\ MaxColumns \in Nat
    BY RowsAssumption
  <2>3. \A idx \in Int : AvailableIndex(idx) <=> idx + 1 \in DOMAIN row
    BY <2>1, <2>2 DEF AvailableIndex
  <2>4. ASSUME NEW i \in DOMAIN row
        PROVE  /\ TypeForColumn(i - 1) = row[i].type
               /\ row[i].type = "Integer" =>
                     \E v \in -HalfWord..(HalfWord - 1) :
                        /\ (row[i].value - v) % (2 * HalfWord) = 0
                        /\ DatetimeForColumnIndex(i - 1) = {v}
                        /\ BooleanForColumnIndex(i - 1) <=> v # 0
               /\ row[i].type = "Text"
                    => DatetimeForColumnIndex(i - 1) = Str2tm(Fields[row[i].value])
    <3>1. i \in Int /\ i - 1 \in Int /\ (i - 1) + 1 = i
      BY <2>1, <2>2
    <3>2. i \in Named(header) /\ i \in Seen
      BY DEF Distinct, Inv, TypeOK, Seen
    <3>3. TypeForColumn(i - 1) = row[i].type
      BY <2>3, <3>1, <3>2
      DEF TypeForColumn, TypeForColumnIndex, Inv, InfoIsOfThisRow, TypesOf, Distinct
    <3>4. ASSUME row[i].type = "Integer"
          PROVE  \E v \in -HalfWord..(HalfWord - 1) :
                    /\ (row[i].value - v) % (2 * HalfWord) = 0
                    /\ DatetimeForColumnIndex(i - 1) = {v}
                    /\ BooleanForColumnIndex(i - 1) <=> v # 0
      <4> DEFINE v == IntForColumnIndex(i - 1)
      <4>1. Int64ForColumnIndex(i - 1) = row[i].value
        BY <3>2, <3>4, StaticValueOnRow DEF Int64ForColumnIndex, Distinct
      <4>2. row[i].value \in Int
        <5>1. row[i] \in Cells
          BY DEF Inv, TypeOK, Lists
        <5> QED
          BY <3>4, <5>1, RowsAssumption DEF Cells
      <4>3. v = ((row[i].value + HalfWord) % (2 * HalfWord)) - HalfWord
        BY <4>1 DEF IntForColumnIndex
      <4>4. v \in Int
        BY <4>2, <4>3, RowsAssumption
      <4>5. v \in -HalfWord..(HalfWord - 1) /\ (row[i].value - v) % (2 * HalfWord) = 0
        BY ONLY <4>2, <4>3, <4>4, Wraps
      <4>6. DatetimeForColumnIndex(i - 1) = {v}
        BY <3>3, <3>4 DEF DatetimeForColumnIndex, TimesForColumnIndex
      <4>7. BooleanForColumnIndex(i - 1) <=> v # 0
        BY DEF BooleanForColumnIndex
      <4> QED
        BY <4>5, <4>6, <4>7
    <3>5. ASSUME row[i].type = "Text"
          PROVE  DatetimeForColumnIndex(i - 1) = Str2tm(Fields[row[i].value])
      <4>1. TextForColumnIndex(i - 1) = row[i].value
        BY <3>2, <3>5, TextOnRow DEF Distinct
      <4>2. DatetimeForColumnIndex(i - 1) = Str2tm(Fields[TextForColumnIndex(i - 1)])
        <5>1. TypeForColumn(i - 1) = "Text" /\ "Text" # "Integer" /\ "Text" # "Float"
          BY <3>3, <3>5
        <5> QED
          BY <5>1 DEF DatetimeForColumnIndex, TimesForColumnIndex
      <4> QED
        BY <4>1, <4>2
    <3> QED
      BY <3>3, <3>4, <3>5
  <2>5. -1..MaxColumns \subseteq Int
    BY <2>2
  <2> QED
    BY <2>3, <2>4, <2>5
<1> QED
  BY <1>1, Invariance, PTL

\* Whatever text a visible column holds, its time is what str2tm makes of it.
LEMMA TextTime ==
    ASSUME Inv, stage = "row", NEW i \in TextColumns, NEW text
    PROVE  ReadBack(i, text) = Str2tm(text)
<1> i \in DOMAIN row /\ i \in Seen /\ row[i].type = "Text" /\ AvailableIndex(i - 1)
  BY SeenInfo DEF TextColumns
<1>1. i \in Int /\ (i - 1) + 1 = i
  BY DEF Inv, TypeOK, Lists
<1>2. TypeForColumn(i - 1) = "Text"
  BY <1>1, SeenInfo DEF TypeForColumn, TypeForColumnIndex
<1>3. TextForColumnIndex(i - 1) = row[i].value
  BY TextOnRow
<1>4. "Text" # "Integer" /\ "Text" # "Float"
  OBVIOUS
<1>5. row[i].value \in DOMAIN Fields
  <2>1. row[i] \in Cells
    BY DEF Inv, TypeOK, Lists
  <2> QED
    BY <2>1, FieldsAssumption DEF Cells
<1>6. [Fields EXCEPT ![row[i].value] = text][row[i].value] = text
  BY <1>5, FieldsAssumption
<1> QED
  BY ONLY <1>2, <1>3, <1>4, <1>6 DEF TimesForColumnIndex, ReadBack

\* In a zone with one offset what datetimeNow stored is answered as the moment it was
\* stored, for every moment and every such zone.
THEOREM StoredTimes == Spec => []StoredTimesReadBack
<1>1. Inv => StoredTimesReadBack
  <2> SUFFICES ASSUME Inv, stage = "row", \A a, b \in Offsets : a = b,
                      NEW i \in TextColumns, NEW m \in Moments, NEW ahead \in Offsets
               PROVE  LET local == m + ahead
                      IN  /\ ReadBack(i, DatetimeText(local)) = {m}
                          /\ ReadBack(i, DateText(local)) = {m - (local % DaySeconds)}
                          /\ ReadBack(i, ReadOfTimeText(local)) = {-1}
    BY DEF StoredTimesReadBack
  <2> DEFINE local == m + ahead
  <2>1. m \in Int /\ ahead \in Int /\ local % DaySeconds \in Int
    BY DatetimeAssumption, SMT DEF DaySeconds
  <2>2. /\ Str2tm(DatetimeText(local)) = {local - o : o \in Offsets}
        /\ Str2tm(DateText(local)) = {local - (local % DaySeconds) - o : o \in Offsets}
        /\ Str2tm(ReadOfTimeText(local)) = {-1}
    BY TimesReadBack
  <2>3. Offsets = {ahead}
    OBVIOUS
  <2>4. {local - o : o \in Offsets} = {local - ahead}
        /\ {local - (local % DaySeconds) - o : o \in Offsets}
             = {local - (local % DaySeconds) - ahead}
    BY ONLY <2>3, Zenon
  <2>5. local - ahead = m /\ local - (local % DaySeconds) - ahead = m - (local % DaySeconds)
    BY ONLY <2>1, SMT
  <2>6. /\ Str2tm(DatetimeText(local)) = {m}
        /\ Str2tm(DateText(local)) = {m - (local % DaySeconds)}
        /\ Str2tm(ReadOfTimeText(local)) = {-1}
    BY <2>2, <2>4, <2>5, Zenon
  <2> HIDE DEF local
  <2>7. /\ ReadBack(i, DatetimeText(local)) = {m}
        /\ ReadBack(i, DateText(local)) = {m - (local % DaySeconds)}
        /\ ReadBack(i, ReadOfTimeText(local)) = {-1}
    BY <2>6, TextTime
  <2> QED
    BY <2>7 DEF local
<1> QED
  BY <1>1, Invariance, PTL
=============================================================================
