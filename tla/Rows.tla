-------------------------------- MODULE Rows --------------------------------
(***************************************************************************)
(* One Query and the result set it walks over: next(), reset(), close() and *)
(* the exec() it inherits from Cursor, of Query.cpp, Cursor.cpp and         *)
(* Core/Statement.cpp, the column info they keep, and the getters that      *)
(* answer from it.                                                          *)
(*                                                                          *)
(* SQLite gives every cell a type of its own, compiles the command again    *)
(* when the schema has changed since the last execution, and so may answer  *)
(* every execution with other columns and every row with other types.       *)
(* Column indices start at 0, as in the code; sequences start at 1.  A       *)
(* definition X_Y is X with one plausible slip, Y, in it.                   *)
(***************************************************************************)
EXTENDS Datetime, FiniteSets

CONSTANTS
    Names,          \* names a column can have
    NoName,         \* a column without a name, as in SELECT 1 AS "", or whose name
                    \* SQLite has no memory for
    MaxColumns,     \* bound on the columns of a result
    Integers,       \* the integers stored in the database, of any width
    HalfWord,       \* an int is -HalfWord .. HalfWord - 1
    Texts, Floats,  \* the other values stored there
    EmptyText,      \* USQL_ERROR_TEXT
    ZeroFloat,      \* USQL_ERROR_FLOAT
    Fields,         \* the numbers sscanf reads of a text
    FloatTime,      \* the time_t of a Julian day
    NoText,         \* the null pointer
    Mistyped        \* what SQLite makes of a cell of another type than asked for

ASSUME RowsAssumption ==
    /\ NoName \notin Names
    /\ MaxColumns \in Nat
    /\ Integers \subseteq Int
    /\ HalfWord \in Nat \ {0}
    /\ EmptyText \in Texts /\ ZeroFloat \in Floats
    /\ FloatTime \in [Floats -> Int]
    /\ NoText \notin Texts

ASSUME FieldsAssumption == Fields \in [Texts -> Seq(Int)] /\ Fields[EmptyText] = <<>>

VARIABLES
    stage,      \* what the sqlite3_stmt is doing: "null" if there is none, "ready",
                \* on a "row", "done", or stopped by an "error"
    header,     \* the columns of the execution that stands on a row
    row,        \* the cells SQLite stands on, empty off a row
    columns,    \* Statement::_columns
    types,      \* Statement::_columnTypes
    result,     \* the Result of the last call, as isSuccess sees it
    stepped     \* history, read by the properties alone: the call that stepped
                \* since the last reset, "next" or "exec", or "none"

vars == <<stage, header, row, columns, types, result, stepped>>

ColumnType == {"InvalidType", "Integer", "Text", "Float", "Blob", "Null"}

Cells ==
    [type : {"Integer"}, value : Integers]
        \cup [type : {"Text"}, value : Texts]
        \cup [type : {"Float"}, value : Floats]
        \cup [type : {"Blob", "Null"}, value : {EmptyText}]

Lists(S) == UNION {[1..n -> S] : n \in 0..MaxColumns}
Partial(D, S) == UNION {[E -> S] : E \in SUBSET D}

TypeOK ==
    /\ stage \in {"null", "ready", "row", "done", "error"}
    /\ header \in Lists(Names \cup {NoName})
    /\ row \in Lists(Cells)
    /\ DOMAIN row = DOMAIN header
    /\ columns \in Partial(Names, 0..(MaxColumns - 1))
    /\ types \in Partial(1..MaxColumns, ColumnType \ {"InvalidType"})
    /\ result \in {"success", "error"}
    /\ stepped \in {"none", "next", "exec"}

\* The constructor resets the statement once, which compiles it if SQLite can.
Init ==
    /\ stage \in {"null", "ready"}
    /\ header = <<>> /\ row = <<>>
    /\ columns = <<>> /\ types = <<>>
    /\ result = "success"
    /\ stepped = "none"
-----------------------------------------------------------------------------
(* Result and column info.                                                  *)

SuccessCodes_QueryAsStep(type) == IF type = "Normal" THEN {"OK"} ELSE {"ROW", "DONE"}

\* The codes that each kind of Result takes for success.
SuccessCodes(type) ==
    CASE type = "Normal" -> {"OK"}
      [] type = "Step" -> {"ROW", "DONE"}
      [] OTHER -> {"ROW"}

Answer(type, code) == IF code \in SuccessCodes(type) THEN "success" ELSE "error"

\* initColumnInfo returns at the first column without a name.
Named(h) == {i \in DOMAIN h : \A j \in 1..i : h[j] # NoName}

LastOf_First(h, m) ==
    CHOOSE i \in Named(h) : h[i] = m /\ \A j \in Named(h) : h[j] = m => i <= j

\* A later column of the same name overwrites the map entry of an earlier one.
LastOf(h, m) ==
    CHOOSE i \in Named(h) : h[i] = m /\ \A j \in Named(h) : h[j] = m => j <= i

ColumnsOf_FromOne(h) == [m \in {h[i] : i \in Named(h)} |-> LastOf(h, m)]

ColumnsOf(h) == [m \in {h[i] : i \in Named(h)} |-> LastOf(h, m) - 1]

TypesOf(h, r) == [i \in Named(h) |-> r[i].type]

ClearColumnInfo == columns' = <<>> /\ types' = <<>>

InitColumnInfo_OncePerExecution(h, r) ==
    IF stage = "row"
    THEN UNCHANGED <<columns, types>>
    ELSE columns' = ColumnsOf(h) /\ types' = TypesOf(h, r)

InitColumnInfo(h, r) == columns' = ColumnsOf(h) /\ types' = TypesOf(h, r)
-----------------------------------------------------------------------------
(* next(), exec(), reset() and close().                                     *)

\* sqlite3_step answers ROW.  A statement that was ready, at its end or stopped has
\* begun a new execution; one on a row goes on with the columns it has.
NextRow(h, r) ==
    /\ stage # "null"
    /\ stage = "row" => h = header
    /\ h # <<>> /\ DOMAIN r = DOMAIN h
    /\ stage' = "row" /\ header' = h /\ row' = r
    /\ result' = Answer("Query", "ROW")
    /\ InitColumnInfo(h, r)
    /\ stepped' = "next"

\* It answers DONE or an error: the column info stays as the last row left it.
NextOff(s) ==
    /\ stage # "null"
    /\ stage' = s
    /\ header' = <<>> /\ row' = <<>>
    /\ result' = Answer("Query", IF s = "done" THEN "DONE" ELSE "ERROR")
    /\ stepped' = "next"
    /\ UNCHANGED <<columns, types>>

\* next() without a statement.
NextRefused ==
    /\ stage = "null"
    /\ result' = "error"
    /\ UNCHANGED <<stage, header, row, columns, types, stepped>>

\* Statement::step: a reset() that succeeds, and one sqlite3_step.  It may stand on the
\* first row of a new execution, and leaves the column info cleared there.
ExecRow(h, r) ==
    /\ stage # "error"
    /\ h # <<>> /\ DOMAIN r = DOMAIN h
    /\ stage' = "row" /\ header' = h /\ row' = r
    /\ result' = Answer("Step", "ROW")
    /\ ClearColumnInfo
    /\ stepped' = "exec"

\* The one step answers DONE or an error.
ExecOff(s) ==
    /\ stage # "error"
    /\ stage' = s
    /\ header' = <<>> /\ row' = <<>>
    /\ result' = Answer("Step", IF s = "done" THEN "DONE" ELSE "ERROR")
    /\ ClearColumnInfo
    /\ stepped' = "exec"

\* The reset() of exec() answers the error of the execution before it or cannot compile
\* the command, or the command is blank and there is no statement to step.
ExecRefused ==
    /\ \/ stage = "error" /\ stage' = "ready"
       \/ stage = "null" /\ stage' = "null"
    /\ header' = <<>> /\ row' = <<>>
    /\ result' = "error"
    /\ ClearColumnInfo
    /\ stepped' = "none"

\* reset() compiles the command if there is no statement; otherwise it rewinds, and
\* answers with the error that stopped the execution.  A blank command compiles to
\* success and no statement.  A bind does the same first.
Reset ==
    /\ ClearColumnInfo
    /\ header' = <<>> /\ row' = <<>>
    /\ stage' \in IF stage = "null" THEN {"null", "ready"} ELSE {"ready"}
    /\ result' \in CASE stage = "error" -> {"error"}
                     [] stage' = "null" -> {"success", "error"}
                     [] OTHER -> {"success"}
    /\ stepped' = "none"

\* close(), also through Connection::close; without a statement it does nothing.
Close ==
    /\ stage # "null"
    /\ stage' = "null"
    /\ header' = <<>> /\ row' = <<>>
    /\ ClearColumnInfo
    /\ stepped' = "none"
    /\ UNCHANGED result

Next ==
    \/ \E h \in Lists(Names \cup {NoName}) :
          \E r \in [DOMAIN h -> Cells] : NextRow(h, r) \/ ExecRow(h, r)
    \/ \E s \in {"done", "error"} : NextOff(s) \/ ExecOff(s)
    \/ NextRefused \/ ExecRefused \/ Reset \/ Close

Spec == Init /\ [][Next]_vars
-----------------------------------------------------------------------------
(* What the getters of Query answer.                                        *)

\* Statement::columnCount counts names.
ColumnCount == Cardinality(DOMAIN columns)

AvailableIndex(idx) == 0 <= idx /\ idx < ColumnCount

ColumnIndexForName(m) == IF m \in DOMAIN columns THEN columns[m] ELSE -1

\* Statement::typeForColumnIndex; the index -1 is a very large size_t.
TypeForColumnIndex(idx) == IF idx + 1 \in DOMAIN types THEN types[idx + 1] ELSE "InvalidType"

TypeForColumn(idx) == IF AvailableIndex(idx) THEN TypeForColumnIndex(idx) ELSE "InvalidType"

\* sqlite3_column_int64, _text and _double: off a row, and for a null statement, they
\* answer 0, a null pointer and 0.0, as they do for NULL.
SqliteColumn(idx, type, null) ==
    IF stage # "row" \/ idx + 1 \notin DOMAIN row \/ row[idx + 1].type = "Null"
    THEN null
    ELSE IF row[idx + 1].type = type THEN row[idx + 1].value ELSE Mistyped

StaticValueForColumnIndex_NoCheck(idx, expect, null, err) == SqliteColumn(idx, expect, null)

StaticValueForColumnIndex(idx, expect, null, err) ==
    IF TypeForColumnIndex(idx) # expect THEN err ELSE SqliteColumn(idx, expect, null)

Int64ForColumnIndex(idx) == StaticValueForColumnIndex(idx, "Integer", 0, 0)

\* sqlite3_column_int keeps the low bits.
IntForColumnIndex(idx) ==
    ((Int64ForColumnIndex(idx) + HalfWord) % (2 * HalfWord)) - HalfWord

BooleanForColumnIndex(idx) == IntForColumnIndex(idx) # 0

CstrForColumnIndex(idx) == StaticValueForColumnIndex(idx, "Text", NoText, NoText)

TextForColumnIndex_TrustsPointer(idx) == CstrForColumnIndex(idx)

TextForColumnIndex(idx) ==
    IF CstrForColumnIndex(idx) = NoText THEN EmptyText ELSE CstrForColumnIndex(idx)

FloatForColumnIndex(idx) == StaticValueForColumnIndex(idx, "Float", ZeroFloat, ZeroFloat)

DatetimeForColumnIndex_IntegersOnly(idx) ==
    IF TypeForColumn(idx) = "Integer" THEN {IntForColumnIndex(idx)} ELSE {-1}

\* The times it can answer if sscanf reads the numbers of `fields` in the texts.
TimesForColumnIndex(idx, fields) ==
    CASE TypeForColumn(idx) = "Integer" -> {IntForColumnIndex(idx)}
      [] TypeForColumn(idx) = "Text" -> Str2tm(fields[TextForColumnIndex(idx)])
      [] TypeForColumn(idx) = "Float" -> {FloatTime[FloatForColumnIndex(idx)]}
      [] OTHER -> {-1}

DatetimeForColumnIndex(idx) == TimesForColumnIndex(idx, Fields)

\* The getters that take a name.
TypeForName(m) == TypeForColumn(ColumnIndexForName(m))
IntForName(m) == IntForColumnIndex(ColumnIndexForName(m))
BooleanForName(m) == BooleanForColumnIndex(ColumnIndexForName(m))
Int64ForName(m) == Int64ForColumnIndex(ColumnIndexForName(m))
TextForName(m) == TextForColumnIndex(ColumnIndexForName(m))
FloatForName(m) == FloatForColumnIndex(ColumnIndexForName(m))
DatetimeForName(m) == DatetimeForColumnIndex(ColumnIndexForName(m))
-----------------------------------------------------------------------------
(* Properties.                                                              *)

\* Column info is that of the row that next() stands on, whatever other types and,
\* after a change of the schema, other columns the rows before it had.  Where exec()
\* left the query, on a row or not, there is none, as there is none of a rewound or
\* closed query (Statement.cpp:81, 90-97, 104-106 and 133-158).
InfoIsOfThisRow ==
    /\ stage = "row" /\ stepped = "next" =>
          columns = ColumnsOf(header) /\ types = TypesOf(header, row)
    /\ stage \in {"null", "ready"} \/ stepped = "exec" => columns = <<>> /\ types = <<>>

\* The columns of the row the query stands on that a getter can see: none, if exec()
\* stepped there.
Seen == IF stepped = "next" THEN Named(header) ELSE {}

\* On a row every getter answers the cell if it has the getter's type and its column
\* can be seen, and the error value otherwise; SQLite's conversions never show
\* (Statement.hpp:138-148).
GettersReadTheRow ==
    stage = "row" =>
        \A i \in DOMAIN row :
            LET seen(type) == i \in Seen /\ row[i].type = type
            IN  /\ Int64ForColumnIndex(i - 1) = IF seen("Integer") THEN row[i].value ELSE 0
                /\ TextForColumnIndex(i - 1) = IF seen("Text") THEN row[i].value ELSE EmptyText
                /\ FloatForColumnIndex(i - 1) = IF seen("Float") THEN row[i].value ELSE ZeroFloat

\* A name finds the last column that has it, and error values where no column that can
\* be seen has it, although -1 is passed on as an index (Statement.cpp:112-130 and 150).
NamesFindTheirLastColumn ==
    stage = "row" =>
        \A m \in Names :
            LET at == {i \in Seen : header[i] = m}
            IN  IF at = {}
                THEN /\ ColumnIndexForName(m) = -1
                     /\ TypeForName(m) = "InvalidType"
                     /\ Int64ForName(m) = 0 /\ IntForName(m) = 0 /\ ~BooleanForName(m)
                     /\ TextForName(m) = EmptyText /\ FloatForName(m) = ZeroFloat
                     /\ DatetimeForName(m) = {-1}
                ELSE /\ ColumnIndexForName(m) + 1 \in at
                     /\ \A i \in at : i <= ColumnIndexForName(m) + 1

\* Off a row the getters answer their error values, although after the end or an error
\* the column info of the last row still stands and lets them ask SQLite; text is safe
\* because its null pointer is checked (Query.cpp:98-101).  A time asked for there is
\* that of an error value, which is -1 only once the column info is gone.
OffRowNothingIsRead ==
    stage # "row" =>
        \A idx \in -1..MaxColumns :
            /\ Int64ForColumnIndex(idx) = 0
            /\ TextForColumnIndex(idx) = EmptyText
            /\ FloatForColumnIndex(idx) = ZeroFloat
            /\ DatetimeForColumnIndex(idx) \subseteq {-1, 0, FloatTime[ZeroFloat]}
            /\ stage \in {"null", "ready"} => DatetimeForColumnIndex(idx) = {-1}

\* On a row of next() whose columns all have names of their own, an index is available
\* exactly when it is a column's, and its type and time are the cell's.  Of a time kept
\* as an integer only what an int holds is answered, so one past the year 2038 is
\* another time, and a boolean is false if the low bits are (Query.cpp:45-64, 80-82 and
\* 121-138).
DistinctColumnsAreComplete ==
    stage = "row" /\ stepped = "next" /\ Named(header) = DOMAIN header
    /\ (\A i, j \in DOMAIN header : header[i] = header[j] => i = j)
    => /\ \A idx \in -1..MaxColumns : AvailableIndex(idx) <=> idx + 1 \in DOMAIN row
       /\ \A i \in DOMAIN row :
             /\ TypeForColumn(i - 1) = row[i].type
             /\ row[i].type = "Integer" =>
                   \E v \in -HalfWord..(HalfWord - 1) :
                      /\ (row[i].value - v) % (2 * HalfWord) = 0
                      /\ DatetimeForColumnIndex(i - 1) = {v}
                      /\ BooleanForColumnIndex(i - 1) <=> v # 0
             /\ row[i].type = "Text"
                  => DatetimeForColumnIndex(i - 1) = Str2tm(Fields[row[i].value])

\* The times that column i, which holds a text, answers if it holds `text`.
ReadBack(i, text) == TimesForColumnIndex(i - 1, [Fields EXCEPT ![row[i].value] = text])

\* The columns of this row that hold a text and are answered.
TextColumns ==
    {i \in Seen : AvailableIndex(i - 1) /\ row[i].type = "Text" /\ row[i].value # EmptyText}

\* In a time zone with one offset, a column that datetimeNow stored, whatever the moment,
\* answers that moment; a date alone is the midnight before, and what timeNow stored is
\* never taken for a time (Query.cpp:127-131, Utils.cpp:31-59, InsertCommand.cpp:39-45).
StoredTimesReadBack ==
    stage = "row" /\ (\A a, b \in Offsets : a = b) =>
        \A i \in TextColumns, m \in Moments, ahead \in Offsets :
            LET local == m + ahead
            IN  /\ ReadBack(i, DatetimeText(local)) = {m}
                /\ ReadBack(i, DateText(local)) = {m - (local % DaySeconds)}
                /\ ReadBack(i, ReadOfTimeText(local)) = {-1}

\* What insert_row expects in every time zone (tests/Tests.cpp:648): a column that
\* datetimeNow stored answers a time less than a second after that moment.  Where the
\* clocks change, the uninitialised tm_isdst (Utils.cpp:50) decides.
StoredTimesAreNotLate ==
    stage = "row" =>
        \A i \in TextColumns, m \in Moments, ahead \in Offsets :
            \A t \in ReadBack(i, DatetimeText(m + ahead)) : t - m < 1

\* next() answers success exactly when there is a row to read, so a loop over next()
\* ends at the end: one that took DONE for success would start again, since SQLite
\* restarts a statement that is stepped after its end (Result.hpp:106-109).
NextMeansRow ==
    [][stepped' = "next" \/ NextRefused
         => (result' = "success" <=> stage' = "row")]_vars
=============================================================================
