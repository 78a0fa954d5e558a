\* 8 does not fit the three bits of an int.
CONSTANTS
    Names = {a, b}
    NoName = NoName
    MaxColumns = 3
    Integers = {8}
    HalfWord = 4
    Texts = {noon, EmptyText}
    Floats = {ZeroFloat}
    EmptyText = EmptyText
    ZeroFloat = ZeroFloat
    Fields <- MCFields
    FloatTime <- MCFloatTime
    Offsets = {3600}
    Moments <- MCMoments
    NoText = NoText
    Mistyped = Mistyped
SYMMETRY Symmetry
SPECIFICATION Spec
INVARIANTS
    TypeOK
    InfoIsOfThisRow
    GettersReadTheRow
    NamesFindTheirLastColumn
    OffRowNothingIsRead
    DistinctColumnsAreComplete
    StoredTimesReadBack
PROPERTIES
    NextMeansRow
