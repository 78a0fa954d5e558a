\* One text column, in a zone that is one hour ahead of UTC in winter and two in summer.
CONSTANTS
    Names = {a}
    NoName = NoName
    MaxColumns = 1
    Integers = {8}
    HalfWord = 4
    Texts = {noon, EmptyText}
    Floats = {ZeroFloat}
    EmptyText = EmptyText
    ZeroFloat = ZeroFloat
    Fields <- MCFields
    FloatTime <- MCFloatTime
    Offsets = {3600, 7200}
    Moments <- MCMoments
    NoText = NoText
    Mistyped = Mistyped
SPECIFICATION Spec
INVARIANTS
    StoredTimesAreNotLate
