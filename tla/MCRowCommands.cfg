CONSTANTS
    Columns = {"a", "b"}
    Spellings = {"a", "A", "b"}
    Folded <- MCFolded
    ByteOrder <- MCByteOrder
    Values = {"1", "1.0000001", "b"}
    Null = Null
    Streamed <- MCStreamed
    Quoted <- MCQuoted
    Holds <- MCHolds
    Texts <- MCTexts
    Schemas = {"main", "temp"}
    First = "temp"
    MaxParts = 4

SPECIFICATION Spec

INVARIANTS
    TypeOK
    OnlySelectedRows
    LastCallCounts

PROPERTIES
    AndNarrows

