SPECIFICATION ResolveSpec
CONSTANTS
    SequenceColumns = 2
    Margin = 24
    MaxOccurs = 3
    MaxConditionValues = 7
    MaxSymbols = 20
    MaxRecordBytes = 12
    MaxLayoutFields = 4
    MaxFooterBytes = 2
    MaxPackedBytes = 3
    MaxZonedBytes = 5
    MaxBinaryBytes = 8
    MaxBinaryDigits = 8
    MaxU32 = 31
    Numeral <- MCNumeral
    Subscript <- MCSubscript
    ProtoType <- MCProtoType
    JsonType <- MCJsonType
    Options <- MCOptions
    RawLayouts <- MCRawLayouts
INVARIANTS
    StatementsAreTheSource
    FieldsAreTheTree
    ConditionsKept
    WidthsHoldTheDigits
    LimitsHoldAsItGrows
    AcceptedIsWalkable
    VerdictIsExact
    AcceptedAsDeclared
CHECK_DEADLOCK FALSE
