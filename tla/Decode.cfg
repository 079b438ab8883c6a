CONSTANTS
    BytesOf <- MCBytesOf
    CodePage <- MCCodePage
    Control <- MCControl
    Blank <- MCBlank
    Numeral <- MCNumeral
    AccBits = 16
    IntegerBits = 8
    SizeBits = 10
    MaxPackedBytes = 2
    MaxZonedBytes = 4
    MaxBinaryBytes = 2
    MaxBinaryDigits = 5
    MaxRecordBytes = 300
    Sizes = {0, 1, 2, 3, 4, 5, 6, 301}
    Scales = {0, 1, 3, 5}
    TypeSizes = {0, 2}
SPECIFICATION Spec
CHECK_DEADLOCK FALSE
INVARIANTS
    ValueIsExact
    RefusedForCause
    TextIsExact
    CellIsExact
    BodyIsExact
