SPECIFICATION Spec
CONSTANTS
    a = a
    b = b
    c = c
    MaxFile = 4
    MaxLongFile = 4
    MaxRecordBytes = 2
    Undecodable = Undecodable
    Byte <- MCByte
    Files <- MCFiles
    Requests <- MCRequests
    DecodeLength <- MCDecodeLength
    DecodeType <- MCDecodeType
    DecodeField <- MCDecodeField
INVARIANTS
    DocBytesConsumed
CHECK_DEADLOCK FALSE
