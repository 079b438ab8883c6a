SPECIFICATION FairSpec
CONSTANTS
    a = a
    b = b
    c = c
    MaxFile = 4
    MaxLongFile = 6
    MaxRecordBytes = 2
    Undecodable = Undecodable
    Byte <- MCByte
    Files <- MCFiles
    Requests <- MCRequests
    DecodeLength <- MCDecodeLength
    DecodeType <- MCDecodeType
    DecodeField <- MCDecodeField
INVARIANTS
    RowsTile
    FooterUntouched
    RowsAreTheFiles
    NeverLate
    TrailerBalances
    ChunkingIndependent
    IInv
PROPERTIES
    MemoryBounded
    IsWalk
    DrainEnds
CHECK_DEADLOCK FALSE
