---------------------------- MODULE RecordStream ----------------------------
(***************************************************************************)
(* The incremental record walker (src/stream.rs): `push` appends the bytes *)
(* that have arrived, `next_record` hands back one record as soon as its   *)
(* last byte is there, `status` builds the trailer.                        *)
(*                                                                         *)
(* The upload is chosen in Init as `file`, the whole input; how it is cut  *)
(* into chunks is the nondeterminism of Push.  The variable `phase` is the *)
(* caller's loop (service.rs run_parse and drain): push, next_record until *)
(* it yields None, ..., finish_input, next_record until None, status.      *)
(*                                                                         *)
(* Abstracted: what a field's bytes mean.  DecodeLength, DecodeType and    *)
(* DecodeField stand for decode_field on the length prefix, on the type    *)
(* prefix and on a body field; they return Undecodable where the code      *)
(* returns an error.                                                       *)
(***************************************************************************)
EXTENDS Integers, Sequences, FiniteSets, LayoutShape

CONSTANTS
    Byte,               \* the values of one input byte
    Files,              \* the uploads: sequences of bytes
    Requests,           \* the validated layouts with the decode options
    MaxRecordBytes,     \* layout.rs MAX_RECORD_BYTES
    Undecodable,        \* what a decoder that returns an error yields
    DecodeLength(_, _), \* (field, bytes) -> Int or Undecodable
    DecodeType(_, _),   \* (field, bytes) -> selector value or Undecodable
    DecodeField(_, _)   \* (field, bytes) -> cell value or Undecodable

ASSUME RequestAssumption ==
    \A q \in Requests : /\ IsLayout(q.layout)
                        /\ q.max_records \in Nat
                        /\ q.abort_on_error \in BOOLEAN

ASSUME FileAssumption == \A f \in Files : f \in Seq(Byte)

ASSUME DecodeAssumption ==
    /\ MaxRecordBytes \in Nat \ {0}
    /\ Undecodable \notin Int
    /\ \A q \in Requests :
          LET f == q.layout.record_length_field
          IN  f.size > 0 =>
                 \A bytes \in [1..f.size -> Byte] :
                    DecodeLength(f, bytes) \in Int \cup {Undecodable}

VARIABLES
    file,            \* the whole upload; never read beyond `received`
    request,         \* layout and decode options of this walk
    buffer,          \* bytes received and not yet dropped
    start,           \* bytes of `buffer` already consumed
    buffer_base,     \* absolute offset of the first unconsumed byte
    received,        \* total bytes received
    header_left,     \* header bytes still to skip
    records_kept,    \* records emitted
    rows_per_type,   \* rows emitted per schema (by its place in the layout)
    truncated,       \* max_records was reached
    input_finished,  \* the client's half of the stream has ended
    rows,            \* history: every row handed to the caller
    phase,           \* where the caller's loop is
    failure,         \* why the walk failed, "none" if it has not
    status           \* the trailer, once built

config == <<file, request>>
cursor == <<buffer, start, buffer_base, header_left>>
counts == <<records_kept, rows_per_type, truncated, rows>>
vars == <<config, cursor, counts, received, input_finished, phase, failure,
          status>>

layout == request.layout
NoStatus == [warning |-> "pending"]

-----------------------------------------------------------------------------
(***************************************************************************)
(* The bytes of s at offset `at`, `n` of them, and the two saturating      *)
(* helpers.                                                                *)
(***************************************************************************)
Bytes(s, at, n) == [i \in 1..n |-> s[at + i]]
Least(a, b) == IF a <= b THEN a ELSE b
SaturatingSub(a, b) == IF a >= b THEN a - b ELSE 0

Pending == Bytes(buffer, start, Len(buffer) - start)
\* Mutant: the footer is decoded like data.
WholeEnd == received

DecodableEnd == SaturatingSub(received, layout.footer_size)
Available == Least(SaturatingSub(DecodableEnd, buffer_base),
                   Len(buffer) - start)

(***************************************************************************)
(* Layout::select: with no record-type field there is one schema; with     *)
(* one, no two schemas have the same selector.                             *)
(***************************************************************************)
Select(l, type) ==
    IF l.record_type_field.size = 0
    THEN {1}
    ELSE {k \in DOMAIN l.records : l.records[k].selector = type}

(***************************************************************************)
(* read_prefix on the record that starts at offset `at` of s: the schema   *)
(* it selects, the length of its body, and the error, in the code's order: *)
(* length field, type field, schema, negative body, body over the limit.   *)
(***************************************************************************)
DeclaredLength(l, s, at) ==
    DecodeLength(l.record_length_field,
                 Bytes(s, at, l.record_length_field.size))

DeclaredType(l, s, at) ==
    DecodeType(l.record_type_field,
               Bytes(s, at + l.record_length_field.size,
                     l.record_type_field.size))

SchemaOf(l, type) == CHOOSE k \in DOMAIN l.records : k \in Select(l, type)
Schema(l, s, at) == SchemaOf(l, DeclaredType(l, s, at))

BodySize(l, s, at) ==
    IF l.record_length_field.size = 0
    THEN l.records[Schema(l, s, at)].size
    ELSE DeclaredLength(l, s, at) - l.prefix_size

\* Mutant: no limit on a declared length.
NoLimit(l, s, at) == FALSE

\* The conversion to usize before it refuses lengths far above the limit.
TooLong(l, s, at) == BodySize(l, s, at) > MaxRecordBytes

PrefixFailure(l, s, at) ==
    IF /\ l.record_length_field.size > 0
       /\ DeclaredLength(l, s, at) = Undecodable           THEN "length"
    ELSE IF /\ l.record_type_field.size > 0
            /\ DeclaredType(l, s, at) = Undecodable        THEN "type"
    ELSE IF Select(l, DeclaredType(l, s, at)) = {}         THEN "no schema"
    ELSE IF BodySize(l, s, at) < 0                         THEN "short prefix"
    ELSE IF TooLong(l, s, at)                              THEN "too long"
    ELSE "none"

TotalSize(l, s, at) == l.prefix_size + BodySize(l, s, at)

(***************************************************************************)
(* decode_cells: one cell per field that is not a filler.  It fails when a *)
(* field does not fit in the body or does not decode.                      *)
(***************************************************************************)
Decoded(record) == {i \in DOMAIN record.fields : record.fields[i].kind # "Skip"}

Cells(l, s, at) ==
    LET record == l.records[Schema(l, s, at)]
    IN  [i \in Decoded(record) |->
            DecodeField(record.fields[i],
                        Bytes(s, at + l.prefix_size + record.fields[i].offset,
                              record.fields[i].size))]

CellsFail(l, s, at) ==
    LET record == l.records[Schema(l, s, at)]
    IN  \E i \in Decoded(record) :
           record.fields[i].offset + record.fields[i].size
               <= BodySize(l, s, at) => Cells(l, s, at)[i] = Undecodable

-----------------------------------------------------------------------------
Init ==
    /\ file \in Files
    /\ request \in Requests
    /\ buffer = <<>>
    /\ start = 0
    /\ buffer_base = 0
    /\ received = 0
    /\ header_left = layout.header_size
    /\ records_kept = 0
    /\ rows_per_type = [k \in DOMAIN layout.records |-> 0]
    /\ truncated = FALSE
    /\ input_finished = FALSE
    /\ rows = <<>>
    /\ phase = "receive"
    /\ failure = "none"
    /\ status = NoStatus

(***************************************************************************)
(* push: n more bytes of the upload arrive.  A truncated walk counts and   *)
(* drops them; otherwise the consumed bytes are dropped and the chunk is   *)
(* appended after the `kept` ones.  An empty chunk (n = 0) is a legal      *)
(* frame.                                                                  *)
(***************************************************************************)
Absorb(kept, at, n) ==
    /\ phase = "receive"
    /\ received' = received + n
    /\ \/ /\ truncated
          /\ buffer' = <<>>
          /\ start' = 0
          /\ buffer_base' = received'
       \/ /\ ~truncated
          /\ buffer' = kept \o Bytes(file, received, n)
          /\ start' = at
          /\ UNCHANGED buffer_base
    /\ phase' = "drain"
    /\ UNCHANGED <<config, counts, header_left, input_finished, failure,
                   status>>

\* Mutants of Push: the compaction is forgotten; a partial record is dropped
\* with the consumed bytes.
PushUncompacted(n) == Absorb(buffer, 0, n)
PushClears(n) == Absorb(<<>>, 0, n)

Push(n) == Absorb(Pending, 0, n)

FinishInput ==
    /\ phase = "receive"
    /\ received = Len(file)
    /\ input_finished' = TRUE
    /\ phase' = "drain"
    /\ UNCHANGED <<config, cursor, counts, received, failure, status>>

(***************************************************************************)
(* next_record.  The header bytes that are there are skipped first,        *)
(* whatever the call returns; `At` is the cursor after that, `Ready` the   *)
(* bytes available from there.                                             *)
(***************************************************************************)
Skip == IF truncated THEN 0 ELSE Least(header_left, Available)

\* Mutant: the record is read from where the header begins.
AtHeader == start

At == start + Skip
Ready == Available - Skip

\* Mutant: the call that skips the last header byte returns None.
PrefixReadyNextCall ==
    /\ ~truncated
    /\ header_left = 0
    /\ Ready >= layout.prefix_size
    /\ ~(layout.prefix_size = 0 /\ Ready = 0)

PrefixReady ==
    /\ ~truncated
    /\ header_left = Skip
    /\ Ready >= layout.prefix_size
    /\ ~(layout.prefix_size = 0 /\ Ready = 0)

BodyReady ==
    /\ PrefixReady
    /\ PrefixFailure(layout, buffer, At) = "none"
    /\ Ready >= TotalSize(layout, buffer, At)

\* Mutant: the skip moves only the index into the buffer.
SkipHeaderIndex ==
    /\ start' = At
    /\ header_left' = header_left - Skip
    /\ UNCHANGED <<buffer, buffer_base>>

SkipHeader ==
    /\ start' = At
    /\ buffer_base' = buffer_base + Skip
    /\ header_left' = header_left - Skip
    /\ UNCHANGED buffer

\* Mutant: an unfinished header is tried again instead of asking for input.
AfterNoneRetry ==
    IF header_left > Skip THEN "drain"
    ELSE IF input_finished THEN "trailer" ELSE "receive"

\* Mutant: the end of the input is not remembered.
AfterNoneReceive == "receive"

AfterNone == IF input_finished THEN "trailer" ELSE "receive"

(***************************************************************************)
(* Ok(None): the record is not complete, or the walk is truncated.  The    *)
(* caller goes back to the input, or on to the trailer once it is over.    *)
(***************************************************************************)
NeedMore ==
    /\ phase = "drain"
    /\ \/ ~PrefixReady
       \/ /\ PrefixReady
          /\ PrefixFailure(layout, buffer, At) = "none"
          /\ Ready < TotalSize(layout, buffer, At)
    /\ SkipHeader
    /\ phase' = AfterNone
    /\ UNCHANGED <<config, counts, received, input_finished, failure, status>>

(***************************************************************************)
(* Err from read_prefix or from decode_cells: the walk is over.            *)
(***************************************************************************)
RejectPrefix ==
    /\ phase = "drain"
    /\ PrefixReady
    /\ PrefixFailure(layout, buffer, At) # "none"
    /\ failure' = PrefixFailure(layout, buffer, At)
    /\ SkipHeader
    /\ phase' = "failed"
    /\ UNCHANGED <<config, counts, received, input_finished, status>>

RejectCells ==
    /\ phase = "drain"
    /\ BodyReady
    /\ CellsFail(layout, buffer, At)
    /\ failure' = "cells"
    /\ SkipHeader
    /\ phase' = "failed"
    /\ UNCHANGED <<config, counts, received, input_finished, status>>

(***************************************************************************)
(* Ok(Some(row)): one record leaves the buffer.  Reaching max_records      *)
(* drops whatever is still buffered.                                       *)
(***************************************************************************)
LimitReached(kept) == request.max_records # 0 /\ kept >= request.max_records

Row(k, total) ==
    [record_type  |-> k,
     row_index    |-> rows_per_type[k],
     record_index |-> records_kept,
     byte_offset  |-> buffer_base + Skip,
     byte_length  |-> total,
     cells        |-> Cells(layout, buffer, At)]

Emit ==
    /\ phase = "drain"
    /\ BodyReady
    /\ ~CellsFail(layout, buffer, At)
    /\ LET k == Schema(layout, buffer, At)
           total == TotalSize(layout, buffer, At)
       IN  /\ rows' = Append(rows, Row(k, total))
           /\ records_kept' = records_kept + 1
           /\ rows_per_type' = [rows_per_type EXCEPT ![k] = @ + 1]
           /\ header_left' = header_left - Skip
           /\ truncated' = LimitReached(records_kept')
           /\ \/ /\ truncated'
                 /\ buffer' = <<>>
                 /\ start' = 0
                 /\ buffer_base' = received
              \/ /\ ~truncated'
                 /\ start' = At + total
                 /\ buffer_base' = buffer_base + Skip + total
                 /\ UNCHANGED buffer
    /\ UNCHANGED <<config, received, input_finished, phase, failure, status>>

(***************************************************************************)
(* status: exactly one of the three warnings, or none; `undecoded` is the  *)
(* byte count its message gives when max_records was reached.  A trailing  *)
(* partial record is an error when the request says abort_on_error.        *)
(***************************************************************************)
\* Mutant: the footer counts as trailing bytes.
LeftoverWithFooter == SaturatingSub(received, buffer_base)

Leftover == SaturatingSub(DecodableEnd, buffer_base)

Warning ==
    IF received < layout.header_size + layout.footer_size
    THEN "InputShorterThanBoundaries"
    ELSE IF truncated    THEN "MaxRecordsReached"
    ELSE IF Leftover > 0 THEN "TrailingPartialRecord"
    ELSE "none"

Status ==
    /\ phase = "trailer"
    /\ ~(Warning = "TrailingPartialRecord" /\ request.abort_on_error)
    /\ status' = [records_kept         |-> records_kept,
                  bytes_received       |-> received,
                  bytes_consumed       |-> buffer_base,
                  trailing_bytes       |-> Leftover,
                  truncated            |-> truncated,
                  warning              |-> Warning,
                  undecoded            |-> SaturatingSub(received, buffer_base),
                  rows_per_record_type |-> rows_per_type]
    /\ phase' = "done"
    /\ UNCHANGED <<config, cursor, counts, received, input_finished, failure>>

AbortTrailing ==
    /\ phase = "trailer"
    /\ Warning = "TrailingPartialRecord"
    /\ request.abort_on_error
    /\ failure' = "trailing"
    /\ phase' = "failed"
    /\ UNCHANGED <<config, cursor, counts, received, input_finished, status>>

NextRecord == NeedMore \/ RejectPrefix \/ RejectCells \/ Emit

Next ==
    \/ \E n \in 0..(Len(file) - received) : Push(n)
    \/ FinishInput
    \/ NextRecord
    \/ Status
    \/ AbortTrailing

Spec == Init /\ [][Next]_vars

(***************************************************************************)
(* drain is a loop in one task that nothing but next_record's result ends: *)
(* it keeps calling.  Nothing obliges the client to send more.             *)
(***************************************************************************)
FairSpec == Spec /\ WF_vars(NextRecord)

-----------------------------------------------------------------------------
Phases == {"receive", "drain", "trailer", "done", "failed"}
Failures == {"none", "length", "type", "no schema", "short prefix",
             "too long", "cells", "trailing"}

(***************************************************************************)
(* Every counter and cursor of RecordStream stays in its type: `start`     *)
(* never passes the end of the buffer it indexes, and neither cursor       *)
(* passes what was received, so no slice the code takes is out of range.   *)
(***************************************************************************)
TypeOK ==
    /\ file \in Files
    /\ request \in Requests
    /\ buffer \in Seq(Byte)
    /\ start \in 0..Len(buffer)
    /\ received \in 0..Len(file)
    /\ buffer_base \in 0..received
    /\ header_left \in 0..layout.header_size
    /\ records_kept \in Nat
    /\ rows_per_type \in [DOMAIN layout.records -> Nat]
    /\ truncated \in BOOLEAN
    /\ input_finished \in BOOLEAN
    /\ phase \in Phases
    /\ failure \in Failures

(***************************************************************************)
(* `buffer_base` is "the absolute offset of buffer[start]": through every  *)
(* compaction, header skip and early drop, the unconsumed part of the      *)
(* buffer is exactly the upload from buffer_base to what was received.     *)
(***************************************************************************)
BufferIsWindow ==
    /\ truncated => buffer = <<>> /\ buffer_base = received
    /\ ~truncated =>
          /\ Len(buffer) - start = received - buffer_base
          /\ \A i \in 1..(received - buffer_base) :
                buffer[start + i] = file[buffer_base + i]

(***************************************************************************)
(* Where the next record starts, going by the rows handed out.             *)
(***************************************************************************)
RowEnd(i) == rows[i].byte_offset + rows[i].byte_length
NextOffset == IF rows = <<>> THEN layout.header_size ELSE RowEnd(Len(rows))

(***************************************************************************)
(* Rows tile the input: the first starts right after the header, each next *)
(* one where its predecessor ended, each covers at least one byte, and the *)
(* cursor stands at the end of the last one.  No byte is decoded twice or  *)
(* skipped between two records, however the chunks fell.                   *)
(***************************************************************************)
RowsTile ==
    /\ \A i \in 1..Len(rows) :
          /\ rows[i].byte_offset = IF i = 1 THEN layout.header_size
                                            ELSE RowEnd(i - 1)
          /\ rows[i].byte_length > 0
    /\ rows # <<>> => header_left = 0
    /\ ~truncated => buffer_base = NextOffset - header_left

(***************************************************************************)
(* decodable_end: no row reaches into the last footer_size bytes of the    *)
(* upload, although the walker cannot know where the upload will end.      *)
(***************************************************************************)
FooterUntouched ==
    \A i \in 1..Len(rows) : RowEnd(i) + layout.footer_size <= received

(***************************************************************************)
(* A row is what the whole upload holds at its offset: its schema, length  *)
(* and cells do not depend on how the upload was cut into chunks or on     *)
(* what the buffer held when it was decoded.                               *)
(***************************************************************************)
RowsAreTheFiles ==
    \A i \in 1..Len(rows) :
        LET at == rows[i].byte_offset
        IN  /\ PrefixFailure(layout, file, at) = "none"
            /\ ~CellsFail(layout, file, at)
            /\ rows[i].record_type = Schema(layout, file, at)
            /\ rows[i].byte_length = TotalSize(layout, file, at)
            /\ rows[i].cells = Cells(layout, file, at)

(***************************************************************************)
(* Something to say about the record at offset `at` when the input is      *)
(* known to hold data up to `end`: it is complete, or its prefix is and is *)
(* not acceptable.                                                         *)
(***************************************************************************)
Decidable(at, end) ==
    /\ at + layout.prefix_size <= end
    /\ at < end
    /\ \/ PrefixFailure(layout, file, at) # "none"
       \/ at + TotalSize(layout, file, at) <= end

(***************************************************************************)
(* "As soon as that record's last byte is present and never later"         *)
(* (stream.rs module comment): when the walker asks for more input, or     *)
(* goes to the trailer, no complete record is left behind.                 *)
(***************************************************************************)
NeverLate ==
    phase \in {"receive", "trailer", "done"} /\ ~truncated =>
        ~Decidable(NextOffset, DecodableEnd)

(***************************************************************************)
(* Memory (stream.rs: "the consumed prefix is dropped once per push"): a   *)
(* chunk finds less than one record and the footer reserve left in the     *)
(* buffer, whatever was uploaded before, and nothing else adds to it.  So  *)
(* the buffer never holds more than that and the last chunk, counting the  *)
(* consumed prefix.                                                        *)
(***************************************************************************)
MemoryBounded ==
    [][LET pushed == phase = "receive" /\ ~input_finished'
       IN  /\ pushed => Len(buffer') < layout.footer_size + layout.prefix_size
                                         + MaxRecordBytes + (received' - received)
           /\ ~pushed => Len(buffer') <= Len(buffer)]_vars

(***************************************************************************)
(* The trailer adds up.  Unless the walk stopped early, the bytes          *)
(* consumed, the trailing ones and the footer are all the bytes received;  *)
(* the one warning says which case it is, and a walk that stopped early    *)
(* really handed out max_records rows.                                     *)
(***************************************************************************)
TrailerBalances ==
    phase = "done" =>
        /\ status.bytes_received = Len(file)
        /\ status.records_kept = Len(rows)
        /\ status.truncated => Len(rows) = request.max_records
        /\ ~status.truncated =>
              status.bytes_consumed + status.trailing_bytes
                + Least(layout.footer_size, Len(file)) = Len(file)
        /\ status.warning = "none" => DecodableEnd = NextOffset
        /\ status.warning = "MaxRecordsReached" <=> status.truncated
        /\ status.warning = "TrailingPartialRecord"
              <=> ~status.truncated /\ status.trailing_bytes > 0

(***************************************************************************)
(* max_records is a bound on the rows, and reaching it stops the walk.     *)
(***************************************************************************)
StopsAtMaxRecords ==
    /\ request.max_records # 0 => Len(rows) <= request.max_records
    /\ truncated <=> /\ request.max_records # 0
                     /\ Len(rows) = request.max_records

-----------------------------------------------------------------------------
(***************************************************************************)
(* The reference: the upload read in one piece.  `walk[k]` is where the    *)
(* reading stands after k turns.  A turn takes a record or ends it, so one *)
(* turn more than there are bytes ends every reading.                      *)
(***************************************************************************)
DataEnd == SaturatingSub(Len(file), layout.footer_size)

Reading(at, offsets) ==
    [at |-> at, offsets |-> offsets, over |-> FALSE, failure |-> "none"]
Ended(reading, why) == [reading EXCEPT !.over = TRUE, !.failure = why]

Turn(reading) ==
    LET at == reading.at
    IN  IF reading.over THEN reading
        ELSE IF LimitReached(Len(reading.offsets)) THEN Ended(reading, "none")
        ELSE IF ~Decidable(at, DataEnd)
        THEN Ended(reading, IF at < DataEnd /\ request.abort_on_error
                            THEN "trailing" ELSE "none")
        ELSE IF PrefixFailure(layout, file, at) # "none"
        THEN Ended(reading, PrefixFailure(layout, file, at))
        ELSE IF CellsFail(layout, file, at) THEN Ended(reading, "cells")
        ELSE Reading(at + TotalSize(layout, file, at),
                     Append(reading.offsets, at))

WholeFile ==
    LET walk[k \in 0..(Len(file) + 1)] ==
            IF k = 0 THEN Reading(layout.header_size, <<>>)
            ELSE Turn(walk[k - 1])
    IN  walk[Len(file) + 1]

(***************************************************************************)
(* The outcome of a walk is a function of the upload alone: the rows and   *)
(* the error are those of the upload read in one piece, however push and   *)
(* next_record were interleaved.                                           *)
(***************************************************************************)
ChunkingIndependent ==
    phase \in {"done", "failed"} =>
        /\ failure = WholeFile.failure
        /\ [i \in 1..Len(rows) |-> rows[i].byte_offset] = WholeFile.offsets

-----------------------------------------------------------------------------
(***************************************************************************)
(* The inductive invariant: the properties above and what ties them to the *)
(* caller's loop.  The cursor of a live walk is never inside the footer    *)
(* reserve; between drains an unfinished header has used up all there is;  *)
(* the trailer is only built once everything was received.                 *)
(***************************************************************************)
LoopInv ==
    /\ ~truncated => buffer_base <= DecodableEnd
    /\ phase \in {"receive", "trailer", "done"} /\ header_left > 0 =>
          buffer_base = DecodableEnd
    /\ phase \in {"trailer", "done"} => input_finished
    /\ input_finished => received = Len(file)
    /\ records_kept = Len(rows)

RowsOK ==
    /\ rows \in Seq({rows[i] : i \in DOMAIN rows})
    /\ \A i \in DOMAIN rows :
          rows[i].byte_offset \in Nat /\ rows[i].byte_length \in Nat

IInv ==
    /\ TypeOK
    /\ RowsOK
    /\ LoopInv
    /\ BufferIsWindow
    /\ RowsTile
    /\ FooterUntouched
    /\ RowsAreTheFiles
    /\ NeverLate
    /\ StopsAtMaxRecords

(***************************************************************************)
(* What run_parse relies on: the walker and its caller follow Walk.  A row *)
(* costs at least one received byte, so the rows of a call are bounded by  *)
(* its byte cap, and the trailer is asked for once, after the last None.   *)
(***************************************************************************)
Walker == INSTANCE Walk WITH yielded <- records_kept

IsWalk == Walker!Spec

(***************************************************************************)
(* Every drain ends: next_record cannot hand out rows, or skip a header,   *)
(* forever on the bytes of one chunk, and always has an answer.            *)
(***************************************************************************)
DrainEnds == phase = "drain" ~> phase # "drain"

-----------------------------------------------------------------------------
(***************************************************************************)
(* What the documents say, which the code does not do.                     *)
(***************************************************************************)

(***************************************************************************)
(* ebcdic.proto:464, bytes_consumed is "`bytes_received` less the header,  *)
(* the footer, and any trailing partial record".  The code reports the     *)
(* cursor, which counts the header in.                                     *)
(***************************************************************************)
DocBytesConsumed ==
    phase = "done" /\ status.warning = "none" =>
        status.bytes_consumed = status.bytes_received - layout.header_size
                                  - layout.footer_size - status.trailing_bytes

(***************************************************************************)
(* stream.rs:320, "{} bytes of input were not decoded": the count in the   *)
(* MaxRecordsReached warning is what was received past the last row.  The  *)
(* cursor it is computed from was moved to `received` when the limit was   *)
(* reached, so the message always says zero.                               *)
(***************************************************************************)
DocUndecodedBytes ==
    phase = "done" /\ status.warning = "MaxRecordsReached" =>
        status.undecoded = status.bytes_received - NextOffset
=============================================================================
