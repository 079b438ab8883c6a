------------------------- MODULE RecordStreamProofs -------------------------
(***************************************************************************)
(* RecordStream for every layout, upload and decoder: the cursor           *)
(* arithmetic of the walker keeps IInv, hence every row is a record of the *)
(* upload, rows tile the input and never reach into the footer.            *)
(***************************************************************************)
EXTENDS RecordStream, Induction, TLAPS, SequenceTheorems

(***************************************************************************)
(* What a slice reads.                                                     *)
(***************************************************************************)
LEMMA BytesSeq ==
    ASSUME NEW s \in Seq(Byte), NEW at \in Nat, NEW n \in Nat,
           at + n <= Len(s)
    PROVE  /\ Bytes(s, at, n) \in Seq(Byte)
           /\ Bytes(s, at, n) \in [1..n -> Byte]
           /\ Len(Bytes(s, at, n)) = n
           /\ \A i \in 1..n : Bytes(s, at, n)[i] = s[at + i]
  <1>1. \A i \in 1..n : at + i \in 1..Len(s)
    OBVIOUS
  <1>2. \A i \in 1..n : s[at + i] \in Byte
    BY <1>1
  <1>3. Bytes(s, at, n) \in [1..n -> Byte]
    BY <1>2 DEF Bytes
  <1>4. Bytes(s, at, n) \in Seq(Byte) /\ Len(Bytes(s, at, n)) = n
    BY <1>3
  <1>. QED
    BY <1>3, <1>4 DEF Bytes

(***************************************************************************)
(* The layout of a walk, and the one a validated request carries.          *)
(***************************************************************************)
LEMMA LayoutOK ==
    ASSUME TypeOK
    PROVE  /\ IsLayout(layout)
           /\ layout.header_size \in Nat
           /\ layout.footer_size \in Nat
           /\ layout.prefix_size \in Nat
           /\ layout.record_length_field.size \in Nat
           /\ layout.record_type_field.size \in Nat
           /\ layout.prefix_size = layout.record_length_field.size
                                     + layout.record_type_field.size
           /\ request.max_records \in Nat
           /\ request.abort_on_error \in BOOLEAN
  <1>1. IsLayout(layout) /\ request.max_records \in Nat
          /\ request.abort_on_error \in BOOLEAN
    BY RequestAssumption DEF TypeOK, layout
  <1>. QED
    BY <1>1 DEF IsLayout, Field

(***************************************************************************)
(* available(): in range of the buffer, and up to the footer reserve.      *)
(***************************************************************************)
LEMMA AvailableOK ==
    ASSUME TypeOK, BufferIsWindow
    PROVE  /\ DecodableEnd \in Nat
           /\ DecodableEnd <= received
           /\ Available \in Nat
           /\ Available <= Len(buffer) - start
           /\ buffer_base + Available <= received
           /\ ~truncated => Available = SaturatingSub(DecodableEnd, buffer_base)
           /\ Available > 0 => /\ buffer_base + Available = DecodableEnd
                               /\ DecodableEnd + layout.footer_size = received
           /\ Skip \in Nat
           /\ Skip <= Available
           /\ Skip <= header_left
           /\ truncated => Available = 0
  <1>1. /\ layout.footer_size \in Nat
        /\ layout.header_size \in Nat
    BY LayoutOK
  <1>2. /\ received \in Nat /\ buffer_base \in Nat /\ start \in Nat
        /\ header_left \in Nat /\ Len(buffer) \in Nat
        /\ start <= Len(buffer) /\ buffer_base <= received
        /\ truncated \in BOOLEAN
    BY <1>1 DEF TypeOK
  <1>3. DecodableEnd \in Nat /\ DecodableEnd <= received
    BY <1>1, <1>2 DEF DecodableEnd, SaturatingSub
  <1>4. truncated => Len(buffer) = 0 /\ start = 0
    BY <1>2 DEF BufferIsWindow
  <1>5. ~truncated => Len(buffer) - start = received - buffer_base
    BY DEF BufferIsWindow
  <1>6. /\ Available \in Nat
        /\ Available <= Len(buffer) - start
        /\ buffer_base + Available <= received
        /\ truncated => Available = 0
        /\ ~truncated => Available = SaturatingSub(DecodableEnd, buffer_base)
    BY <1>2, <1>3, <1>4, <1>5 DEF Available, Least, SaturatingSub
  <1>7. Available > 0 => /\ buffer_base + Available = DecodableEnd
                         /\ DecodableEnd + layout.footer_size = received
    <2>. SUFFICES ASSUME Available > 0
                  PROVE  /\ buffer_base + Available = DecodableEnd
                         /\ DecodableEnd + layout.footer_size = received
      OBVIOUS
    <2>1. Available = SaturatingSub(DecodableEnd, buffer_base)
      BY <1>6
    <2>2. buffer_base + Available = DecodableEnd
      BY <1>2, <1>3, <2>1 DEF SaturatingSub
    <2>3. DecodableEnd > 0
      BY <1>2, <1>6, <2>2
    <2>. QED
      BY <1>1, <1>2, <2>2, <2>3 DEF SaturatingSub, DecodableEnd
  <1>8. Skip \in Nat /\ Skip <= Available /\ Skip <= header_left
    BY <1>2, <1>6 DEF Skip, Least
  <1>. QED
    BY <1>3, <1>6, <1>7, <1>8

(***************************************************************************)
(* A slice of the unconsumed bytes is the same slice of the upload.        *)
(***************************************************************************)
LEMMA SliceAgrees ==
    ASSUME TypeOK, BufferIsWindow, ~truncated,
           NEW at \in Nat, NEW n \in Nat, start <= at, at + n <= Len(buffer)
    PROVE  Bytes(buffer, at, n) = Bytes(file, buffer_base + (at - start), n)
  <1>1. /\ received \in Nat /\ buffer_base \in Nat /\ start \in Nat
        /\ Len(buffer) \in Nat
    BY DEF TypeOK
  <1>2. Len(buffer) - start = received - buffer_base
    BY DEF BufferIsWindow
  <1>3. ASSUME NEW i \in 1..n
        PROVE  buffer[at + i] = file[buffer_base + (at - start) + i]
    <2>1. (at - start) + i \in 1..(received - buffer_base)
      BY <1>1, <1>2
    <2>2. buffer[start + ((at - start) + i)]
            = file[buffer_base + ((at - start) + i)]
      BY <2>1 DEF BufferIsWindow
    <2>3. /\ start + ((at - start) + i) = at + i
          /\ buffer_base + ((at - start) + i) = buffer_base + (at - start) + i
      BY <1>1
    <2>. QED
      BY <2>2, <2>3
  <1>. QED
    BY <1>3 DEF Bytes

(***************************************************************************)
(* read_prefix gives the same answer on the buffer and on the upload.      *)
(***************************************************************************)
LEMMA PrefixAgrees ==
    ASSUME TypeOK, BufferIsWindow, PrefixReady,
           NEW A, A = buffer_base + Skip
    PROVE  /\ DeclaredLength(layout, buffer, At) = DeclaredLength(layout, file, A)
           /\ DeclaredType(layout, buffer, At) = DeclaredType(layout, file, A)
           /\ Schema(layout, buffer, At) = Schema(layout, file, A)
           /\ BodySize(layout, buffer, At) = BodySize(layout, file, A)
           /\ TotalSize(layout, buffer, At) = TotalSize(layout, file, A)
           /\ PrefixFailure(layout, buffer, At) = PrefixFailure(layout, file, A)
  <1> DEFINE ls == layout.record_length_field.size
             ts == layout.record_type_field.size
  <1>1. ls \in Nat /\ ts \in Nat /\ layout.prefix_size = ls + ts
    BY LayoutOK
  <1>2. /\ start \in Nat /\ buffer_base \in Nat /\ Len(buffer) \in Nat
        /\ Skip \in Nat /\ Available \in Nat
        /\ Available <= Len(buffer) - start
    BY AvailableOK DEF TypeOK
  <1>3. ~truncated /\ Available - Skip >= ls + ts
    BY <1>1 DEF PrefixReady, Ready
  <1>4. At \in Nat /\ At - start = Skip /\ start <= At
        /\ At + (ls + ts) <= Len(buffer)
    BY <1>1, <1>2, <1>3 DEF At
  <1> HIDE DEF ls, ts
  <1>5. Bytes(buffer, At, ls) = Bytes(file, A, ls)
    <2>1. At + ls <= Len(buffer)
      BY <1>1, <1>2, <1>4
    <2>. QED
      BY <2>1, <1>1, <1>3, <1>4, SliceAgrees
  <1>6. Bytes(buffer, At + ls, ts) = Bytes(file, A + ls, ts)
    <2>1. /\ At + ls \in Nat /\ start <= At + ls
          /\ (At + ls) + ts <= Len(buffer)
          /\ buffer_base + ((At + ls) - start) = A + ls
      BY <1>1, <1>2, <1>4
    <2>. QED
      BY <2>1, <1>1, <1>3, SliceAgrees
  <1>7. DeclaredLength(layout, buffer, At) = DeclaredLength(layout, file, A)
    BY <1>5 DEF DeclaredLength, ls
  <1>8. DeclaredType(layout, buffer, At) = DeclaredType(layout, file, A)
    BY <1>6 DEF DeclaredType, ls, ts
  <1>9. Schema(layout, buffer, At) = Schema(layout, file, A)
    BY <1>8 DEF Schema
  <1>10. BodySize(layout, buffer, At) = BodySize(layout, file, A)
    BY <1>7, <1>9 DEF BodySize
  <1>11. TotalSize(layout, buffer, At) = TotalSize(layout, file, A)
    BY <1>10 DEF TotalSize
  <1>12. PrefixFailure(layout, buffer, At) = PrefixFailure(layout, file, A)
    BY <1>7, <1>8, <1>10 DEF PrefixFailure, TooLong
  <1>. QED
    BY <1>7, <1>8, <1>9, <1>10, <1>11, <1>12

(***************************************************************************)
(* A prefix that is accepted selects a schema of the layout, a body within *)
(* the limit, and a record of at least one byte.                           *)
(***************************************************************************)
LEMMA AcceptedPrefix ==
    ASSUME TypeOK, BufferIsWindow, PrefixReady,
           PrefixFailure(layout, buffer, At) = "none"
    PROVE  /\ Schema(layout, buffer, At) \in DOMAIN layout.records
           /\ BodySize(layout, buffer, At) \in Nat
           /\ BodySize(layout, buffer, At) <= MaxRecordBytes
           /\ TotalSize(layout, buffer, At) \in Nat \ {0}
           /\ TotalSize(layout, buffer, At)
                 = layout.prefix_size + BodySize(layout, buffer, At)
  <1> DEFINE ls == layout.record_length_field.size
             ts == layout.record_type_field.size
             len == DeclaredLength(layout, buffer, At)
             type == DeclaredType(layout, buffer, At)
             k == Schema(layout, buffer, At)
             body == BodySize(layout, buffer, At)
  <1>1. ls \in Nat /\ ts \in Nat /\ layout.prefix_size = ls + ts
        /\ IsLayout(layout)
    BY LayoutOK
  <1>2. /\ ~(ls > 0 /\ len = Undecodable)
        /\ Select(layout, type) # {}
        /\ ~(body < 0)
        /\ ~(body > MaxRecordBytes)
    BY DEF PrefixFailure, TooLong
  <1>3. k \in DOMAIN layout.records
    <2>1. Select(layout, type) \subseteq DOMAIN layout.records
      BY <1>1 DEF Select, IsLayout
    <2>. QED
      BY <1>2, <2>1 DEF Schema, SchemaOf
  <1>4. layout.records[k].size \in Nat \ {0}
    BY <1>1, <1>3 DEF IsLayout, IsRecordLayout
  <1>5. ls > 0 => len \in Int
    <2>1. /\ start \in Nat /\ Len(buffer) \in Nat /\ Skip \in Nat
          /\ Available \in Nat /\ Available <= Len(buffer) - start
          /\ buffer \in Seq(Byte) /\ request \in Requests
      BY AvailableOK DEF TypeOK
    <2>2. Available - Skip >= ls + ts
      BY <1>1 DEF PrefixReady, Ready
    <2>3. At \in Nat /\ At + ls <= Len(buffer)
      <3> HIDE DEF ls, ts
      <3>. QED
        BY <1>1, <2>1, <2>2 DEF At
    <2>4. Bytes(buffer, At, ls) \in [1..ls -> Byte]
      BY <1>1, <2>1, <2>3, BytesSeq
    <2>5. ls > 0 => len \in Int \cup {Undecodable}
      BY <2>1, <2>4, DecodeAssumption DEF DeclaredLength, layout
    <2>. QED
      BY <1>2, <2>5
  <1>6. body = IF ls = 0 THEN layout.records[k].size
                         ELSE len - layout.prefix_size
    BY DEF BodySize
  <1>7. TotalSize(layout, buffer, At) = layout.prefix_size + body
    BY DEF TotalSize
  <1> HIDE DEF ls, ts, len, type, k, body
  <1>8. body \in Int
    BY <1>1, <1>4, <1>5, <1>6
  <1>9. body \in Nat /\ body <= MaxRecordBytes
    BY <1>2, <1>8, DecodeAssumption
  <1>10. layout.prefix_size + body \in Nat \ {0}
    <2>1. CASE ls = 0
      <3>1. body = layout.records[k].size
        BY <1>6, <2>1
      <3>2. body > 0 /\ layout.prefix_size \in Nat
        BY <1>1, <1>4, <1>9, <3>1
      <3>. QED
        BY <1>9, <3>2
    <2>2. CASE ls # 0
      <3>1. layout.prefix_size > 0 /\ layout.prefix_size \in Nat
        BY <1>1, <2>2
      <3>. QED
        BY <1>9, <3>1
    <2>. QED
      BY <2>1, <2>2
  <1>. QED
    BY <1>3, <1>7, <1>9, <1>10 DEF k, body

(***************************************************************************)
(* decode_cells gives the same cells on the buffer and on the upload.      *)
(***************************************************************************)
LEMMA CellsAgree ==
    ASSUME TypeOK, BufferIsWindow, BodyReady,
           NEW A, A = buffer_base + Skip
    PROVE  /\ CellsFail(layout, buffer, At) <=> CellsFail(layout, file, A)
           /\ ~CellsFail(layout, buffer, At) =>
                 Cells(layout, buffer, At) = Cells(layout, file, A)
  <1> DEFINE k == Schema(layout, buffer, At)
             record == layout.records[k]
             body == BodySize(layout, buffer, At)
             P == layout.prefix_size
             Slice(i) == Bytes(buffer, At + P + record.fields[i].offset,
                               record.fields[i].size)
             FileSlice(i) == Bytes(file, A + P + record.fields[i].offset,
                                   record.fields[i].size)
             Fits(i) == record.fields[i].offset + record.fields[i].size <= body
  <1>1. PrefixReady /\ PrefixFailure(layout, buffer, At) = "none"
        /\ Ready >= TotalSize(layout, buffer, At)
    BY DEF BodyReady
  <1>2. k = Schema(layout, file, A) /\ body = BodySize(layout, file, A)
    BY <1>1, PrefixAgrees
  <1>3. k \in DOMAIN layout.records /\ body \in Nat
        /\ Ready >= P + body /\ P \in Nat
    BY <1>1, AcceptedPrefix, LayoutOK
  <1>4. ASSUME NEW i \in DOMAIN record.fields
        PROVE  record.fields[i].offset \in Nat /\ record.fields[i].size \in Nat
    <2>1. record.fields \in Seq(Field)
      BY <1>3, LayoutOK DEF IsLayout, IsRecordLayout
    <2>2. record.fields[i] \in Field
      BY <2>1, <1>4
    <2>. QED
      BY <2>2 DEF Field
  <1>5. /\ start \in Nat /\ buffer_base \in Nat /\ Len(buffer) \in Nat
        /\ Skip \in Nat /\ Available \in Nat
        /\ Available <= Len(buffer) - start
        /\ ~truncated
    BY <1>1, AvailableOK DEF TypeOK, PrefixReady
  <1>6. At \in Nat /\ At = start + Skip /\ At + P + body <= Len(buffer)
    BY <1>3, <1>5 DEF At, Ready
  <1> HIDE DEF k, body, P
  <1>7. ASSUME NEW i \in DOMAIN record.fields, Fits(i)
        PROVE  Slice(i) = FileSlice(i)
    <2> DEFINE o == record.fields[i].offset
               n == record.fields[i].size
    <2>1. o \in Nat /\ n \in Nat /\ o + n <= body
      BY <1>4, <1>7
    <2> HIDE DEF o, n
    <2>2. /\ At + P + o \in Nat /\ start <= At + P + o
          /\ (At + P + o) + n <= Len(buffer)
          /\ buffer_base + ((At + P + o) - start) = A + P + o
      BY <1>3, <1>5, <1>6, <2>1
    <2>3. Bytes(buffer, At + P + o, n) = Bytes(file, A + P + o, n)
      BY <2>1, <2>2, <1>5, SliceAgrees
    <2>. QED
      BY <2>3 DEF o, n
  <1>8. Cells(layout, buffer, At)
          = [i \in Decoded(record) |-> DecodeField(record.fields[i], Slice(i))]
    BY DEF Cells, k, P
  <1>9. Cells(layout, file, A)
          = [i \in Decoded(record) |-> DecodeField(record.fields[i], FileSlice(i))]
    BY <1>2 DEF Cells, k, P
  <1>10. Decoded(record) \subseteq DOMAIN record.fields
    BY DEF Decoded
  <1>11. CellsFail(layout, buffer, At) <=>
           \E i \in Decoded(record) :
              Fits(i) => Cells(layout, buffer, At)[i] = Undecodable
    BY DEF CellsFail, k, body
  <1>12. CellsFail(layout, file, A) <=>
           \E i \in Decoded(record) :
              Fits(i) => Cells(layout, file, A)[i] = Undecodable
    BY <1>2 DEF CellsFail, k, body
  <1>13. ASSUME NEW i \in Decoded(record), Fits(i)
         PROVE  Cells(layout, buffer, At)[i] = Cells(layout, file, A)[i]
    BY <1>7, <1>8, <1>9, <1>10, <1>13
  <1>14. CellsFail(layout, buffer, At) <=> CellsFail(layout, file, A)
    BY <1>11, <1>12, <1>13
  <1>15. ASSUME ~CellsFail(layout, buffer, At)
         PROVE  Cells(layout, buffer, At) = Cells(layout, file, A)
    <2>1. \A i \in Decoded(record) : Fits(i)
      BY <1>11, <1>15
    <2>2. \A i \in Decoded(record) : Slice(i) = FileSlice(i)
      BY <1>7, <1>10, <2>1
    <2> HIDE DEF Slice, FileSlice
    <2>. QED
      BY <1>8, <1>9, <2>2
  <1>. QED
    BY <1>14, <1>15

-----------------------------------------------------------------------------
(***************************************************************************)
(* The first half of RowsTile, which the cursor plays no part in.          *)
(***************************************************************************)
RowsPlaced ==
    \A i \in 1..Len(rows) :
       /\ rows[i].byte_offset = IF i = 1 THEN layout.header_size
                                         ELSE RowEnd(i - 1)
       /\ rows[i].byte_length > 0

(***************************************************************************)
(* The offset of the next record, absolute in the upload, is a number.     *)
(***************************************************************************)
LEMMA NextOffsetNat ==
    ASSUME IInv
    PROVE  NextOffset \in Nat
  <1>1. \A i \in 1..Len(rows) : RowEnd(i) \in Nat
    BY DEF IInv, RowsOK, RowEnd
  <1>2. CASE rows = <<>>
    BY <1>2, LayoutOK DEF NextOffset, IInv
  <1>3. CASE rows # <<>>
    <2>1. Len(rows) \in 1..Len(rows)
      BY <1>3 DEF IInv, RowsOK
    <2>. QED
      BY <1>3, <2>1, <1>1 DEF NextOffset
  <1>. QED
    BY <1>2, <1>3

(***************************************************************************)
(* A step that leaves the rows alone and forgets no received byte keeps    *)
(* what is said of the rows.                                               *)
(***************************************************************************)
LEMMA RowsFrame ==
    ASSUME IInv, UNCHANGED <<file, request, rows>>,
           received' \in Nat, received' >= received
    PROVE  /\ RowsOK'
           /\ RowsAreTheFiles'
           /\ FooterUntouched'
           /\ RowsPlaced'
           /\ NextOffset' = NextOffset
           /\ NextOffset \in Nat
           /\ layout' = layout
  <1>1. layout' = layout /\ file' = file /\ rows' = rows
    BY DEF layout
  <1>2. RowsOK'
    BY <1>1 DEF IInv, RowsOK
  <1>3. RowsAreTheFiles'
    BY <1>1 DEF IInv, RowsAreTheFiles
  <1>4. \A i \in 1..Len(rows) : RowEnd(i) \in Nat /\ RowEnd(i)' = RowEnd(i)
    BY <1>1 DEF IInv, RowsOK, RowEnd
  <1>5. FooterUntouched'
    <2>1. layout.footer_size \in Nat /\ received \in Nat
      BY LayoutOK DEF IInv, TypeOK
    <2>2. ASSUME NEW i \in 1..Len(rows)
          PROVE  (RowEnd(i) + layout.footer_size <= received)'
      <3>1. RowEnd(i) + layout.footer_size <= received
        BY DEF IInv, FooterUntouched
      <3>. QED
        BY <1>1, <1>4, <2>1, <3>1
    <2>. QED
      BY <1>1, <2>2 DEF FooterUntouched
  <1>6. RowsPlaced'
    BY <1>1 DEF IInv, RowsTile, RowsPlaced, RowEnd
  <1>7. NextOffset' = NextOffset
    BY <1>1 DEF NextOffset, RowEnd
  <1>8. NextOffset \in Nat
    BY NextOffsetNat
  <1>. QED
    BY <1>1, <1>2, <1>3, <1>5, <1>6, <1>7, <1>8

(***************************************************************************)
(* RecordStream::new establishes the invariant.                            *)
(***************************************************************************)
LEMMA InitInv == Init => IInv
  <1> SUFFICES ASSUME Init PROVE IInv
    OBVIOUS
  <1>1. /\ IsLayout(layout) /\ request.max_records \in Nat
        /\ layout.header_size \in Nat /\ layout.footer_size \in Nat
        /\ layout.prefix_size \in Nat
    <2>1. IsLayout(layout) /\ request.max_records \in Nat
      BY RequestAssumption DEF Init, layout
    <2>. QED
      BY <2>1 DEF IsLayout, Field
  <1>2. file \in Seq(Byte) /\ Len(file) \in Nat
    BY FileAssumption DEF Init
  <1>3. TypeOK
    <2>1. buffer \in Seq(Byte) /\ Len(buffer) = 0
      BY DEF Init
    <2>2. rows_per_type \in [DOMAIN layout.records -> Nat]
      BY DEF Init
    <2>3. phase \in Phases /\ failure \in Failures
      BY DEF Init, Phases, Failures
    <2>4. /\ file \in Files /\ request \in Requests
          /\ received = 0 /\ buffer_base = 0 /\ start = 0
          /\ header_left = layout.header_size /\ records_kept = 0
          /\ truncated = FALSE /\ input_finished = FALSE
      BY DEF Init
    <2>5. /\ start \in 0..Len(buffer) /\ received \in 0..Len(file)
          /\ buffer_base \in 0..received
          /\ header_left \in 0..layout.header_size
      BY <1>1, <1>2, <2>1, <2>4
    <2>. QED
      BY <2>1, <2>2, <2>3, <2>4, <2>5 DEF TypeOK
  <1>4. RowsOK
    BY DEF Init, RowsOK
  <1>5. DecodableEnd = 0
    BY <1>1 DEF Init, DecodableEnd, SaturatingSub
  <1>6. LoopInv /\ BufferIsWindow
    BY <1>5 DEF Init, LoopInv, BufferIsWindow
  <1>7. RowsTile /\ FooterUntouched /\ RowsAreTheFiles
    BY <1>1 DEF Init, RowsTile, FooterUntouched, RowsAreTheFiles, NextOffset
  <1>8. NeverLate
    BY <1>1, <1>5 DEF Init, NeverLate, Decidable, NextOffset
  <1>9. StopsAtMaxRecords
    BY <1>1 DEF Init, StopsAtMaxRecords
  <1>. QED
    BY <1>3, <1>4, <1>6, <1>7, <1>8, <1>9 DEF IInv

(***************************************************************************)
(* Push: the window is kept because the buffer and the unconsumed bytes    *)
(* grow by the same chunk; nothing is asked of the cursor while the caller *)
(* drains.                                                                 *)
(***************************************************************************)
LEMMA PushInv ==
    ASSUME IInv, NEW n \in 0..(Len(file) - received), Push(n)
    PROVE  IInv'
  <1>1. /\ phase = "receive" /\ phase' = "drain"
        /\ received' = received + n
        /\ UNCHANGED <<file, request, records_kept, rows_per_type, truncated,
                       rows, header_left, input_finished, failure, status>>
    BY DEF Push, Absorb, config, counts
  <1>2. /\ file \in Seq(Byte) /\ Len(file) \in Nat /\ received \in Nat
        /\ received <= Len(file) /\ buffer_base \in Nat
        /\ buffer_base <= received /\ n \in Nat /\ received + n <= Len(file)
        /\ buffer \in Seq(Byte) /\ start \in Nat /\ start <= Len(buffer)
        /\ Len(buffer) \in Nat
        /\ truncated \in BOOLEAN
    BY FileAssumption DEF IInv, TypeOK
  <1>3. received' \in Nat /\ received' >= received
    BY <1>1, <1>2
  <1>4. /\ RowsOK' /\ RowsAreTheFiles' /\ FooterUntouched' /\ RowsPlaced'
        /\ NextOffset' = NextOffset /\ NextOffset \in Nat /\ layout' = layout
    BY <1>1, <1>3, RowsFrame
  <1> DEFINE chunk == Bytes(file, received, n)
  <1>5. /\ Pending \in Seq(Byte) /\ Len(Pending) = Len(buffer) - start
        /\ \A i \in 1..(Len(buffer) - start) : Pending[i] = buffer[start + i]
        /\ chunk \in Seq(Byte) /\ Len(chunk) = n
        /\ \A i \in 1..n : chunk[i] = file[received + i]
    <2> DEFINE m == Len(buffer) - start
    <2>1. m \in Nat /\ start + m <= Len(buffer)
      BY <1>2
    <2>2. Pending = Bytes(buffer, start, m)
      BY DEF Pending
    <2> HIDE DEF m
    <2>3. /\ Pending \in Seq(Byte) /\ Len(Pending) = m
          /\ \A i \in 1..m : Pending[i] = buffer[start + i]
      BY <1>2, <2>1, <2>2, BytesSeq
    <2>4. /\ chunk \in Seq(Byte) /\ Len(chunk) = n
          /\ \A i \in 1..n : chunk[i] = file[received + i]
      BY <1>2, BytesSeq
    <2>5. m = Len(buffer) - start
      BY DEF m
    <2> HIDE DEF chunk
    <2>. QED
      BY <2>3, <2>4, <2>5
  <1>6. CASE truncated
    <2>1. buffer' = <<>> /\ start' = 0 /\ buffer_base' = received' /\ truncated'
      BY <1>1, <1>6 DEF Push, Absorb
    <2>2. TypeOK'
      <3>1. buffer' \in Seq(Byte) /\ Len(buffer') = 0
        BY <2>1
      <3>. QED
        BY <1>1, <1>2, <1>3, <1>4, <2>1, <3>1 DEF IInv, TypeOK, Phases
    <2>3. LoopInv'
      BY <1>1, <2>1, <1>2 DEF IInv, LoopInv
    <2>4. BufferIsWindow'
      BY <2>1 DEF BufferIsWindow
    <2>5. RowsTile'
      BY <1>1, <1>4, <2>1 DEF IInv, RowsTile, RowsPlaced
    <2>6. NeverLate' /\ StopsAtMaxRecords'
      BY <1>1 DEF IInv, NeverLate, StopsAtMaxRecords
    <2>. QED
      BY <1>4, <2>2, <2>3, <2>4, <2>5, <2>6 DEF IInv
  <1>7. CASE ~truncated
    <2>1. /\ buffer' = Pending \o chunk /\ start' = 0
          /\ buffer_base' = buffer_base /\ ~truncated'
      BY <1>1, <1>7 DEF Push, Absorb
    <2>2. /\ buffer' \in Seq(Byte)
          /\ Len(buffer') = (Len(buffer) - start) + n
          /\ \A i \in 1..(Len(buffer) - start) : buffer'[i] = Pending[i]
          /\ \A i \in 1..n : buffer'[(Len(buffer) - start) + i] = chunk[i]
      <3> DEFINE m == Len(buffer) - start
      <3>1. m \in Nat /\ Len(Pending) = m /\ Pending \in Seq(Byte)
        BY <1>2, <1>5
      <3> HIDE DEF m, chunk
      <3>2. /\ buffer' \in Seq(Byte)
            /\ Len(buffer') = m + n
            /\ \A i \in 1..(m + n) :
                  buffer'[i] = IF i <= m THEN Pending[i] ELSE chunk[i - m]
        <4>1. chunk \in Seq(Byte) /\ Len(chunk) = n
          BY <1>5
        <4>2. /\ Pending \o chunk \in Seq(Byte)
              /\ Len(Pending \o chunk) = Len(Pending) + Len(chunk)
              /\ \A i \in 1..Len(Pending) + Len(chunk) :
                    (Pending \o chunk)[i] = IF i <= Len(Pending)
                       THEN Pending[i] ELSE chunk[i - Len(Pending)]
          BY <3>1, <4>1, ConcatProperties, Zenon
        <4>. QED
          BY <2>1, <3>1, <4>1, <4>2
      <3>3. \A i \in 1..m : buffer'[i] = Pending[i]
        BY <1>2, <3>1, <3>2
      <3>4. \A i \in 1..n : buffer'[m + i] = chunk[i]
        <4>1. \A i \in 1..n : m + i \in 1..(m + n) /\ ~(m + i <= m)
                               /\ (m + i) - m = i
          BY <1>2, <3>1
        <4>. QED
          BY <3>2, <4>1
      <3>. QED
        BY <3>2, <3>3, <3>4 DEF m
    <2>3. TypeOK'
      BY <1>1, <1>2, <1>3, <1>4, <2>1, <2>2 DEF IInv, TypeOK, Phases
    <2>4. LoopInv'
      <3>1. DecodableEnd' >= DecodableEnd /\ DecodableEnd \in Nat
            /\ DecodableEnd' \in Nat
        <4>1. layout.footer_size \in Nat
          BY LayoutOK DEF IInv
        <4>2. DecodableEnd' = SaturatingSub(received + n, layout.footer_size)
          BY <1>1, <1>4 DEF DecodableEnd
        <4>3. DecodableEnd = SaturatingSub(received, layout.footer_size)
          BY DEF DecodableEnd
        <4>. QED
          BY <1>2, <4>1, <4>2, <4>3, SMTT(30) DEF SaturatingSub
      <3>2. buffer_base' <= DecodableEnd'
        BY <1>2, <1>7, <2>1, <3>1 DEF IInv, LoopInv
      <3>3. input_finished' => received' = Len(file)'
        BY <1>1, <1>2 DEF IInv, LoopInv
      <3>. QED
        BY <1>1, <3>2, <3>3 DEF IInv, LoopInv
    <2>5. BufferIsWindow'
      <3>1. Len(buffer) - start = received - buffer_base
        BY <1>7 DEF IInv, BufferIsWindow
      <3>2. ASSUME NEW i \in 1..(received + n - buffer_base)
            PROVE  buffer'[i] = file[buffer_base + i]
        <4>1. CASE i <= received - buffer_base
          <5>1. i \in 1..(received - buffer_base)
            BY <1>2, <4>1
          <5>2. buffer'[i] = buffer[start + i]
            BY <1>5, <2>2, <3>1, <5>1
          <5>3. buffer[start + i] = file[buffer_base + i]
            BY <1>7, <5>1 DEF IInv, BufferIsWindow
          <5>. QED
            BY <5>2, <5>3
        <4>2. CASE i > received - buffer_base
          <5> DEFINE j == i - (received - buffer_base)
          <5>1. j \in 1..n /\ i = (received - buffer_base) + j
                /\ received + j = buffer_base + i
            BY <1>2, <4>2
          <5>2. buffer'[i] = chunk[j]
            BY <2>2, <3>1, <5>1
          <5>3. chunk[j] = file[received + j]
            BY <1>5, <5>1
          <5>. QED
            BY <5>1, <5>2, <5>3
        <4>. QED
          BY <1>2, <4>1, <4>2
      <3>3. /\ Len(buffer') - start' = received' - buffer_base'
            /\ \A i \in 1..(received' - buffer_base') :
                  buffer'[start' + i] = file'[buffer_base' + i]
        <4>1. Len(buffer') - start' = received' - buffer_base'
          <5>1. /\ Len(buffer') = (received - buffer_base) + n /\ start' = 0
                /\ received' = received + n /\ buffer_base' = buffer_base
            BY <1>1, <2>1, <2>2, <3>1
          <5>. QED
            BY <1>2, <5>1
        <4>2. ASSUME NEW i \in 1..(received' - buffer_base')
              PROVE  buffer'[start' + i] = file'[buffer_base' + i]
          <5>1. i \in 1..(received + n - buffer_base) /\ start' + i = i
            BY <1>1, <1>2, <2>1
          <5>. QED
            BY <1>1, <2>1, <3>2, <5>1
        <4>. QED
          BY <4>1, <4>2
      <3>. QED
        BY <2>1, <3>3 DEF BufferIsWindow
    <2>6. RowsTile'
      BY <1>1, <1>4, <1>7, <2>1 DEF IInv, RowsTile, RowsPlaced
    <2>7. NeverLate' /\ StopsAtMaxRecords'
      BY <1>1 DEF IInv, NeverLate, StopsAtMaxRecords
    <2>. QED
      BY <1>4, <2>3, <2>4, <2>5, <2>6, <2>7 DEF IInv
  <1>. QED
    BY <1>2, <1>6, <1>7

(***************************************************************************)
(* The steps that move only the caller: finish_input and the trailer.      *)
(***************************************************************************)
LEMMA CallerInv ==
    ASSUME IInv, FinishInput \/ Status \/ AbortTrailing
    PROVE  IInv'
  <1>1. /\ UNCHANGED <<file, request, buffer, start, buffer_base, header_left,
                       records_kept, rows_per_type, truncated, rows, received>>
        /\ phase' \in {"drain", "done", "failed"}
        /\ phase' = "done" => phase = "trailer"
        /\ failure' \in Failures /\ input_finished' \in BOOLEAN
        /\ input_finished => input_finished'
        /\ input_finished' => received = Len(file)
    BY DEF FinishInput, Status, AbortTrailing, config, cursor, counts,
           Failures, IInv, TypeOK, LoopInv
  <1>2. received \in Nat /\ received >= received
    BY FileAssumption DEF IInv, TypeOK
  <1>3. /\ RowsOK' /\ RowsAreTheFiles' /\ FooterUntouched' /\ RowsPlaced'
        /\ NextOffset' = NextOffset /\ layout' = layout
    BY <1>1, <1>2, RowsFrame
  <1>4. DecodableEnd' = DecodableEnd
    BY <1>1, <1>3 DEF DecodableEnd
  <1>5. TypeOK'
    BY <1>1, <1>3 DEF IInv, TypeOK, Phases
  <1>6. LoopInv'
    BY <1>1, <1>4 DEF IInv, LoopInv
  <1>7. BufferIsWindow'
    BY <1>1 DEF IInv, BufferIsWindow
  <1>8. RowsTile'
    BY <1>1, <1>3 DEF IInv, RowsTile, RowsPlaced
  <1>9. NeverLate'
    BY <1>1, <1>3, <1>4 DEF IInv, NeverLate, Decidable
  <1>10. StopsAtMaxRecords'
    BY <1>1 DEF IInv, StopsAtMaxRecords
  <1>. QED
    BY <1>3, <1>5, <1>6, <1>7, <1>8, <1>9, <1>10 DEF IInv

(***************************************************************************)
(* What every outcome of next_record shares: the header bytes that are     *)
(* there are skipped, and the next record, if the header is done, starts   *)
(* at the cursor.                                                          *)
(***************************************************************************)
LEMMA SkipInv ==
    ASSUME IInv, SkipHeader,
           UNCHANGED <<config, counts, received, input_finished>>,
           failure' \in Failures, phase' \in Phases
    PROVE  /\ TypeOK'
           /\ RowsOK'
           /\ RowsTile'
           /\ RowsAreTheFiles'
           /\ FooterUntouched'
           /\ BufferIsWindow'
           /\ StopsAtMaxRecords'
           /\ DecodableEnd' = DecodableEnd
           /\ NextOffset' = NextOffset
           /\ layout' = layout
           /\ ~truncated => buffer_base' <= DecodableEnd
  <1>1. /\ UNCHANGED <<file, request, records_kept, rows_per_type, truncated,
                       rows, received, input_finished, buffer>>
        /\ start' = start + Skip /\ buffer_base' = buffer_base + Skip
        /\ header_left' = header_left - Skip
    BY DEF SkipHeader, At, config, counts
  <1>2. /\ TypeOK /\ BufferIsWindow /\ RowsTile
        /\ start \in Nat /\ buffer_base \in Nat /\ header_left \in Nat
        /\ Len(buffer) \in Nat /\ received \in Nat
        /\ header_left <= layout.header_size /\ layout.header_size \in Nat
        /\ truncated \in BOOLEAN
    BY LayoutOK, FileAssumption DEF IInv, TypeOK
  <1>3. /\ Skip \in Nat /\ Available \in Nat /\ Skip <= Available
        /\ Skip <= header_left /\ Available <= Len(buffer) - start
        /\ buffer_base + Available <= received
        /\ truncated => Skip = 0
        /\ Available > 0 => buffer_base + Available = DecodableEnd
    BY <1>2, AvailableOK
  <1>4. /\ RowsOK' /\ RowsAreTheFiles' /\ FooterUntouched' /\ RowsPlaced'
        /\ NextOffset' = NextOffset /\ NextOffset \in Nat /\ layout' = layout
    BY <1>1, <1>2, RowsFrame
  <1>5. DecodableEnd' = DecodableEnd
    BY <1>1, <1>4 DEF DecodableEnd
  <1>6. TypeOK'
    <2>1. /\ start' \in 0..Len(buffer) /\ buffer_base' \in 0..received
          /\ header_left' \in 0..layout.header_size
      BY <1>1, <1>2, <1>3
    <2>. QED
      BY <1>1, <1>2, <1>4, <2>1 DEF TypeOK
  <1>7. BufferIsWindow'
    <2>1. CASE truncated
      BY <1>1, <1>2, <1>3, <2>1 DEF BufferIsWindow
    <2>2. CASE ~truncated
      <3>1. /\ Len(buffer) - start = received - buffer_base
            /\ \A i \in 1..(received - buffer_base) :
                  buffer[start + i] = file[buffer_base + i]
        BY <1>2, <2>2 DEF BufferIsWindow
      <3>2. Len(buffer) - start' = received - buffer_base'
        BY <1>1, <1>2, <1>3, <3>1
      <3>3. ASSUME NEW i \in 1..(received - buffer_base')
            PROVE  buffer[start' + i] = file[buffer_base' + i]
        <4>1. /\ Skip + i \in 1..(received - buffer_base)
              /\ start + (Skip + i) = start' + i
              /\ buffer_base + (Skip + i) = buffer_base' + i
          BY <1>1, <1>2, <1>3
        <4>2. buffer[start + (Skip + i)] = file[buffer_base + (Skip + i)]
          BY <3>1, <4>1
        <4>. QED
          BY <4>1, <4>2
      <3>. QED
        BY <1>1, <2>2, <3>2, <3>3 DEF BufferIsWindow
    <2>. QED
      BY <1>2, <2>1, <2>2
  <1>8. RowsTile'
    <2>1. rows' # <<>> => header_left' = 0
      BY <1>1, <1>2, <1>3 DEF RowsTile
    <2>2. ~truncated' => buffer_base' = NextOffset' - header_left'
      BY <1>1, <1>2, <1>3, <1>4 DEF RowsTile
    <2>. QED
      BY <1>4, <2>1, <2>2 DEF RowsTile, RowsPlaced
  <1>9. StopsAtMaxRecords'
    BY <1>1 DEF IInv, StopsAtMaxRecords
  <1>10. ~truncated => buffer_base' <= DecodableEnd
    <2>1. ~truncated => buffer_base <= DecodableEnd
      BY DEF IInv, LoopInv
    <2>2. DecodableEnd \in Nat
      BY <1>2, AvailableOK
    <2>. QED
      BY <1>1, <1>2, <1>3, <2>1, <2>2
  <1>. QED
    BY <1>4, <1>5, <1>6, <1>7, <1>8, <1>9, <1>10

(***************************************************************************)
(* Err: the walk is over, and nothing more is claimed of the cursor.       *)
(***************************************************************************)
LEMMA RejectInv ==
    ASSUME IInv, RejectPrefix \/ RejectCells
    PROVE  IInv'
  <1>1. /\ SkipHeader /\ phase' = "failed"
        /\ UNCHANGED <<config, counts, received, input_finished>>
        /\ failure' \in Failures
    BY DEF RejectPrefix, RejectCells, PrefixFailure, Failures
  <1>2. phase' \in Phases
    BY <1>1 DEF Phases
  <1>3. /\ TypeOK' /\ RowsOK' /\ RowsTile' /\ RowsAreTheFiles'
        /\ FooterUntouched' /\ BufferIsWindow' /\ StopsAtMaxRecords'
        /\ DecodableEnd' = DecodableEnd
        /\ ~truncated => buffer_base' <= DecodableEnd
    BY <1>1, <1>2, SkipInv
  <1>4. LoopInv'
    BY <1>1, <1>3 DEF IInv, LoopInv, counts, config
  <1>5. NeverLate'
    BY <1>1 DEF NeverLate
  <1>. QED
    BY <1>3, <1>4, <1>5 DEF IInv

(***************************************************************************)
(* Ok(None): nothing decidable is left in front of the footer reserve.     *)
(***************************************************************************)
LEMMA NeedMoreInv ==
    ASSUME IInv, NeedMore
    PROVE  IInv'
  <1>1. /\ SkipHeader /\ phase' = AfterNone
        /\ UNCHANGED <<config, counts, received, input_finished>>
        /\ failure' = failure
    BY DEF NeedMore
  <1>2. phase' \in Phases /\ failure' \in Failures
    BY <1>1 DEF Phases, AfterNone, IInv, TypeOK
  <1>3. /\ TypeOK' /\ RowsOK' /\ RowsTile' /\ RowsAreTheFiles'
        /\ FooterUntouched' /\ BufferIsWindow' /\ StopsAtMaxRecords'
        /\ DecodableEnd' = DecodableEnd /\ NextOffset' = NextOffset
        /\ layout' = layout
        /\ ~truncated => buffer_base' <= DecodableEnd
    BY <1>1, <1>2, SkipInv
  <1>4. /\ UNCHANGED <<file, request, truncated, rows, received, records_kept>>
        /\ start' = start + Skip /\ buffer_base' = buffer_base + Skip
        /\ header_left' = header_left - Skip
    BY <1>1 DEF SkipHeader, At, config, counts
  <1>5. /\ TypeOK /\ BufferIsWindow
        /\ buffer_base \in Nat /\ header_left \in Nat /\ truncated \in BOOLEAN
        /\ layout.prefix_size \in Nat
        /\ DecodableEnd \in Nat /\ Available \in Nat
        /\ Skip \in Nat /\ Skip <= Available /\ Skip <= header_left
    BY LayoutOK, AvailableOK, FileAssumption DEF IInv, TypeOK
  <1>6. ASSUME ~truncated
        PROVE  /\ buffer_base + Available = DecodableEnd
               /\ buffer_base + Skip = NextOffset - header_left'
               /\ header_left' > 0 => Skip = Available
    <2>1. buffer_base <= DecodableEnd
      BY <1>6 DEF IInv, LoopInv
    <2>2. Available = SaturatingSub(DecodableEnd, buffer_base)
      BY <1>5, <1>6, AvailableOK
    <2>3. buffer_base + Available = DecodableEnd
      BY <1>5, <2>1, <2>2 DEF SaturatingSub
    <2>4. buffer_base + Skip = NextOffset - header_left'
      BY <1>3, <1>4, <1>6 DEF RowsTile
    <2>5. header_left' > 0 => Skip = Available
      BY <1>4, <1>5, <1>6 DEF Skip, Least
    <2>. QED
      BY <2>3, <2>4, <2>5
  <1>7. LoopInv'
    <2>1. header_left' > 0 /\ ~truncated => buffer_base' = DecodableEnd'
      BY <1>3, <1>4, <1>5, <1>6
    <2>2. truncated => header_left' = 0
      <3>1. truncated => rows # <<>>
        <4>1. rows = <<>> => Len(rows) = 0
          OBVIOUS
        <4>. QED
          BY <4>1 DEF IInv, StopsAtMaxRecords
      <3>. QED
        BY <1>3, <1>4, <3>1 DEF RowsTile
    <2>3. phase' \in {"trailer", "done"} => input_finished'
      BY <1>1 DEF AfterNone
    <2>. QED
      BY <1>1, <1>3, <1>4, <1>5, <2>1, <2>2, <2>3 DEF IInv, LoopInv
  <1>8. ASSUME ~truncated
        PROVE  ~Decidable(NextOffset, DecodableEnd)
    <2>1. NextOffset \in Nat
      BY NextOffsetNat
    <2>2. CASE header_left' > 0
      BY <1>4, <1>5, <1>6, <1>8, <2>1, <2>2 DEF Decidable
    <2>3. CASE header_left' = 0
      <3>1. NextOffset = buffer_base + Skip
        BY <1>4, <1>5, <1>6, <1>8, <2>1, <2>3
      <3>2. Ready = DecodableEnd - NextOffset /\ header_left = Skip
        BY <1>4, <1>5, <1>6, <1>8, <2>1, <2>3, <3>1 DEF Ready
      <3>3. CASE ~PrefixReady
        BY <1>5, <1>8, <2>1, <3>2, <3>3 DEF PrefixReady, Decidable
      <3>4. CASE PrefixReady
        <4>1. /\ PrefixFailure(layout, buffer, At) = "none"
              /\ Ready < TotalSize(layout, buffer, At)
          BY <3>4 DEF NeedMore
        <4>2. /\ PrefixFailure(layout, file, NextOffset) = "none"
              /\ TotalSize(layout, buffer, At)
                    = TotalSize(layout, file, NextOffset)
          BY <1>5, <3>1, <3>4, <4>1, PrefixAgrees
        <4>3. TotalSize(layout, buffer, At) \in Nat
          BY <1>5, <3>4, <4>1, AcceptedPrefix
        <4>. QED
          BY <1>5, <2>1, <3>2, <4>1, <4>2, <4>3 DEF Decidable
      <3>. QED
        BY <3>3, <3>4
    <2>. QED
      BY <1>4, <1>5, <2>2, <2>3
  <1>9. NeverLate'
    BY <1>3, <1>4, <1>8 DEF NeverLate, Decidable
  <1>. QED
    BY <1>3, <1>7, <1>9 DEF IInv

(***************************************************************************)
(* Appending to a sequence, whatever its elements are.                     *)
(***************************************************************************)
BytesAreASeq(s) == s \in Seq({s[i] : i \in DOMAIN s})

AppendsTo(t, s, e) ==
    /\ BytesAreASeq(t)
    /\ Len(s) \in Nat /\ DOMAIN s = 1..Len(s)
    /\ Len(t) = Len(s) + 1 /\ DOMAIN t = 1..(Len(s) + 1)
    /\ \A i \in 1..Len(s) : t[i] = s[i]
    /\ t[Len(s) + 1] = e

(***************************************************************************)
(* What records_kept counts: Append adds one element and keeps the others. *)
(***************************************************************************)
LEMMA AppendIsASeq ==
    ASSUME NEW s, BytesAreASeq(s), NEW e, NEW t, t = Append(s, e)
    PROVE  AppendsTo(t, s, e)
  <1> USE DEF BytesAreASeq
  <1> DEFINE S == {s[i] : i \in DOMAIN s} \cup {e}
             T == {t[i] : i \in DOMAIN t}
  <1>1. Len(s) \in Nat /\ DOMAIN s = 1..Len(s)
    OBVIOUS
  <1>2. s \in Seq(S) /\ e \in S
    <2>1. \A i \in 1..Len(s) : s[i] \in S
      BY <1>1
    <2>. QED
      BY <1>1, <2>1
  <1> HIDE DEF S
  <1>3. /\ t \in Seq(S) /\ Len(t) = Len(s) + 1
        /\ \A i \in 1..Len(s) : t[i] = s[i]
        /\ t[Len(s) + 1] = e
    BY <1>2, AppendProperties
  <1>4. DOMAIN t = 1..(Len(s) + 1)
    BY <1>3
  <1>5. t \in Seq(T)
    BY <1>1, <1>3, <1>4
  <1>. QED
    BY <1>1, <1>3, <1>4, <1>5 DEF AppendsTo

(***************************************************************************)
(* Ok(Some(row)): the new row starts where the last one ended, is what the *)
(* upload holds there, and ends before the footer reserve.                 *)
(***************************************************************************)
LEMMA EmitInv ==
    ASSUME IInv, Emit
    PROVE  IInv'
  <1> DEFINE A == buffer_base + Skip
             k == Schema(layout, buffer, At)
             total == TotalSize(layout, buffer, At)
             row == Row(k, total)
             m == Len(rows)
  <1>1. /\ BodyReady /\ ~CellsFail(layout, buffer, At)
        /\ rows' = Append(rows, row)
        /\ records_kept' = records_kept + 1
        /\ rows_per_type' = [rows_per_type EXCEPT ![k] = @ + 1]
        /\ header_left' = header_left - Skip
        /\ truncated' = LimitReached(records_kept')
        /\ \/ /\ truncated' /\ buffer' = <<>> /\ start' = 0
              /\ buffer_base' = received
           \/ /\ ~truncated' /\ start' = At + total
              /\ buffer_base' = A + total /\ buffer' = buffer
        /\ phase = "drain" /\ phase' = "drain"
        /\ UNCHANGED <<file, request, received, input_finished, failure>>
    BY DEF Emit, config
  <1>2. /\ TypeOK /\ RowsOK /\ BufferIsWindow /\ LoopInv /\ RowsTile
        /\ FooterUntouched /\ RowsAreTheFiles /\ StopsAtMaxRecords
        /\ received \in Nat /\ buffer_base \in Nat /\ start \in Nat
        /\ Len(buffer) \in Nat /\ header_left \in Nat
        /\ layout.footer_size \in Nat /\ layout.header_size \in Nat
        /\ request.max_records \in Nat /\ records_kept \in Nat
        /\ received <= Len(file) /\ Len(file) \in Nat
    BY LayoutOK, FileAssumption DEF IInv, TypeOK
  <1>3. /\ PrefixReady /\ PrefixFailure(layout, buffer, At) = "none"
        /\ Ready >= total /\ ~truncated /\ header_left = Skip
    BY <1>1 DEF BodyReady, PrefixReady
  <1>4. /\ k \in DOMAIN layout.records /\ total \in Nat \ {0}
    BY <1>2, <1>3, AcceptedPrefix
  <1>5. /\ PrefixFailure(layout, file, A) = "none"
        /\ k = Schema(layout, file, A)
        /\ total = TotalSize(layout, file, A)
        /\ ~CellsFail(layout, file, A)
        /\ Cells(layout, buffer, At) = Cells(layout, file, A)
    BY <1>1, <1>2, <1>3, PrefixAgrees, CellsAgree
  <1>6. /\ row.record_type = k /\ row.byte_offset = A
        /\ row.byte_length = total /\ row.cells = Cells(layout, buffer, At)
    BY DEF Row
  <1>7. layout' = layout /\ DecodableEnd' = DecodableEnd
    BY <1>1 DEF layout, DecodableEnd
  <1> HIDE DEF k, total, row
  <1>8. /\ DecodableEnd \in Nat /\ DecodableEnd <= received
        /\ Skip \in Nat /\ Skip <= Available /\ Available \in Nat
        /\ Available <= Len(buffer) - start
        /\ Available > 0 => /\ buffer_base + Available = DecodableEnd
                            /\ DecodableEnd + layout.footer_size = received
    BY <1>2, AvailableOK
  <1>9. A \in Nat /\ A + total <= DecodableEnd
        /\ A + total + layout.footer_size <= received
        /\ At + total <= Len(buffer) /\ At + total \in Nat
        /\ At = start + Skip
    <2>1. Available - Skip >= total
      BY <1>3 DEF Ready
    <2>. QED
      BY <1>2, <1>4, <1>8, <2>1 DEF At
  <1>10. A = NextOffset
    <2>1. buffer_base = NextOffset - header_left
      BY <1>2, <1>3 DEF RowsTile
    <2>. QED
      BY <1>2, <1>3, <1>8, <2>1, NextOffsetNat
  <1>11. /\ rows' \in Seq({rows'[i] : i \in DOMAIN rows'})
         /\ m \in Nat /\ DOMAIN rows = 1..m
         /\ Len(rows') = m + 1 /\ DOMAIN rows' = 1..(m + 1)
         /\ \A i \in 1..m : rows'[i] = rows[i]
         /\ rows'[m + 1] = row
    <2>1. BytesAreASeq(rows)
      BY <1>2 DEF RowsOK, BytesAreASeq
    <2>2. AppendsTo(rows', rows, row)
      BY <1>1, <2>1, AppendIsASeq
    <2>. QED
      BY <2>2 DEF AppendsTo, BytesAreASeq
  <1> HIDE DEF A, m
  <1>12. /\ \A i \in 1..m : RowEnd(i)' = RowEnd(i)
         /\ rows'[m + 1].byte_offset + rows'[m + 1].byte_length = A + total
    <2>1. \A i \in 1..m : RowEnd(i)' = RowEnd(i)
      BY <1>11 DEF RowEnd
    <2>. QED
      BY <1>6, <1>11, <2>1 DEF A
  <1>13. TypeOK'
    <2>1. /\ buffer' \in Seq(Byte) /\ start' \in 0..Len(buffer')
          /\ buffer_base' \in 0..received
      <3>1. CASE truncated'
        <4>1. buffer' = <<>> /\ start' = 0 /\ buffer_base' = received
          BY <1>1, <3>1
        <4>. QED
          BY <1>2, <4>1
      <3>2. CASE ~truncated'
        <4>1. buffer' = buffer /\ start' = At + total /\ buffer_base' = A + total
          BY <1>1, <3>2 DEF A
        <4>2. buffer \in Seq(Byte)
          BY <1>2 DEF TypeOK
        <4>. QED
          BY <1>2, <1>4, <1>8, <1>9, <4>1, <4>2
      <3>. QED
        BY <3>1, <3>2
    <2>2. header_left' \in 0..layout.header_size /\ records_kept' \in Nat
      BY <1>1, <1>2, <1>3, <1>8
    <2>3. rows_per_type' \in [DOMAIN layout.records -> Nat]
      BY <1>1, <1>2, <1>4 DEF TypeOK
    <2>4. truncated' \in BOOLEAN
      BY <1>1 DEF LimitReached
    <2>. QED
      BY <1>1, <1>2, <1>7, <2>1, <2>2, <2>3, <2>4 DEF TypeOK
  <1>14. RowsOK'
    <2>1. ASSUME NEW i \in 1..(m + 1)
          PROVE  rows'[i].byte_offset \in Nat /\ rows'[i].byte_length \in Nat
      <3>1. CASE i \in 1..m
        BY <1>2, <1>11, <3>1 DEF RowsOK
      <3>2. CASE i = m + 1
        BY <1>4, <1>6, <1>9, <1>11, <3>2 DEF A
      <3>. QED
        BY <1>11, <3>1, <3>2
    <2>. QED
      BY <1>11, <2>1 DEF RowsOK
  <1>15. LoopInv'
    <2>1. ~truncated' => buffer_base' <= DecodableEnd'
      BY <1>1, <1>7, <1>9 DEF A
    <2>2. records_kept' = Len(rows')
      BY <1>1, <1>2, <1>11 DEF LoopInv, m
    <2>. QED
      BY <1>1, <1>2, <2>1, <2>2 DEF LoopInv
  <1>16. BufferIsWindow'
    <2>1. CASE truncated'
      BY <1>1, <2>1 DEF BufferIsWindow
    <2>2. CASE ~truncated'
      <3>1. buffer' = buffer /\ start' = At + total /\ buffer_base' = A + total
        BY <1>1, <2>2 DEF A
      <3>2. /\ Len(buffer) - start = received - buffer_base
            /\ \A i \in 1..(received - buffer_base) :
                  buffer[start + i] = file[buffer_base + i]
        BY <1>2, <1>3 DEF BufferIsWindow
      <3>3. A = buffer_base + Skip
        BY DEF A
      <3>4. Len(buffer) - start' = received - buffer_base'
        BY <1>2, <1>4, <1>8, <1>9, <3>1, <3>2, <3>3, SMTT(30)
      <3>5. ASSUME NEW i \in 1..(received - buffer_base')
            PROVE  buffer[start' + i] = file[buffer_base' + i]
        <4>1. /\ Skip + total + i \in 1..(received - buffer_base)
              /\ start + (Skip + total + i) = start' + i
              /\ buffer_base + (Skip + total + i) = buffer_base' + i
          BY <1>2, <1>4, <1>8, <1>9, <3>1, <3>3
        <4>2. buffer[start + (Skip + total + i)]
                = file[buffer_base + (Skip + total + i)]
          BY <3>2, <4>1
        <4>. QED
          BY <4>1, <4>2
      <3>. QED
        BY <1>1, <2>2, <3>1, <3>4, <3>5 DEF BufferIsWindow
    <2>. QED
      BY <2>1, <2>2
  <1>17. RowsTile'
    <2>1. ASSUME NEW i \in 1..(m + 1)
          PROVE  /\ rows'[i].byte_offset = IF i = 1 THEN layout.header_size
                                                    ELSE RowEnd(i - 1)'
                 /\ rows'[i].byte_length > 0
      <3>1. CASE i \in 1..m
        <4>1. i # 1 => i - 1 \in 1..m
          BY <1>11, <3>1
        <4>. QED
          BY <1>2, <1>11, <1>12, <3>1, <4>1 DEF RowsTile, m
      <3>2. CASE i = m + 1
        <4>1. NextOffset = IF m = 0 THEN layout.header_size ELSE RowEnd(m)
          <5>1. rows = <<>> <=> m = 0
            BY <1>2 DEF RowsOK, m
          <5>. QED
            BY <5>1 DEF NextOffset, m
        <4>2. i - 1 = m /\ (m # 0 => m \in 1..m)
          BY <1>11, <3>2
        <4>. QED
          BY <1>4, <1>6, <1>10, <1>11, <1>12, <3>2, <4>1, <4>2 DEF A
      <3>. QED
        BY <1>11, <3>1, <3>2
    <2>2. header_left' = 0
      BY <1>1, <1>2, <1>3
    <2>3. NextOffset' = A + total
      <3>1. rows' # <<>>
        BY <1>11
      <3>. QED
        BY <1>11, <1>12, <3>1 DEF NextOffset, RowEnd
    <2>4. ~truncated' => buffer_base' = NextOffset' - header_left'
      BY <1>1, <1>4, <1>9, <2>2, <2>3 DEF A
    <2>. QED
      BY <1>7, <1>11, <2>1, <2>2, <2>4 DEF RowsTile
  <1>18. FooterUntouched'
    <2>1. ASSUME NEW i \in 1..(m + 1)
          PROVE  RowEnd(i)' + layout.footer_size <= received
      <3>1. CASE i \in 1..m
        BY <1>2, <1>12, <3>1 DEF FooterUntouched, m
      <3>2. CASE i = m + 1
        BY <1>9, <1>12, <3>2 DEF RowEnd, A
      <3>. QED
        BY <1>11, <3>1, <3>2
    <2>. QED
      BY <1>1, <1>7, <1>11, <2>1 DEF FooterUntouched
  <1>19. RowsAreTheFiles'
    <2> DEFINE Good(r) ==
                 /\ PrefixFailure(layout, file, r.byte_offset) = "none"
                 /\ ~CellsFail(layout, file, r.byte_offset)
                 /\ r.record_type = Schema(layout, file, r.byte_offset)
                 /\ r.byte_length = TotalSize(layout, file, r.byte_offset)
                 /\ r.cells = Cells(layout, file, r.byte_offset)
    <2>1. \A i \in 1..m : Good(rows[i])
      BY <1>2 DEF RowsAreTheFiles, m
    <2>2. Good(row)
      BY <1>5, <1>6 DEF A
    <2>3. \A i \in 1..(m + 1) : Good(rows'[i])
      <3>1. \A i \in 1..(m + 1) : i \in 1..m \/ i = m + 1
        BY <1>11
      <3>. QED
        BY <1>11, <2>1, <2>2, <3>1
    <2>. QED
      BY <1>1, <1>7, <1>11, <2>3 DEF RowsAreTheFiles
  <1>20. NeverLate'
    BY <1>1 DEF NeverLate
  <1>21. StopsAtMaxRecords'
    <2>1. records_kept' = m + 1
      BY <1>1, <1>2 DEF LoopInv, m
    <2>2. request.max_records # 0 => m < request.max_records
      BY <1>2, <1>3, <1>11 DEF StopsAtMaxRecords, m
    <2>. QED
      <3>1. request' = request /\ request.max_records \in Nat
            /\ m \in Nat /\ Len(rows') = m + 1
        BY <1>1, <1>2, <1>11
      <3>2. truncated' <=> /\ request.max_records # 0
                           /\ m + 1 >= request.max_records
        BY <1>1, <2>1, <3>1 DEF LimitReached
      <3>. QED
        BY <2>2, <3>1, <3>2 DEF StopsAtMaxRecords
  <1>. QED
    BY <1>13, <1>14, <1>15, <1>16, <1>17, <1>18, <1>19, <1>20, <1>21 DEF IInv

-----------------------------------------------------------------------------
(***************************************************************************)
(* Every step of the walker and of its caller keeps the invariant.         *)
(***************************************************************************)
LEMMA StepInv == IInv /\ [Next]_vars => IInv'
  <1> SUFFICES ASSUME IInv, [Next]_vars PROVE IInv'
    OBVIOUS
  <1>1. ASSUME NEW n \in 0..(Len(file) - received), Push(n)
        PROVE  IInv'
    BY <1>1, PushInv
  <1>2. CASE FinishInput \/ Status \/ AbortTrailing
    BY <1>2, CallerInv
  <1>3. CASE NeedMore
    BY <1>3, NeedMoreInv
  <1>4. CASE RejectPrefix \/ RejectCells
    BY <1>4, RejectInv
  <1>5. CASE Emit
    BY <1>5, EmitInv
  <1>6. CASE UNCHANGED vars
    BY <1>6 DEF vars, config, cursor, counts, IInv, TypeOK, RowsOK, LoopInv,
                BufferIsWindow, RowsTile, FooterUntouched, RowsAreTheFiles,
                NeverLate, StopsAtMaxRecords, layout, DecodableEnd,
                NextOffset, RowEnd, Decidable
  <1>. QED
    BY <1>1, <1>2, <1>3, <1>4, <1>5, <1>6 DEF Next, NextRecord

(***************************************************************************)
(* Every reachable state of the walker, for every layout, upload, decoder  *)
(* and way of cutting the upload into chunks, satisfies IInv.              *)
(***************************************************************************)
THEOREM WalkerInvariant == Spec => []IInv
  <1>. QED
    BY InitInv, StepInv, PTL DEF Spec

(***************************************************************************)
(* TypeOK: no cursor of RecordStream ever leaves the buffer it indexes, so *)
(* no slice expression of push, next_record or read_prefix can panic.      *)
(***************************************************************************)
THEOREM WalkerTypeOK == Spec => []TypeOK
  <1>1. IInv => TypeOK
    BY DEF IInv
  <1>. QED
    BY <1>1, WalkerInvariant, PTL

(***************************************************************************)
(* The compaction in push and the drop in next_record lose no byte.        *)
(***************************************************************************)
THEOREM WindowIsKept == Spec => []BufferIsWindow
  <1>1. IInv => BufferIsWindow
    BY DEF IInv
  <1>. QED
    BY <1>1, WalkerInvariant, PTL

(***************************************************************************)
(* Rows are contiguous from the end of the header.                         *)
(***************************************************************************)
THEOREM RowsTileTheInput == Spec => []RowsTile
  <1>1. IInv => RowsTile
    BY DEF IInv
  <1>. QED
    BY <1>1, WalkerInvariant, PTL

(***************************************************************************)
(* The footer of an upload of unknown length is never decoded.             *)
(***************************************************************************)
THEOREM FooterIsNeverDecoded == Spec => []FooterUntouched
  <1>1. IInv => FooterUntouched
    BY DEF IInv
  <1>. QED
    BY <1>1, WalkerInvariant, PTL

(***************************************************************************)
(* next_record decodes on its buffer what the whole upload holds there.    *)
(***************************************************************************)
THEOREM RowsComeFromTheUpload == Spec => []RowsAreTheFiles
  <1>1. IInv => RowsAreTheFiles
    BY DEF IInv
  <1>. QED
    BY <1>1, WalkerInvariant, PTL

(***************************************************************************)
(* A record, or the error in its prefix, is reported in the drain after    *)
(* the chunk that completed it.                                            *)
(***************************************************************************)
THEOREM RowsAreNeverLate == Spec => []NeverLate
  <1>1. IInv => NeverLate
    BY DEF IInv
  <1>. QED
    BY <1>1, WalkerInvariant, PTL

(***************************************************************************)
(* max_records bounds the rows and is what truncates.                      *)
(***************************************************************************)
THEOREM MaxRecordsStops == Spec => []StopsAtMaxRecords
  <1>1. IInv => StopsAtMaxRecords
    BY DEF IInv
  <1>. QED
    BY <1>1, WalkerInvariant, PTL

(***************************************************************************)
(* What a chunk finds unconsumed.                                          *)
(***************************************************************************)
PendingBounded ==
    phase = "receive" =>
        Len(buffer) - start
            < layout.footer_size + layout.prefix_size + MaxRecordBytes

(***************************************************************************)
(* What read_prefix accepts is at most MaxRecordBytes long, so an          *)
(* undecidable rest is shorter than a record and the footer reserve.       *)
(***************************************************************************)
LEMMA InvBounds == IInv => PendingBounded
  <1> SUFFICES ASSUME IInv, phase = "receive"
               PROVE  Len(buffer) - start
                        < layout.footer_size + layout.prefix_size + MaxRecordBytes
    BY DEF PendingBounded
  <1>1. /\ received \in Nat /\ buffer_base \in Nat /\ header_left \in Nat
        /\ Len(buffer) \in Nat /\ start \in Nat /\ truncated \in BOOLEAN
        /\ start <= Len(buffer) /\ buffer_base <= received
        /\ layout.footer_size \in Nat /\ layout.prefix_size \in Nat
        /\ MaxRecordBytes \in Nat \ {0}
        /\ TypeOK /\ BufferIsWindow
    BY LayoutOK, FileAssumption, DecodeAssumption DEF IInv, TypeOK
  <1>2. CASE truncated
    <2>1. Len(buffer) = 0
      BY <1>1, <1>2 DEF BufferIsWindow
    <2>. QED
      BY <1>1, <2>1
  <1>3. CASE ~truncated
    <2>1. Len(buffer) - start = received - buffer_base
      BY <1>1, <1>3 DEF BufferIsWindow
    <2>2. /\ DecodableEnd \in Nat /\ DecodableEnd + layout.footer_size >= received
          /\ buffer_base <= DecodableEnd
      <3>1. buffer_base <= DecodableEnd
        BY <1>3 DEF IInv, LoopInv
      <3>. QED
        BY <1>1, <3>1 DEF DecodableEnd, SaturatingSub
    <2>3. CASE header_left > 0
      <3>1. buffer_base = DecodableEnd
        BY <2>3 DEF IInv, LoopInv
      <3>. QED
        BY <1>1, <2>1, <2>2, <3>1, SMTT(30)
    <2>4. CASE header_left = 0
      <3>1. NextOffset = buffer_base
        <4>1. buffer_base = NextOffset - header_left
          BY <1>3 DEF IInv, RowsTile
        <4>. QED
          BY <1>1, <2>4, <4>1, NextOffsetNat
      <3>2. ~Decidable(buffer_base, DecodableEnd)
        BY <1>3, <3>1 DEF IInv, NeverLate
      <3>3. CASE buffer_base + layout.prefix_size > DecodableEnd
        BY <1>1, <2>1, <2>2, <3>3, SMTT(30)
      <3>4. CASE ~(buffer_base < DecodableEnd)
        BY <1>1, <2>1, <2>2, <3>4, SMTT(30)
      <3>5. CASE /\ PrefixFailure(layout, file, buffer_base) = "none"
                 /\ ~(buffer_base + TotalSize(layout, file, buffer_base)
                         <= DecodableEnd)
                 /\ buffer_base + layout.prefix_size <= DecodableEnd
                 /\ buffer_base < DecodableEnd
        <4>1. Skip = 0 /\ Available = DecodableEnd - buffer_base
          <5>1. Available = SaturatingSub(DecodableEnd, buffer_base)
            BY <1>1, <1>3, AvailableOK
          <5>2. Available = DecodableEnd - buffer_base
            BY <1>1, <2>2, <5>1 DEF SaturatingSub
          <5>. QED
            BY <1>1, <1>3, <2>2, <2>4, <5>2 DEF Skip, Least
        <4>2. PrefixReady
          BY <1>1, <1>3, <2>2, <2>4, <3>5, <4>1 DEF PrefixReady, Ready
        <4>3. /\ PrefixFailure(layout, buffer, At) = "none"
              /\ TotalSize(layout, buffer, At)
                    = TotalSize(layout, file, buffer_base)
          <5>1. buffer_base = buffer_base + Skip
            BY <1>1, <4>1
          <5>2. /\ PrefixFailure(layout, buffer, At)
                     = PrefixFailure(layout, file, buffer_base)
                /\ TotalSize(layout, buffer, At)
                     = TotalSize(layout, file, buffer_base)
            BY <1>1, <4>2, <5>1, PrefixAgrees
          <5>. QED
            BY <3>5, <5>2
        <4>4. /\ TotalSize(layout, buffer, At) \in Nat
              /\ TotalSize(layout, buffer, At)
                   <= layout.prefix_size + MaxRecordBytes
          <5>1. /\ TotalSize(layout, buffer, At) \in Nat
                /\ BodySize(layout, buffer, At) \in Nat
                /\ BodySize(layout, buffer, At) <= MaxRecordBytes
                /\ TotalSize(layout, buffer, At)
                     = layout.prefix_size + BodySize(layout, buffer, At)
            BY <1>1, <4>2, <4>3, AcceptedPrefix
          <5>. QED
            BY <1>1, <5>1
        <4> DEFINE T == TotalSize(layout, buffer, At)
        <4>5. T \in Nat /\ T <= layout.prefix_size + MaxRecordBytes
              /\ buffer_base + T > DecodableEnd
          <5>1. ~(buffer_base + T <= DecodableEnd)
            BY <3>5, <4>3
          <5>. QED
            BY <1>1, <2>2, <4>4, <5>1
        <4> HIDE DEF T
        <4>. QED
          BY <1>1, <2>1, <2>2, <4>5, SMTT(30)
      <3>. QED
        BY <1>1, <2>2, <3>2, <3>3, <3>4, <3>5 DEF Decidable
    <2>. QED
      BY <1>1, <2>3, <2>4
  <1>. QED
    BY <1>1, <1>2, <1>3

(***************************************************************************)
(* push drops the consumed bytes, so the buffer is what was unconsumed and *)
(* the chunk; a truncated walk keeps neither.                              *)
(***************************************************************************)
LEMMA PushHolds ==
    ASSUME IInv, NEW n \in 0..(Len(file) - received), Push(n)
    PROVE  /\ received' = received + n
           /\ Len(buffer') \in Nat
           /\ Len(buffer') <= (Len(buffer) - start) + n
  <1> DEFINE m == Len(buffer) - start
             chunk == Bytes(file, received, n)
  <1>1. /\ file \in Seq(Byte) /\ received \in Nat /\ n \in Nat
        /\ received + n <= Len(file) /\ Len(file) \in Nat
        /\ buffer \in Seq(Byte) /\ start \in Nat /\ m \in Nat
        /\ start + m <= Len(buffer) /\ truncated \in BOOLEAN
    BY FileAssumption DEF IInv, TypeOK
  <1>2. Pending = Bytes(buffer, start, m)
    BY DEF Pending
  <1>3. m = Len(buffer) - start
    OBVIOUS
  <1>4. /\ received' = received + n
        /\ \/ buffer' = <<>>
           \/ buffer' = Pending \o chunk
    BY DEF Push, Absorb
  <1> HIDE DEF m
  <1>5. /\ Pending \in Seq(Byte) /\ Len(Pending) = m
        /\ chunk \in Seq(Byte) /\ Len(chunk) = n
    BY <1>1, <1>2, BytesSeq
  <1> HIDE DEF chunk
  <1>6. CASE buffer' = <<>>
    <2>1. Len(buffer') = 0
      BY <1>6
    <2>. QED
      BY <1>1, <1>3, <1>4, <2>1
  <1>7. CASE buffer' = Pending \o chunk
    <2>1. Len(Pending \o chunk) = Len(Pending) + Len(chunk)
      BY <1>5
    <2>2. Len(buffer') = m + n
      BY <1>5, <1>7, <2>1, Zenon
    <2>. QED
      BY <1>1, <1>3, <1>4, <2>2
  <1>. QED
    BY <1>4, <1>6, <1>7

(***************************************************************************)
(* Nothing but push adds to the buffer.                                    *)
(***************************************************************************)
LEMMA OthersHold ==
    ASSUME IInv,
           FinishInput \/ NextRecord \/ Status \/ AbortTrailing \/ UNCHANGED vars
    PROVE  /\ Len(buffer') <= Len(buffer)
           /\ phase = "receive" => input_finished' \/ UNCHANGED vars
  <1>1. Len(buffer) \in Nat
    BY DEF IInv, TypeOK
  <1>2. buffer' = buffer \/ buffer' = <<>>
    BY DEF FinishInput, NextRecord, NeedMore, RejectPrefix, RejectCells, Emit,
           SkipHeader, Status, AbortTrailing, vars, cursor
  <1>3. Len(buffer') <= Len(buffer)
    BY <1>1, <1>2
  <1>4. phase = "receive" => input_finished' \/ UNCHANGED vars
    BY DEF FinishInput, NextRecord, NeedMore, RejectPrefix, RejectCells, Emit,
           Status, AbortTrailing
  <1>. QED
    BY <1>3, <1>4

(***************************************************************************)
(* The caller goes back to the input only while there is some.             *)
(***************************************************************************)
InputOpen == phase = "receive" => ~input_finished

(***************************************************************************)
(* No step that goes back to the input follows its end.                    *)
(***************************************************************************)
LEMMA InputOpenKept ==
    InputOpen /\ [Next]_vars => InputOpen'
  <1> SUFFICES ASSUME InputOpen, [Next]_vars, phase' = "receive"
               PROVE  ~input_finished'
    BY DEF InputOpen
  <1>1. CASE UNCHANGED vars
    BY <1>1 DEF vars, InputOpen
  <1>2. CASE NeedMore
    BY <1>2 DEF NeedMore, AfterNone
  <1>3. CASE Emit
    BY <1>3 DEF Emit
  <1>4. CASE \/ \E n \in 0..(Len(file) - received) : Push(n)
             \/ FinishInput \/ RejectPrefix \/ RejectCells
             \/ Status \/ AbortTrailing
    BY <1>4 DEF Push, Absorb, FinishInput, RejectPrefix, RejectCells, Status,
                AbortTrailing
  <1>. QED
    BY <1>1, <1>2, <1>3, <1>4 DEF Next, NextRecord

(***************************************************************************)
(* The memory a walk holds, consumed bytes included, has a bound that      *)
(* depends on the layout and the last chunk alone.                         *)
(***************************************************************************)
THEOREM MemoryIsBounded == Spec => MemoryBounded
  <1> DEFINE pushed == phase = "receive" /\ ~input_finished'
             Bounded ==
                /\ pushed => Len(buffer') < layout.footer_size
                                + layout.prefix_size + MaxRecordBytes
                                + (received' - received)
                /\ ~pushed => Len(buffer') <= Len(buffer)
  <1>1. IInv /\ InputOpen /\ [Next]_vars => [Bounded]_vars
    <2> SUFFICES ASSUME IInv, InputOpen, [Next]_vars, ~UNCHANGED vars
                 PROVE  Bounded
      OBVIOUS
    <2>1. CASE \E n \in 0..(Len(file) - received) : Push(n)
      <3>1. PICK n \in 0..(Len(file) - received) : Push(n)
        BY <2>1
      <3>2. /\ received' = received + n
            /\ Len(buffer') \in Nat
            /\ Len(buffer') <= (Len(buffer) - start) + n
        BY <3>1, PushHolds
      <3>3. Len(buffer) - start < layout.footer_size + layout.prefix_size
                                    + MaxRecordBytes
        BY <3>1, InvBounds DEF PendingBounded, Push, Absorb
      <3>4. /\ layout.footer_size \in Nat /\ layout.prefix_size \in Nat
            /\ MaxRecordBytes \in Nat /\ received \in Nat /\ n \in Nat
            /\ Len(buffer) \in Nat /\ start \in Nat
        BY LayoutOK, FileAssumption, DecodeAssumption DEF IInv, TypeOK
      <3>5. pushed
        <4>1. phase = "receive" /\ input_finished' = input_finished
          BY <3>1 DEF Push, Absorb
        <4>2. ~input_finished
          BY <4>1 DEF InputOpen
        <4>. QED
          BY <4>1, <4>2
      <3>6. Len(buffer') < layout.footer_size + layout.prefix_size
                             + MaxRecordBytes + (received' - received)
        BY <3>2, <3>3, <3>4
      <3>. QED
        BY <3>5, <3>6
    <2>2. CASE FinishInput \/ NextRecord \/ Status \/ AbortTrailing
      BY <2>2, OthersHold
    <2>. QED
      BY <2>1, <2>2 DEF Next
  <1>2. Init => InputOpen
    BY DEF Init, InputOpen
  <1>3. InputOpen /\ [Next]_vars => InputOpen'
    BY InputOpenKept
  <1>. QED
    BY <1>1, <1>2, <1>3, WalkerInvariant, PTL DEF Spec, MemoryBounded

(***************************************************************************)
(* The trailer built by status() balances: the three warnings are told     *)
(* apart by where the cursor stands.                                       *)
(***************************************************************************)
LEMMA StatusBalances ==
    ASSUME IInv, Status
    PROVE  TrailerBalances'
  <1> DEFINE h == layout.header_size
             f == layout.footer_size
  <1>1. /\ phase = "trailer" /\ phase' = "done"
        /\ UNCHANGED <<file, request, rows, received>>
        /\ status'.records_kept = records_kept
        /\ status'.bytes_received = received
        /\ status'.bytes_consumed = buffer_base
        /\ status'.trailing_bytes = Leftover
        /\ status'.truncated = truncated
        /\ status'.warning = Warning
    BY DEF Status, config, counts
  <1>2. /\ received \in Nat /\ buffer_base \in Nat /\ header_left \in Nat
        /\ h \in Nat /\ f \in Nat /\ request.max_records \in Nat
        /\ truncated \in BOOLEAN /\ buffer_base <= received
        /\ header_left <= h /\ NextOffset \in Nat
    BY LayoutOK, NextOffsetNat, FileAssumption DEF IInv, TypeOK
  <1>3. received = Len(file) /\ records_kept = Len(rows)
    BY <1>1 DEF IInv, LoopInv
  <1>4. DecodableEnd = SaturatingSub(received, f)
        /\ Leftover = SaturatingSub(DecodableEnd, buffer_base)
    BY DEF DecodableEnd, Leftover
  <1>5. DecodableEnd' = DecodableEnd /\ NextOffset' = NextOffset
        /\ layout' = layout
    BY <1>1 DEF DecodableEnd, NextOffset, RowEnd, layout
  <1>6. ~truncated => /\ buffer_base <= DecodableEnd
                      /\ buffer_base = NextOffset - header_left
                      /\ header_left > 0 => buffer_base = DecodableEnd
    BY <1>1 DEF IInv, LoopInv, RowsTile
  <1>7. rows # <<>> => /\ header_left = 0
                       /\ received >= h + f
    <2> SUFFICES ASSUME rows # <<>>
                 PROVE  header_left = 0 /\ received >= h + f
      OBVIOUS
    <2>1. 1 \in 1..Len(rows)
      BY DEF IInv, RowsOK
    <2>2. rows[1].byte_offset = h /\ rows[1].byte_length > 0
          /\ rows[1].byte_length \in Nat
      BY <2>1 DEF IInv, RowsTile, RowsOK
    <2>3. RowEnd(1) + f <= received
      BY <2>1 DEF IInv, FooterUntouched
    <2>. QED
      BY <1>2, <2>2, <2>3 DEF IInv, RowsTile, RowEnd
  <1>8. truncated => rows # <<>> /\ Len(rows) = request.max_records
    <2>1. rows = <<>> => Len(rows) = 0
      OBVIOUS
    <2>. QED
      BY <2>1 DEF IInv, StopsAtMaxRecords
  <1>9. rows = <<>> => NextOffset = h
    BY DEF NextOffset
  <1>10. DecodableEnd \in Nat /\ Leftover \in Nat
    BY <1>2, <1>4 DEF SaturatingSub
  <1>11. /\ Warning = "InputShorterThanBoundaries" <=> received < h + f
         /\ Warning = "MaxRecordsReached" <=> ~(received < h + f) /\ truncated
         /\ Warning = "TrailingPartialRecord"
               <=> ~(received < h + f) /\ ~truncated /\ Leftover > 0
         /\ Warning = "none"
               <=> ~(received < h + f) /\ ~truncated /\ ~(Leftover > 0)
    BY DEF Warning
  <1> HIDE DEF h, f
  <1>12. received < h + f => rows = <<>> /\ ~truncated /\ Leftover = 0
    <2> SUFFICES ASSUME received < h + f
                 PROVE  rows = <<>> /\ ~truncated /\ Leftover = 0
      OBVIOUS
    <2>1. rows = <<>> /\ ~truncated
      BY <1>2, <1>7, <1>8
    <2>2. CASE header_left > 0
      BY <1>2, <1>4, <1>6, <1>10, <2>1, <2>2 DEF SaturatingSub
    <2>3. CASE header_left = 0
      BY <1>2, <1>4, <1>6, <1>9, <1>10, <2>1, <2>3 DEF SaturatingSub
    <2>. QED
      BY <1>2, <2>1, <2>2, <2>3
  <1>13. ~truncated => buffer_base + Leftover + Least(f, received) = received
    BY <1>2, <1>4, <1>6, <1>10 DEF SaturatingSub, Least
  <1>14. Warning = "none" => DecodableEnd = NextOffset
    <2> SUFFICES ASSUME Warning = "none"
                 PROVE  DecodableEnd = NextOffset
      OBVIOUS
    <2>1. ~(received < h + f) /\ ~truncated /\ Leftover = 0
      BY <1>10, <1>11
    <2>2. buffer_base = DecodableEnd
      BY <1>2, <1>4, <1>6, <1>10, <2>1 DEF SaturatingSub
    <2>3. CASE header_left = 0
      BY <1>2, <1>6, <1>10, <2>1, <2>2, <2>3
    <2>4. CASE header_left > 0
      <3>1. NextOffset = h
        BY <1>7, <1>9, <2>4
      <3>2. DecodableEnd = received - f
        BY <1>2, <1>4, <2>1 DEF SaturatingSub
      <3>. QED
        BY <1>2, <1>6, <2>1, <2>2, <2>4, <3>1, <3>2
    <2>. QED
      BY <1>2, <2>3, <2>4
  <1>15. /\ truncated => Len(rows) = request.max_records
         /\ Warning = "MaxRecordsReached" <=> truncated
         /\ Warning = "TrailingPartialRecord" <=> ~truncated /\ Leftover > 0
    BY <1>8, <1>10, <1>11, <1>12
  <1>. QED
    BY <1>1, <1>3, <1>5, <1>13, <1>14, <1>15 DEF TrailerBalances, f

(***************************************************************************)
(* No step after status() changes what the trailer was built from.         *)
(***************************************************************************)
LEMMA TrailerStep ==
    IInv /\ TrailerBalances /\ [Next]_vars => TrailerBalances'
  <1> SUFFICES ASSUME IInv, TrailerBalances, [Next]_vars
               PROVE  TrailerBalances'
    OBVIOUS
  <1>1. ASSUME NEW n \in 0..(Len(file) - received), Push(n)
        PROVE  TrailerBalances'
    BY <1>1 DEF Push, Absorb, TrailerBalances
  <1>2. CASE FinishInput \/ NeedMore \/ RejectPrefix \/ RejectCells \/ Emit
              \/ AbortTrailing
    BY <1>2 DEF FinishInput, NeedMore, AfterNone, RejectPrefix, RejectCells,
                Emit, AbortTrailing, TrailerBalances
  <1>3. CASE Status
    BY <1>3, StatusBalances
  <1>4. CASE UNCHANGED vars
    BY <1>4 DEF vars, config, cursor, counts, TrailerBalances, layout,
                DecodableEnd, NextOffset, RowEnd
  <1>. QED
    BY <1>1, <1>2, <1>3, <1>4 DEF Next, NextRecord

(***************************************************************************)
(* consumed + trailing + footer = received, and the warning says why.      *)
(***************************************************************************)
THEOREM TrailerAlwaysBalances == Spec => []TrailerBalances
  <1>1. Init => TrailerBalances
    BY DEF Init, TrailerBalances
  <1>. QED
    BY <1>1, TrailerStep, WalkerInvariant, PTL DEF Spec

-----------------------------------------------------------------------------
(***************************************************************************)
(* The rows handed out cost a byte each.                                   *)
(***************************************************************************)
RowsCost == records_kept <= NextOffset

(***************************************************************************)
(* Emit appends one row and leaves the others.                             *)
(***************************************************************************)
LEMMA EmitAppends ==
    ASSUME IInv, Emit
    PROVE  /\ Len(rows) \in Nat /\ Len(rows') = Len(rows) + 1
           /\ \A i \in 1..Len(rows) : rows'[i] = rows[i]
           /\ rows # <<>> <=> Len(rows) > 0
  <1>1. PICK row : rows' = Append(rows, row)
    BY DEF Emit
  <1>2. BytesAreASeq(rows)
    BY DEF IInv, RowsOK, BytesAreASeq
  <1>3. AppendsTo(rows', rows, row)
    BY <1>1, <1>2, AppendIsASeq
  <1>4. rows # <<>> <=> Len(rows) > 0
    BY DEF IInv, RowsOK
  <1>. QED
    BY <1>3, <1>4 DEF AppendsTo

(***************************************************************************)
(* Emit moves the offset of the next record by the new row's length, to    *)
(* what was received at most.                                              *)
(***************************************************************************)
LEMMA EmitCosts ==
    ASSUME IInv, Emit, RowsCost
    PROVE  records_kept < received /\ RowsCost'
  <1> DEFINE m == Len(rows)
  <1>1. IInv'
    BY EmitInv
  <1>2. /\ m \in Nat /\ Len(rows') = m + 1
        /\ \A i \in 1..m : rows'[i] = rows[i]
        /\ rows # <<>> <=> m > 0
    BY EmitAppends
  <1>3. /\ records_kept' = records_kept + 1 /\ records_kept \in Nat
        /\ received' = received /\ received \in Nat /\ layout' = layout
        /\ layout.footer_size \in Nat /\ layout.header_size \in Nat
    BY LayoutOK, FileAssumption DEF Emit, config, layout, IInv, TypeOK
  <1>4. \A i \in 1..(m + 1) :
           /\ rows'[i].byte_offset \in Nat
           /\ rows'[i].byte_length \in Nat \ {0}
           /\ rows'[i].byte_offset
                = IF i = 1 THEN layout.header_size
                  ELSE rows'[i - 1].byte_offset + rows'[i - 1].byte_length
           /\ rows'[i].byte_offset + rows'[i].byte_length
                + layout.footer_size <= received
    <2>1. RowsTile' /\ FooterUntouched' /\ RowsOK'
      BY <1>1 DEF IInv
    <2>2. DOMAIN rows' = 1..(m + 1)
      BY <1>2, <2>1 DEF RowsOK
    <2>3. Len(rows') = m + 1 /\ m \in Nat /\ layout' = layout
          /\ received' = received
      BY <1>2, <1>3
    <2>4. ASSUME NEW i \in 1..(m + 1)
          PROVE  rows'[i].byte_offset \in Nat /\ rows'[i].byte_length \in Nat
      BY <2>1, <2>2, <2>4 DEF RowsOK
    <2>5. ASSUME NEW i \in 1..(m + 1)
          PROVE  /\ rows'[i].byte_length > 0
                 /\ rows'[i].byte_offset
                      = IF i = 1 THEN layout.header_size
                        ELSE rows'[i - 1].byte_offset
                               + rows'[i - 1].byte_length
      BY <2>1, <2>3, <2>5 DEF RowsTile, RowEnd
    <2>6. ASSUME NEW i \in 1..(m + 1)
          PROVE  rows'[i].byte_offset + rows'[i].byte_length
                   + layout.footer_size <= received
      BY <2>1, <2>3, <2>6 DEF FooterUntouched, RowEnd
    <2>7. ASSUME NEW i \in 1..(m + 1)
          PROVE  rows'[i].byte_length \in Nat \ {0}
      BY <2>4, <2>5
    <2>. QED
      BY <2>4, <2>5, <2>6, <2>7
  <1>5. rows'[m + 1].byte_offset = NextOffset
    <2>1. CASE m = 0
      BY <1>2, <1>4, <2>1 DEF NextOffset
    <2>2. CASE m > 0
      <3>1. rows'[m] = rows[m] /\ rows # <<>> /\ m + 1 # 1 /\ m + 1 - 1 = m
            /\ m + 1 \in 1..(m + 1)
        BY <1>2, <2>2
      <3>2. rows'[m + 1].byte_offset
              = rows'[m].byte_offset + rows'[m].byte_length
        BY <1>4, <3>1
      <3>. QED
        BY <3>1, <3>2 DEF NextOffset, RowEnd
    <2>. QED
      BY <1>2, <2>1, <2>2
  <1>6. rows' # <<>>
    BY <1>2
  <1>7. NextOffset' = rows'[m + 1].byte_offset + rows'[m + 1].byte_length
    BY <1>2, <1>6 DEF NextOffset, RowEnd
  <1>8. m + 1 \in 1..(m + 1)
    BY <1>2
  <1>. QED
    BY <1>3, <1>4, <1>5, <1>7, <1>8, NextOffsetNat, SMTT(30) DEF RowsCost

(***************************************************************************)
(* Every step of the walker is a step of Walk, or a stutter.               *)
(***************************************************************************)
LEMMA WalkStep ==
    ASSUME IInv, RowsCost, [Next]_vars
    PROVE  [Walker!Next]_(Walker!vars) /\ RowsCost'
  <1>1. received \in Nat /\ records_kept \in Nat /\ phase \in Phases
    BY FileAssumption DEF IInv, TypeOK
  <1>2. ASSUME NEW n \in 0..(Len(file) - received), Push(n)
        PROVE  Walker!Next /\ RowsCost'
    <2>1. received' = received + n /\ n \in Nat
      BY <1>2, FileAssumption DEF Push, Absorb, IInv, TypeOK
    <2>2. Walker!Push(received' - received) /\ received' >= received
      BY <1>1, <1>2, <2>1 DEF Push, Absorb, counts, Walker!Push
    <2>. QED
      BY <1>2, <2>2 DEF Walker!Next, Push, Absorb, counts, config, RowsCost,
                        NextOffset, RowEnd, layout
  <1>3. CASE FinishInput
    BY <1>3 DEF FinishInput, config, counts, RowsCost, NextOffset, RowEnd,
                layout, Walker!Next, Walker!FinishInput
  <1>4. CASE NeedMore
    BY <1>4 DEF NeedMore, AfterNone, config, counts, RowsCost, NextOffset,
                RowEnd, layout, Walker!Next, Walker!NoMore
  <1>5. CASE RejectPrefix \/ RejectCells
    BY <1>5 DEF RejectPrefix, RejectCells, config, counts, RowsCost,
                NextOffset, RowEnd, layout, Walker!Next, Walker!Stop
  <1>6. CASE Emit
    <2>1. records_kept < received /\ RowsCost'
      BY <1>6, EmitCosts
    <2>2. Walker!Yield
      BY <1>6, <2>1 DEF Emit, Walker!Yield
    <2>. QED
      BY <2>1, <2>2 DEF Walker!Next
  <1>7. CASE Status
    BY <1>7 DEF Status, config, counts, RowsCost, NextOffset, RowEnd, layout,
                Walker!Next, Walker!Status
  <1>8. CASE AbortTrailing
    BY <1>8 DEF AbortTrailing, config, counts, RowsCost, NextOffset, RowEnd,
                layout, Walker!Next, Walker!Stop
  <1>9. CASE UNCHANGED vars
    BY <1>9 DEF vars, config, counts, RowsCost, NextOffset, RowEnd, layout,
                Walker!vars
  <1>. QED
    BY <1>2, <1>3, <1>4, <1>5, <1>6, <1>7, <1>8, <1>9 DEF Next, NextRecord

(***************************************************************************)
(* RecordStream implements Walk, the interface ParseSession drives: it     *)
(* asks for input only after None, hands out no more rows than bytes, and  *)
(* builds one trailer after the end of the input.                          *)
(***************************************************************************)
THEOREM WalkerIsWalk == Spec => IsWalk
  <1>1. Init => Walker!Init /\ RowsCost
    <2> SUFFICES ASSUME Init PROVE Walker!Init /\ RowsCost
      OBVIOUS
    <2>1. IInv
      BY InitInv
    <2>. QED
      BY <2>1, NextOffsetNat DEF Init, Walker!Init, RowsCost
  <1>2. IInv /\ RowsCost /\ [Next]_vars
            => [Walker!Next]_(Walker!vars) /\ RowsCost'
    BY WalkStep
  <1>. QED
    BY <1>1, <1>2, WalkerInvariant, PTL DEF Spec, IsWalk, Walker!Spec

-----------------------------------------------------------------------------
(***************************************************************************)
(* The turns of the reference, from what g says of the turn before.        *)
(***************************************************************************)
WalkFrom(g) ==
    [k \in 0..(Len(file) + 1) |->
        IF k = 0 THEN Reading(layout.header_size, <<>>) ELSE Turn(g[k - 1])]

(***************************************************************************)
(* The whole file, read in one piece: any function that satisfies the      *)
(* equations of the reference ends where it ends.                          *)
(***************************************************************************)
LEMMA WholeFileUnfold ==
    ASSUME Len(file) \in Nat, NEW g, g = WalkFrom(g)
    PROVE  WholeFile = g[Len(file) + 1]
  <1> DEFINE N == Len(file) + 1
             walk == CHOOSE h : h = WalkFrom(h)
             T == {k \in 0..N : walk[k] = g[k]}
  <1>1. walk = WalkFrom(walk)
    BY Zenon
  <1>2. WholeFile = walk[N]
    BY DEF WholeFile, WalkFrom
  <1> HIDE DEF walk
  <1>3. N \in Nat
    OBVIOUS
  <1> DEFINE start_of == Reading(layout.header_size, <<>>)
  <1>4. \A k \in 0..N : /\ walk[k] = IF k = 0 THEN start_of ELSE Turn(walk[k - 1])
                        /\ g[k] = IF k = 0 THEN start_of ELSE Turn(g[k - 1])
    <2> HIDE DEF start_of
    <2>1. /\ walk = [k \in 0..N |-> IF k = 0 THEN start_of ELSE Turn(walk[k - 1])]
          /\ g = [k \in 0..N |-> IF k = 0 THEN start_of ELSE Turn(g[k - 1])]
      BY <1>1, Zenon DEF WalkFrom, start_of
    <2> QED
      BY <2>1, Zenon
  <1> HIDE DEF N, start_of
  <1>5. 0 \in T
    <2>1. 0 \in 0..N
      BY <1>3
    <2> QED
      BY <1>4, <2>1
  <1>6. ASSUME NEW k \in 1..N, k - 1 \in T
        PROVE  k \in T
    <2>1. k \in 0..N /\ k # 0
      BY <1>3
    <2>2. walk[k - 1] = g[k - 1]
      BY <1>6
    <2>3. walk[k] = Turn(walk[k - 1]) /\ g[k] = Turn(g[k - 1])
      BY <1>4, <2>1
    <2>4. walk[k] = g[k]
      BY <2>2, <2>3
    <2> QED
      BY <2>1, <2>4
  <1> HIDE DEF T
  <1>7. \A k \in 0..N : k \in T
    BY <1>3, <1>5, <1>6, IntervalInduction
  <1>8. N \in 0..N
    BY <1>3
  <1>9. walk[N] = g[N]
    BY <1>7, <1>8 DEF T
  <1> QED
    BY <1>2, <1>9 DEF N

(***************************************************************************)
(* Every row costs a byte at least, so there are no more rows than bytes.  *)
(***************************************************************************)
LEMMA RowsCostAByte == Spec => []RowsCost
  <1>1. Init => RowsCost
    <2> SUFFICES ASSUME Init PROVE RowsCost
      OBVIOUS
    <2>1. IInv
      BY InitInv
    <2> QED
      BY <2>1, NextOffsetNat DEF Init, RowsCost
  <1>2. IInv /\ RowsCost /\ [Next]_vars => RowsCost'
    BY WalkStep
  <1> QED
    BY <1>1, <1>2, WalkerInvariant, PTL DEF Spec

(***************************************************************************)
(* Where the reading stands after k rows, going by the rows handed out.    *)
(***************************************************************************)
AtRow(k) == IF k = 0 THEN layout.header_size ELSE RowEnd(k)
Offsets(k) == [i \in 1..k |-> rows[i].byte_offset]
Reached(k) == Reading(AtRow(k), Offsets(k))

(***************************************************************************)
(* The numbers the argument is about.                                      *)
(***************************************************************************)
LEMMA ReadingNumbers ==
    ASSUME IInv
    PROVE  /\ Len(rows) \in Nat
           /\ received \in Nat /\ received <= Len(file) /\ Len(file) \in Nat
           /\ layout.footer_size \in Nat /\ layout.header_size \in Nat
           /\ layout.prefix_size \in Nat
           /\ request.max_records \in Nat /\ truncated \in BOOLEAN
           /\ DecodableEnd \in Nat /\ DataEnd \in Nat
           /\ DecodableEnd <= DataEnd
           /\ received = Len(file) => DecodableEnd = DataEnd
           /\ \A i \in 1..Len(rows) :
                 /\ rows[i].byte_offset \in Nat /\ rows[i].byte_length \in Nat
                 /\ rows[i].byte_length > 0
                 /\ rows[i].byte_offset = AtRow(i - 1)
                 /\ RowEnd(i) = rows[i].byte_offset + rows[i].byte_length
                 /\ RowEnd(i) + layout.footer_size <= received
           /\ NextOffset = AtRow(Len(rows)) /\ NextOffset \in Nat
           /\ LimitReached(Len(rows)) <=> truncated
           /\ \A k \in 0..(Len(rows) - 1) : ~LimitReached(k)
  <1>1. /\ received \in Nat /\ received <= Len(file) /\ Len(file) \in Nat
        /\ layout.footer_size \in Nat /\ layout.header_size \in Nat
        /\ layout.prefix_size \in Nat
        /\ request.max_records \in Nat /\ truncated \in BOOLEAN
    BY LayoutOK, FileAssumption DEF IInv, TypeOK
  <1>2. /\ DecodableEnd \in Nat /\ DataEnd \in Nat
        /\ DecodableEnd <= DataEnd
        /\ received = Len(file) => DecodableEnd = DataEnd
    BY <1>1 DEF DecodableEnd, DataEnd, SaturatingSub
  <1>3. Len(rows) \in Nat /\ DOMAIN rows = 1..Len(rows)
        /\ (rows = <<>> <=> Len(rows) = 0)
    BY DEF IInv, RowsOK
  <1>4. ASSUME NEW i \in 1..Len(rows)
        PROVE  /\ rows[i].byte_offset \in Nat /\ rows[i].byte_length \in Nat
               /\ rows[i].byte_length > 0
               /\ rows[i].byte_offset = AtRow(i - 1)
               /\ RowEnd(i) = rows[i].byte_offset + rows[i].byte_length
               /\ RowEnd(i) + layout.footer_size <= received
    <2>1. rows[i].byte_offset \in Nat /\ rows[i].byte_length \in Nat
      BY <1>3 DEF IInv, RowsOK
    <2>2. /\ rows[i].byte_length > 0
          /\ rows[i].byte_offset = IF i = 1 THEN layout.header_size
                                            ELSE RowEnd(i - 1)
      BY DEF IInv, RowsTile
    <2>3. i \in Nat /\ (i = 1 <=> i - 1 = 0)
      BY <1>3
    <2>4. rows[i].byte_offset = AtRow(i - 1)
      BY <2>2, <2>3 DEF AtRow
    <2>5. RowEnd(i) + layout.footer_size <= received
      BY DEF IInv, FooterUntouched
    <2> QED
      BY <2>1, <2>2, <2>4, <2>5 DEF RowEnd
  <1>5. NextOffset = AtRow(Len(rows)) /\ NextOffset \in Nat
    BY <1>3, NextOffsetNat DEF NextOffset, AtRow
  <1>6. /\ request.max_records # 0 => Len(rows) <= request.max_records
        /\ truncated <=> /\ request.max_records # 0
                         /\ Len(rows) = request.max_records
    BY DEF IInv, StopsAtMaxRecords
  <1>7. LimitReached(Len(rows)) <=> truncated
    BY <1>1, <1>3, <1>6 DEF LimitReached
  <1>8. \A k \in 0..(Len(rows) - 1) : ~LimitReached(k)
    BY <1>1, <1>3, <1>6 DEF LimitReached
  <1> QED
    BY <1>1, <1>2, <1>3, <1>4, <1>5, <1>7, <1>8

(***************************************************************************)
(* What the walk of a failed or finished upload leaves behind: the rows    *)
(* hold their prefixes, a failure is the reference's at the next offset,   *)
(* and a partial record was let pass only if the request allows it.        *)
(***************************************************************************)
PrefixesWhole ==
    \A i \in 1..Len(rows) : rows[i].byte_length >= layout.prefix_size

FailedAsFound ==
    IF failure = "trailing"
    THEN /\ received = Len(file)
         /\ ~Decidable(NextOffset, DecodableEnd)
         /\ NextOffset < DecodableEnd
         /\ request.abort_on_error
    ELSE /\ Decidable(NextOffset, DecodableEnd)
         /\ IF PrefixFailure(layout, file, NextOffset) # "none"
            THEN failure = PrefixFailure(layout, file, NextOffset)
            ELSE /\ failure = "cells"
                 /\ CellsFail(layout, file, NextOffset)
                 /\ TotalSize(layout, file, NextOffset) \in Nat

Settled ==
    /\ PrefixesWhole
    /\ phase # "failed" => failure = "none"
    /\ phase = "done" =>
          truncated \/ ~(NextOffset < DecodableEnd /\ request.abort_on_error)
    /\ phase = "failed" => ~truncated /\ FailedAsFound

(***************************************************************************)
(* At the trailer, what is left over begins where the next record would.   *)
(***************************************************************************)
LEMMA LeftoverIsNext ==
    ASSUME IInv, phase = "trailer", ~truncated
    PROVE  /\ Leftover > 0 <=> NextOffset < DecodableEnd
           /\ NextOffset < DecodableEnd =>
                 received >= layout.header_size + layout.footer_size
  <1>1. /\ received \in Nat /\ layout.footer_size \in Nat
        /\ layout.header_size \in Nat /\ Len(rows) \in Nat
        /\ DecodableEnd \in Nat /\ NextOffset \in Nat
    BY ReadingNumbers
  <1>2. buffer_base \in Nat /\ header_left \in Nat
    BY <1>1, LayoutOK DEF IInv, TypeOK
  <1>3. /\ buffer_base = NextOffset - header_left
        /\ buffer_base <= DecodableEnd
        /\ header_left > 0 => buffer_base = DecodableEnd
    BY DEF IInv, LoopInv, RowsTile
  <1>4. Leftover = DecodableEnd - buffer_base
    BY <1>1, <1>2, <1>3 DEF Leftover, SaturatingSub
  <1>5. Leftover > 0 <=> NextOffset < DecodableEnd
    BY <1>1, <1>2, <1>3, <1>4
  <1>6. ASSUME NextOffset < DecodableEnd
        PROVE  received >= layout.header_size + layout.footer_size
    <2>1. CASE rows = <<>>
      <3>1. NextOffset = layout.header_size
        BY <2>1 DEF NextOffset
      <3> QED
        BY <1>1, <1>6, <3>1 DEF DecodableEnd, SaturatingSub
    <2>2. CASE rows # <<>>
      <3>1. 1 \in 1..Len(rows)
        BY <2>2 DEF IInv, RowsOK
      <3>2. /\ rows[1].byte_offset = layout.header_size
            /\ rows[1].byte_length \in Nat /\ rows[1].byte_length > 0
        BY <3>1 DEF IInv, RowsOK, RowsTile
      <3>3. RowEnd(1) + layout.footer_size <= received
        BY <3>1 DEF IInv, FooterUntouched
      <3> QED
        BY <1>1, <3>2, <3>3 DEF RowEnd
    <2> QED
      BY <2>1, <2>2
  <1> QED
    BY <1>5, <1>6

(***************************************************************************)
(* When a prefix is ready, the next record starts at the cursor, and what  *)
(* is available from there ends at the footer reserve.                     *)
(***************************************************************************)
LEMMA PrefixIsNext ==
    ASSUME IInv, PrefixReady
    PROVE  /\ ~truncated /\ NextOffset = buffer_base + Skip
           /\ Ready \in Nat /\ NextOffset + Ready = DecodableEnd
           /\ NextOffset + layout.prefix_size <= DecodableEnd
           /\ NextOffset < DecodableEnd
  <1>1. /\ DecodableEnd \in Nat /\ NextOffset \in Nat
        /\ layout.prefix_size \in Nat
    BY ReadingNumbers
  <1>2. /\ ~truncated /\ header_left = Skip
        /\ Ready >= layout.prefix_size
        /\ ~(layout.prefix_size = 0 /\ Ready = 0)
    BY DEF PrefixReady
  <1>3. buffer_base \in Nat /\ header_left \in Nat
    BY LayoutOK, FileAssumption DEF IInv, TypeOK
  <1>4. /\ buffer_base = NextOffset - header_left
        /\ buffer_base <= DecodableEnd
    BY <1>2 DEF IInv, LoopInv, RowsTile
  <1>5. /\ Available = SaturatingSub(DecodableEnd, buffer_base)
        /\ Skip \in Nat /\ Skip <= Available /\ Available \in Nat
    BY <1>2, AvailableOK DEF IInv
  <1>6. Available = DecodableEnd - buffer_base
    BY <1>1, <1>3, <1>4, <1>5 DEF SaturatingSub
  <1> QED
    BY <1>1, <1>2, <1>3, <1>4, <1>5, <1>6 DEF Ready

(***************************************************************************)
(* A new row holds its prefix.                                             *)
(***************************************************************************)
LEMMA EmitPrefix ==
    ASSUME IInv, Emit, PrefixesWhole
    PROVE  PrefixesWhole'
  <1> DEFINE total == TotalSize(layout, buffer, At)
             row == Row(Schema(layout, buffer, At), total)
  <1>1. BodyReady /\ rows' = Append(rows, row) /\ layout' = layout
    BY DEF Emit, config, layout
  <1>2. total >= layout.prefix_size
    <2>1. PrefixReady /\ PrefixFailure(layout, buffer, At) = "none"
      BY <1>1 DEF BodyReady
    <2>2. /\ BodySize(layout, buffer, At) \in Nat
          /\ total = layout.prefix_size + BodySize(layout, buffer, At)
      BY <2>1, AcceptedPrefix DEF IInv
    <2>3. layout.prefix_size \in Nat
      BY ReadingNumbers
    <2> QED
      BY <2>2, <2>3
  <1>3. row.byte_length = total
    BY DEF Row
  <1> HIDE DEF total, row
  <1>4. AppendsTo(rows', rows, row)
    <2>1. BytesAreASeq(rows)
      BY DEF IInv, RowsOK, BytesAreASeq
    <2> QED
      BY <1>1, <2>1, AppendIsASeq
  <1>5. /\ Len(rows) \in Nat /\ Len(rows') = Len(rows) + 1
        /\ \A i \in 1..Len(rows) : rows'[i] = rows[i]
        /\ rows'[Len(rows) + 1] = row
    BY <1>4 DEF AppendsTo
  <1>6. \A i \in 1..(Len(rows) + 1) : rows'[i].byte_length >= layout.prefix_size
    <2>1. \A i \in 1..(Len(rows) + 1) : i \in 1..Len(rows) \/ i = Len(rows) + 1
      BY <1>5
    <2> QED
      BY <1>2, <1>3, <1>5, <2>1 DEF PrefixesWhole
  <1> QED
    BY <1>1, <1>5, <1>6 DEF PrefixesWhole

(***************************************************************************)
(* A refusal is the reference's refusal of the record at the next offset.  *)
(***************************************************************************)
LEMMA RejectSettles ==
    ASSUME IInv, Settled, RejectPrefix \/ RejectCells
    PROVE  Settled'
  <1>1. /\ PrefixReady /\ SkipHeader /\ phase' = "failed"
        /\ UNCHANGED <<config, counts, received, input_finished>>
    BY DEF RejectPrefix, RejectCells, BodyReady
  <1>2. /\ UNCHANGED <<file, request, rows, received, truncated>>
        /\ layout' = layout
    BY <1>1 DEF config, counts, layout
  <1>3. received \in Nat /\ received >= received /\ layout.prefix_size \in Nat
    BY ReadingNumbers
  <1>4. NextOffset' = NextOffset
    BY <1>2, <1>3, RowsFrame
  <1>5. DecodableEnd' = DecodableEnd
    BY <1>2 DEF DecodableEnd
  <1>6. /\ ~truncated /\ NextOffset = buffer_base + Skip
        /\ Ready \in Nat /\ NextOffset + Ready = DecodableEnd
        /\ NextOffset + layout.prefix_size <= DecodableEnd
        /\ NextOffset < DecodableEnd /\ NextOffset \in Nat
    BY <1>1, PrefixIsNext, ReadingNumbers
  <1>7. TypeOK /\ BufferIsWindow
    BY DEF IInv
  <1>8. /\ PrefixFailure(layout, buffer, At) = PrefixFailure(layout, file, NextOffset)
        /\ TotalSize(layout, buffer, At) = TotalSize(layout, file, NextOffset)
    BY <1>1, <1>6, <1>7, PrefixAgrees
  <1>9. CASE RejectPrefix
    <2>1. /\ PrefixFailure(layout, file, NextOffset) # "none"
          /\ failure' = PrefixFailure(layout, file, NextOffset)
      BY <1>8, <1>9 DEF RejectPrefix
    <2>2. failure' # "trailing"
      BY <2>1 DEF PrefixFailure
    <2>3. Decidable(NextOffset, DecodableEnd)
      BY <1>6, <2>1 DEF Decidable
    <2>4. FailedAsFound'
      BY <1>2, <1>4, <1>5, <2>1, <2>2, <2>3 DEF FailedAsFound, Decidable
    <2> QED
      BY <1>1, <1>2, <1>6, <2>4 DEF Settled, PrefixesWhole
  <1>10. CASE RejectCells
    <2>1. /\ BodyReady /\ CellsFail(layout, buffer, At) /\ failure' = "cells"
      BY <1>10 DEF RejectCells
    <2>2. CellsFail(layout, file, NextOffset)
      BY <1>6, <1>7, <2>1, CellsAgree
    <2>3. /\ PrefixFailure(layout, file, NextOffset) = "none"
          /\ Ready >= TotalSize(layout, file, NextOffset)
      BY <1>8, <2>1 DEF BodyReady
    <2>4. TotalSize(layout, file, NextOffset) \in Nat
      BY <1>1, <1>7, <1>8, <2>3, AcceptedPrefix
    <2>5. Decidable(NextOffset, DecodableEnd)
      <3>1. NextOffset + TotalSize(layout, file, NextOffset) <= DecodableEnd
        BY <1>6, <2>3, <2>4
      <3> QED
        BY <1>6, <3>1 DEF Decidable
    <2>6. FailedAsFound'
      BY <1>2, <1>4, <1>5, <2>1, <2>2, <2>3, <2>4, <2>5
         DEF FailedAsFound, Decidable
    <2> QED
      BY <1>1, <1>2, <1>6, <2>6 DEF Settled, PrefixesWhole
  <1> QED
    BY <1>9, <1>10

(***************************************************************************)
(* The trailer, or the error in its place.                                 *)
(***************************************************************************)
LEMMA TrailerSettles ==
    ASSUME IInv, Settled, Status \/ AbortTrailing
    PROVE  Settled'
  <1>1. /\ phase = "trailer"
        /\ UNCHANGED <<file, request, rows, received, truncated>>
        /\ layout' = layout
    BY DEF Status, AbortTrailing, config, counts, layout
  <1>2. received \in Nat /\ received >= received
    BY ReadingNumbers
  <1>3. NextOffset' = NextOffset
    BY <1>1, <1>2, RowsFrame
  <1>4. DecodableEnd' = DecodableEnd
    BY <1>1 DEF DecodableEnd
  <1>5. PrefixesWhole'
    BY <1>1 DEF Settled, PrefixesWhole
  <1>6. ~truncated =>
           /\ Leftover > 0 <=> NextOffset < DecodableEnd
           /\ NextOffset < DecodableEnd =>
                 received >= layout.header_size + layout.footer_size
    BY <1>1, LeftoverIsNext
  <1>7. /\ layout.header_size \in Nat /\ layout.footer_size \in Nat
    BY ReadingNumbers
  <1>8. CASE Status
    <2>1. /\ phase' = "done" /\ failure' = failure
          /\ ~(Warning = "TrailingPartialRecord" /\ request.abort_on_error)
      BY <1>8 DEF Status
    <2>2. ~truncated /\ NextOffset < DecodableEnd
             => Warning = "TrailingPartialRecord"
      BY <1>2, <1>6, <1>7 DEF Warning
    <2> QED
      BY <1>1, <1>3, <1>4, <1>5, <2>1, <2>2 DEF Settled
  <1>9. CASE AbortTrailing
    <2>1. /\ phase' = "failed" /\ failure' = "trailing"
          /\ Warning = "TrailingPartialRecord" /\ request.abort_on_error
      BY <1>9 DEF AbortTrailing
    <2>2. ~truncated /\ Leftover > 0
      BY <2>1 DEF Warning
    <2>3. received = Len(file) /\ ~Decidable(NextOffset, DecodableEnd)
      BY <1>1, <2>2 DEF IInv, LoopInv, NeverLate
    <2>4. FailedAsFound'
      BY <1>1, <1>3, <1>4, <1>6, <2>1, <2>2, <2>3 DEF FailedAsFound, Decidable
    <2> QED
      BY <1>1, <1>5, <2>1, <2>2, <2>4 DEF Settled
  <1> QED
    BY <1>8, <1>9

(***************************************************************************)
(* Every step.                                                             *)
(***************************************************************************)
LEMMA SettledStep == IInv /\ Settled /\ [Next]_vars => Settled'
  <1> SUFFICES ASSUME IInv, Settled, [Next]_vars PROVE Settled'
    OBVIOUS
  <1>1. ASSUME NEW n \in 0..(Len(file) - received), Push(n)
        PROVE  Settled'
    BY <1>1 DEF Push, Absorb, Settled, PrefixesWhole, config, counts, layout
  <1>2. CASE FinishInput \/ NeedMore
    <2>1. /\ UNCHANGED <<config, counts, failure>>
          /\ phase \in {"receive", "drain"}
          /\ phase' \in {"receive", "drain", "trailer"}
      BY <1>2 DEF FinishInput, NeedMore, AfterNone
    <2> QED
      BY <2>1 DEF Settled, PrefixesWhole, config, counts, layout
  <1>3. CASE Emit
    <2>1. PrefixesWhole'
      BY <1>3, EmitPrefix DEF Settled
    <2>2. phase = "drain" /\ phase' = "drain" /\ failure' = failure
      BY <1>3 DEF Emit
    <2> QED
      BY <2>1, <2>2 DEF Settled
  <1>4. CASE RejectPrefix \/ RejectCells
    BY <1>4, RejectSettles
  <1>5. CASE Status \/ AbortTrailing
    BY <1>5, TrailerSettles
  <1>6. CASE UNCHANGED vars
    BY <1>6 DEF vars, config, cursor, counts, Settled, PrefixesWhole,
                FailedAsFound, Decidable, NextOffset, RowEnd, DecodableEnd,
                layout
  <1> QED
    BY <1>1, <1>2, <1>3, <1>4, <1>5, <1>6 DEF Next, NextRecord

(***************************************************************************)
(* Settled holds in every state a walk reaches.                            *)
(***************************************************************************)
LEMMA WalkSettles == Spec => []Settled
  <1>1. Init => Settled
    <2> SUFFICES ASSUME Init PROVE Settled
      OBVIOUS
    <2>1. rows = <<>> /\ phase = "receive" /\ failure = "none"
      BY DEF Init
    <2>2. Len(rows) = 0
      BY <2>1
    <2> QED
      BY <2>1, <2>2 DEF Settled, PrefixesWhole
  <1> QED
    BY <1>1, SettledStep, WalkerInvariant, PTL DEF Spec

(***************************************************************************)
(* A turn where the rows go on takes the next of them.                     *)
(***************************************************************************)
LEMMA TurnTakesRow ==
    ASSUME IInv, PrefixesWhole, NEW k \in 1..Len(rows)
    PROVE  Turn(Reached(k - 1)) = Reached(k)
  <1> DEFINE at == AtRow(k - 1)
             seen == Offsets(k - 1)
             total == TotalSize(layout, file, at)
  <1>1. /\ Len(rows) \in Nat /\ k \in Nat /\ k - 1 \in Nat
        /\ k - 1 \in 0..(Len(rows) - 1) /\ ~(k = 0)
    BY ReadingNumbers
  <1>2. /\ rows[k].byte_offset = at /\ at \in Nat
        /\ rows[k].byte_length \in Nat /\ rows[k].byte_length > 0
        /\ RowEnd(k) = at + rows[k].byte_length
        /\ RowEnd(k) + layout.footer_size <= received
    BY ReadingNumbers, Zenon
  <1>3. /\ PrefixFailure(layout, file, at) = "none"
        /\ ~CellsFail(layout, file, at)
        /\ rows[k].byte_length = total
    BY <1>2 DEF IInv, RowsAreTheFiles
  <1>4. DOMAIN seen = 1..(k - 1) /\ Len(seen) = k - 1
    <2>1. seen \in Seq({seen[i] : i \in 1..(k - 1)})
      BY <1>1 DEF Offsets
    <2> QED
      BY <1>1, <2>1 DEF Offsets
  <1>5. ~LimitReached(Len(seen))
    BY <1>1, <1>4, ReadingNumbers
  <1>6. Append(seen, at) = Offsets(k)
    <2>1. Append(seen, at) = [i \in 1..(k - 1 + 1) |-> IF i <= k - 1 THEN seen[i] ELSE at]
      BY <1>1, <1>4 DEF Offsets
    <2>2. \A i \in 1..k : (IF i <= k - 1 THEN seen[i] ELSE at) = rows[i].byte_offset
      BY <1>1, <1>2 DEF Offsets
    <2> QED
      BY <1>1, <2>1, <2>2 DEF Offsets
  <1> HIDE DEF at, seen, total
  <1>7. at + total <= DataEnd
    <2>1. /\ received \in Nat /\ received <= Len(file) /\ Len(file) \in Nat
          /\ layout.footer_size \in Nat
      BY ReadingNumbers
    <2>2. at + total + layout.footer_size <= received /\ at + total \in Nat
      BY <1>2, <1>3
    <2> QED
      BY <2>1, <2>2 DEF DataEnd, SaturatingSub
  <1>8. Decidable(at, DataEnd)
    <2>1. at < DataEnd /\ total > 0 /\ total \in Nat /\ DataEnd \in Nat
      BY <1>2, <1>3, <1>7, ReadingNumbers
    <2>2. at + layout.prefix_size <= DataEnd
      <3>1. rows[k].byte_length >= layout.prefix_size
        BY DEF PrefixesWhole
      <3> QED
        BY <1>2, <1>3, <1>7, <3>1, ReadingNumbers
    <2> QED
      BY <1>7, <2>1, <2>2 DEF Decidable, total
  <1>9. Reached(k - 1) = Reading(at, seen) /\ AtRow(k) = at + total
    BY <1>1, <1>2, <1>3 DEF Reached, AtRow, at, seen
  <1>10. /\ Reading(at, seen).at = at /\ Reading(at, seen).offsets = seen
         /\ Reading(at, seen).over = FALSE
    BY DEF Reading
  <1>11. Turn(Reading(at, seen)) = Reading(at + total, Append(seen, at))
    BY <1>3, <1>5, <1>8, <1>10, Zenon DEF Turn, total
  <1> QED
    BY <1>6, <1>9, <1>11, Zenon DEF Reached

(***************************************************************************)
(* The reading that ended where the walk did, for the same reason.         *)
(***************************************************************************)
Whole == Ended(Reached(Len(rows)), failure)

(***************************************************************************)
(* In each way a walk ends, one more turn ends the reading likewise.       *)
(***************************************************************************)
LEMMA TurnEnds ==
    ASSUME IInv, Settled, phase \in {"done", "failed"}
    PROVE  Turn(Reached(Len(rows))) = Whole
  <1> DEFINE n == Len(rows)
             at == NextOffset
             seen == Offsets(n)
  <1>1. /\ n \in Nat /\ at = AtRow(n) /\ at \in Nat
        /\ DecodableEnd \in Nat /\ DataEnd \in Nat
        /\ DecodableEnd <= DataEnd
        /\ received = Len(file) => DecodableEnd = DataEnd
        /\ LimitReached(n) <=> truncated
        /\ layout.prefix_size \in Nat
    BY ReadingNumbers
  <1>2. Len(seen) = n
    <2>1. seen \in Seq({seen[i] : i \in 1..n})
      BY <1>1 DEF Offsets
    <2> QED
      BY <1>1, <2>1 DEF Offsets
  <1>3. /\ Reached(n).at = at /\ Reached(n).offsets = seen
        /\ Reached(n).over = FALSE /\ Reached(n) = Reading(at, seen)
    BY <1>1 DEF Reached, Reading
  <1> HIDE DEF n, at, seen
  <1>4. CASE truncated
    <2>1. failure = "none"
      BY <1>4 DEF Settled
    <2> QED
      BY <1>1, <1>2, <1>3, <1>4, <2>1 DEF Turn, Whole, n
  <1>5. CASE ~truncated /\ phase = "done"
    <2>1. /\ failure = "none"
          /\ ~(at < DecodableEnd /\ request.abort_on_error)
      BY <1>5 DEF Settled, at
    <2>2. received = Len(file) /\ ~Decidable(at, DecodableEnd)
      BY <1>5 DEF IInv, LoopInv, NeverLate, at
    <2> QED
      BY <1>1, <1>2, <1>3, <1>5, <2>1, <2>2 DEF Turn, Whole, n
  <1>6. CASE ~truncated /\ phase = "failed"
    <2>1. FailedAsFound
      BY <1>6 DEF Settled
    <2>2. CASE failure = "trailing"
      <3>1. /\ received = Len(file) /\ ~Decidable(at, DecodableEnd)
            /\ at < DecodableEnd /\ request.abort_on_error
        BY <2>1, <2>2 DEF FailedAsFound, at
      <3> QED
        BY <1>1, <1>2, <1>3, <1>6, <2>2, <3>1 DEF Turn, Whole, n
    <2>3. CASE failure # "trailing"
      <3>1. /\ Decidable(at, DecodableEnd)
            /\ IF PrefixFailure(layout, file, at) # "none"
               THEN failure = PrefixFailure(layout, file, at)
               ELSE /\ failure = "cells" /\ CellsFail(layout, file, at)
                    /\ TotalSize(layout, file, at) \in Nat
        BY <2>1, <2>3 DEF FailedAsFound, at
      <3>2. Decidable(at, DataEnd)
        <4> DEFINE total == TotalSize(layout, file, at)
        <4>1. /\ at + layout.prefix_size <= DecodableEnd /\ at < DecodableEnd
              /\ PrefixFailure(layout, file, at) # "none" \/ at + total <= DecodableEnd
          BY <3>1 DEF Decidable
        <4> HIDE DEF total
        <4>2. at + layout.prefix_size <= DataEnd /\ at < DataEnd
          BY <1>1, <4>1
        <4>3. PrefixFailure(layout, file, at) = "none"
                 => at + total <= DataEnd
          <5>1. PrefixFailure(layout, file, at) = "none"
                   => total \in Nat /\ at + total <= DecodableEnd
            BY <3>1, <4>1 DEF total
          <5> QED
            BY <1>1, <5>1
        <4> QED
          BY <4>1, <4>2, <4>3 DEF Decidable, total
      <3> QED
        BY <1>1, <1>2, <1>3, <1>6, <3>1, <3>2 DEF Turn, Whole, n
    <2> QED
      BY <2>2, <2>3
  <1> QED
    BY <1>4, <1>5, <1>6, <1>1

(***************************************************************************)
(* A walk that is over has read the upload as if in one piece.             *)
(***************************************************************************)
LEMMA WalkIsWholeFile ==
    ASSUME IInv, Settled, RowsCost, phase \in {"done", "failed"}
    PROVE  WholeFile = Whole
  <1> DEFINE n == Len(rows)
             N == Len(file) + 1
             g == [k \in 0..N |-> IF k <= n THEN Reached(k) ELSE Whole]
  <1>1. n \in Nat /\ n <= Len(file) /\ Len(file) \in Nat
    <2>1. /\ n \in Nat /\ received <= Len(file) /\ Len(file) \in Nat
          /\ received \in Nat /\ layout.footer_size \in Nat
          /\ NextOffset = AtRow(n) /\ NextOffset \in Nat
      BY ReadingNumbers
    <2>2. records_kept = n /\ records_kept <= NextOffset
      BY DEF IInv, LoopInv, RowsCost
    <2>3. CASE n = 0
      BY <2>1, <2>3
    <2>4. CASE n # 0
      <3>1. n \in 1..n
        BY <2>1, <2>4
      <3>2. RowEnd(n) + layout.footer_size <= received
        BY <3>1, ReadingNumbers
      <3>3. NextOffset = RowEnd(n)
        BY <2>1, <2>4 DEF AtRow
      <3> QED
        BY <2>1, <2>2, <3>2, <3>3
    <2> QED
      BY <2>3, <2>4
  <1>2. \A k \in 1..n : Turn(Reached(k - 1)) = Reached(k)
    BY TurnTakesRow DEF Settled
  <1>3. Turn(Reached(n)) = Whole
    BY TurnEnds
  <1>4. Turn(Whole) = Whole
    <2>1. Whole.over
      BY DEF Whole, Ended, Reached, Reading
    <2> QED
      BY <2>1 DEF Turn
  <1>5. Reached(0) = Reading(layout.header_size, <<>>)
    <2>1. Offsets(0) = <<>>
      BY DEF Offsets
    <2> QED
      BY <2>1 DEF Reached, AtRow
  <1> HIDE DEF n
  <1>6. ASSUME NEW k \in 0..N
        PROVE  g[k] = IF k = 0 THEN Reading(layout.header_size, <<>>)
                      ELSE Turn(g[k - 1])
    <2>1. CASE k = 0
      BY <1>1, <1>5, <2>1
    <2>2. CASE k \in 1..n
      <3>1. k - 1 \in 0..N /\ k - 1 <= n /\ k <= n /\ ~(k = 0)
        BY <1>1, <2>2
      <3>2. g[k] = Reached(k) /\ g[k - 1] = Reached(k - 1)
        BY <3>1
      <3> QED
        BY <1>2, <2>2, <3>1, <3>2
    <2>3. CASE k = n + 1
      <3>1. k - 1 = n /\ n \in 0..N /\ n <= n /\ ~(k <= n) /\ ~(k = 0)
        BY <1>1, <2>3
      <3>2. g[k] = Whole /\ g[k - 1] = Reached(n)
        BY <3>1
      <3> QED
        BY <1>3, <3>1, <3>2
    <2>4. CASE k > n + 1
      <3>1. k - 1 \in 0..N /\ ~(k - 1 <= n) /\ ~(k <= n) /\ ~(k = 0)
        BY <1>1, <2>4
      <3>2. g[k] = Whole /\ g[k - 1] = Whole
        BY <3>1
      <3> QED
        BY <1>4, <3>1, <3>2
    <2> QED
      BY <1>1, <2>1, <2>2, <2>3, <2>4
  <1>7. g = WalkFrom(g)
    BY <1>6 DEF WalkFrom
  <1>8. g[N] = Whole
    BY <1>1
  <1> HIDE DEF g
  <1> QED
    BY <1>1, <1>7, <1>8, WholeFileUnfold

(***************************************************************************)
(* The rows and the error of a walk are those of the upload read in one    *)
(* piece, for every layout, decoder and upload, however push and           *)
(* next_record were interleaved.                                           *)
(***************************************************************************)
THEOREM ChunkingIsInvisible == Spec => []ChunkingIndependent
  <1>1. IInv /\ Settled /\ RowsCost => ChunkingIndependent
    <2> SUFFICES ASSUME IInv, Settled, RowsCost, phase \in {"done", "failed"}
                 PROVE  /\ failure = WholeFile.failure
                        /\ [i \in 1..Len(rows) |-> rows[i].byte_offset]
                              = WholeFile.offsets
      BY DEF ChunkingIndependent
    <2>1. WholeFile = Whole
      BY WalkIsWholeFile
    <2> QED
      BY <2>1 DEF Whole, Ended, Reached, Reading, Offsets
  <1> QED
    BY <1>1, WalkerInvariant, WalkSettles, RowsCostAByte, PTL
=============================================================================
