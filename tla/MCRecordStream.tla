--------------------------- MODULE MCRecordStream ---------------------------
(***************************************************************************)
(* RecordStream on every upload over a four-byte alphabet up to MaxFile    *)
(* bytes, and over the two bytes that are good everywhere up to            *)
(* MaxLongFile, cut into chunks in every way, under six layouts.           *)
(***************************************************************************)
EXTENDS RecordStream

CONSTANTS MaxFile, MaxLongFile, a, b, c

MCByte == 1..4
MCFiles ==
    UNION {[1..n -> MCByte] : n \in 0..MaxFile}
        \cup UNION {[1..n -> {2, 3}] : n \in 0..MaxLongFile}

(***************************************************************************)
(* One-byte fields.  4 is not a digit of a "PackedDecimal" field and 1 is an      *)
(* unassigned code point of a "Text" field; "Integer" decodes every byte.   *)
(***************************************************************************)
MCDecodeField(field, bytes) ==
    IF \/ field.kind = "PackedDecimal" /\ \E i \in DOMAIN bytes : bytes[i] = 4
       \/ field.kind = "Text"   /\ \E i \in DOMAIN bytes : bytes[i] = 1
    THEN Undecodable
    ELSE bytes

MCDecodeLength(field, bytes) ==
    IF field.kind = "Text" /\ bytes[1] = 1 THEN Undecodable ELSE bytes[1]

MCDecodeType(field, bytes) ==
    IF field.size = 0 THEN Undecodable
    ELSE CASE bytes[1] = 1 -> Undecodable
           [] bytes[1] = 2 -> a
           [] bytes[1] = 3 -> b
           [] OTHER        -> c

F(offset, size, kind) == [offset |-> offset, size |-> size, kind |-> kind]
NoField == F(0, 0, "Skip")

Schemas ==
    [one  |-> <<[selector |-> a, size |-> 2,
                 fields |-> <<F(0, 1, "Text"), F(1, 1, "PackedDecimal")>>]>>,
     fill |-> <<[selector |-> a, size |-> 2,
                 fields |-> <<F(0, 1, "PackedDecimal"), F(1, 1, "Skip")>>]>>,
     two  |-> <<[selector |-> b, size |-> 2,
                 fields |-> <<F(0, 1, "Skip"), F(1, 1, "Integer")>>],
                [selector |-> a, size |-> 1,
                 fields |-> <<F(0, 1, "PackedDecimal")>>]>>]

L(header, footer, length, type, records) ==
    [header_size |-> header, footer_size |-> footer,
     record_length_field |-> length, record_type_field |-> type,
     prefix_size |-> length.size + type.size, records |-> records]

Layouts ==
    {L(0, 0, NoField, NoField, Schemas.one),
     L(2, 1, NoField, NoField, Schemas.fill),
     L(1, 0, F(0, 1, "Text"), NoField, Schemas.fill),
     L(1, 0, NoField, F(0, 1, "Text"), Schemas.two),
     L(0, 1, F(0, 1, "Integer"), F(1, 1, "Text"), Schemas.two),
     L(0, 2, F(0, 1, "Integer"), NoField, Schemas.one)}

Request(l, max, abort) ==
    [layout |-> l, max_records |-> max, abort_on_error |-> abort]

MCRequests ==
    {Request(l, max, FALSE) : l \in Layouts, max \in 0..2}
        \cup {Request(l, 0, TRUE) : l \in Layouts}

=============================================================================
