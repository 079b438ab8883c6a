------------------------------- MODULE Decode -------------------------------
(***************************************************************************)
(* One field, from its declaration to the cell of a row, the selector of a *)
(* schema or the length of a record: the checks layout.rs makes of its     *)
(* width and scale, the loops of src/decode.rs over an accumulator of      *)
(* AccBits bits or over the characters of a code page (src/codec.rs), the  *)
(* cell to_cell_value makes of the value, and, when the field is the       *)
(* record length, the body length read_prefix computes from it.            *)
(*                                                                         *)
(* The widths are constants, so that a small instance has the edges of the *)
(* real one: i128 is AccBits, i64 IntegerBits, usize SizeBits.  Arithmetic *)
(* that leaves the accumulator panics or wraps, as the build decides       *)
(* (`overflow_checks`); a shift only drops bits.                           *)
(***************************************************************************)
EXTENDS Integers, Sequences, SequencesExt, Loops

CONSTANTS
    BytesOf(_),       \* the byte strings that occur in a field
    CodePage,         \* the character of each byte the code page assigns
    Control,          \* the control characters among them
    Blank,            \* the white space among them
    Numeral,          \* the digits among them, and their values
    AccBits,          \* width of the accumulator
    IntegerBits,      \* width of a cell's integer
    SizeBits,         \* width of a length in memory
    MaxPackedBytes,   \* MAX_PACKED_BYTES
    MaxZonedBytes,    \* MAX_ZONED_BYTES
    MaxBinaryBytes,   \* MAX_BINARY_BYTES
    MaxBinaryDigits,  \* MAX_BINARY_DIGITS
    MaxRecordBytes,   \* MAX_RECORD_BYTES
    Sizes,            \* declared widths
    Scales,           \* declared scales
    TypeSizes         \* widths of the record-type field

Packed == "packed_decimal"
Zoned == "zoned_decimal"
Integer == "integer"
Unsigned == "unsigned_integer"
Binary == {Integer, Unsigned}
Text == "text"
Kinds == {Packed, Zoned, Text} \cup Binary

(***************************************************************************)
(* The constants are those of one accumulator: the bytes of the widest     *)
(* binary field fill it, the digits of the widest packed and zoned fields  *)
(* take half of it at most, and so does what is taken from a record        *)
(* length.  Digits and signs are characters that are seen.                 *)
(***************************************************************************)
ASSUME WidthAssumption ==
    /\ \A k \in Kinds, n \in Sizes :
          BytesOf([kind |-> k, size |-> n]) \subseteq [1..n -> 0..255]
    /\ DOMAIN CodePage \subseteq 0..255
    /\ \A c \in DOMAIN Numeral : Numeral[c] \in 0..9
    /\ DOMAIN Numeral \cap (Blank \cup {"+", "-"}) = {}
    /\ {"+", "-"} \cap Blank = {}
    /\ {AccBits, IntegerBits, SizeBits} \subseteq Nat \ {0}
    /\ IntegerBits < AccBits /\ SizeBits < AccBits
    /\ MaxRecordBytes \in 0..(Power(2, SizeBits) - 1)
    /\ {MaxPackedBytes, MaxZonedBytes} \subseteq 1..MaxRecordBytes
    /\ MaxBinaryBytes \in 2..MaxRecordBytes
    /\ Power(10, 2 * MaxPackedBytes - 1) <= Power(2, AccBits - 2)
    /\ Power(10, MaxZonedBytes) <= Power(2, AccBits - 2)
    /\ AccBits = 8 * MaxBinaryBytes
    /\ MaxBinaryDigits \in Nat \ {0}
    /\ Power(10, MaxBinaryDigits - 1) < Power(2, AccBits)
    /\ Power(2, AccBits) <= Power(10, MaxBinaryDigits)
    /\ Sizes \subseteq Nat /\ Scales \subseteq Nat
    /\ TypeSizes \subseteq Nat /\ 0 \in TypeSizes
    /\ \A s \in TypeSizes : MaxRecordBytes + s < Power(2, AccBits - 2)

Characters == {CodePage[b] : b \in DOMAIN CodePage}

VARIABLES
    overflow_checks,  \* the build panics on overflow
    role,             \* a "cell", the "record_type" or the "record_length"
    strip_control,    \* control characters are dropped from text
    type_size,        \* width of the record-type field, 0 for none
    field,            \* kind, size and scale, as declared
    bytes,            \* the field's bytes
    phase,            \* where the decoding is
    at,               \* digits or bytes already folded in
    value,            \* the accumulator
    text,             \* the decoded text
    outcome           \* the cell or the body length, once there is one

config == <<overflow_checks, role, strip_control, type_size, field, bytes>>
vars == <<config, phase, at, value, text, outcome>>

Nothing == [kind |-> "nothing"]
Ended == {"refused", "invalid", "unsupported", "panicked", "done"}

Init ==
    /\ overflow_checks \in BOOLEAN
    /\ role \in {"cell", "record_type", "record_length"}
    /\ type_size \in IF role = "record_length" THEN TypeSizes ELSE {0}
    /\ field \in [kind : Kinds, size : Sizes, scale : Scales]
    /\ strip_control \in IF field.kind = Text THEN BOOLEAN ELSE {TRUE}
    /\ bytes \in BytesOf([kind |-> field.kind, size |-> field.size])
    /\ phase = "declared"
    /\ at = 0
    /\ value = 0
    /\ text = <<>>
    /\ outcome = Nothing

-----------------------------------------------------------------------------
High(b) == b \div 16
Low(b) == b % 16
TopBit(b) == b >= 128
Negative == {11, 13}  \* NEGATIVE_SIGNS

(***************************************************************************)
(* The accumulator, and what its arithmetic does past its ends.            *)
(***************************************************************************)
Fits(x, bits) == -Power(2, bits - 1) <= x /\ x < Power(2, bits - 1)

Wrap(x) ==
    LET low == x % Power(2, AccBits)
    IN  IF low < Power(2, AccBits - 1) THEN low ELSE low - Power(2, AccBits)

Panics(x) == overflow_checks /\ ~Fits(x, AccBits)

End(how) ==
    /\ phase' = how
    /\ UNCHANGED <<config, at, value, text, outcome>>

Compute(x, next, upto) ==
    IF Panics(x)
    THEN End("panicked")
    ELSE /\ value' = Wrap(x)
         /\ phase' = next
         /\ at' = upto
         /\ UNCHANGED <<config, text, outcome>>

-----------------------------------------------------------------------------
(***************************************************************************)
(* check_width and check_scale, and prefix_field's and validate's own      *)
(* rules: no field of width zero, no scale on a record length.             *)
(***************************************************************************)
Limit(kind) ==
    CASE kind = Packed -> MaxPackedBytes
      [] kind = Zoned  -> MaxZonedBytes
      [] kind = Text   -> MaxRecordBytes
      [] OTHER         -> MaxBinaryBytes

\* Mutant: one byte of slack in check_width.
WidthOKLoose(f) == f.size > 0 /\ f.size <= Limit(f.kind) + 1

WidthOK(f) == f.size > 0 /\ f.size <= Limit(f.kind)

Digits(f) ==
    CASE f.kind = Packed -> 2 * f.size - 1
      [] f.kind = Zoned  -> f.size
      [] f.kind = Text   -> 0
      [] OTHER           -> MaxBinaryDigits

ScaleOK(f) == f.scale <= Digits(f)

Declared ==
    /\ WidthOK(field)
    /\ ScaleOK(field)
    /\ role = "record_length" => field.scale = 0

Refuse == phase = "declared" /\ ~Declared /\ End("refused")

-----------------------------------------------------------------------------
(***************************************************************************)
(* decode_packed and decode_zoned: a digit at a time, refusing one above   *)
(* nine; then the sign, in the last nibble or in the last zone.            *)
(***************************************************************************)
SignByte == bytes[field.size]

Nibble(i) ==
    LET b == bytes[(i \div 2) + 1]
    IN  IF i % 2 = 0 THEN High(b) ELSE Low(b)

DigitAt(i) == IF field.kind = Packed THEN Nibble(i) ELSE Low(bytes[i + 1])

DigitsOf == IF field.kind = Packed THEN 2 * field.size - 1 ELSE field.size

Sign == IF field.kind = Packed THEN Low(SignByte) ELSE High(SignByte)

StartDigits ==
    /\ phase = "declared"
    /\ Declared
    /\ field.kind \in {Packed, Zoned}
    /\ phase' = "digits"
    /\ UNCHANGED <<config, at, value, text, outcome>>

\* Mutant: any nibble is a digit.
NotADigitNever(i) == FALSE

NotADigit(i) == DigitAt(i) > 9

RejectDigit ==
    /\ phase = "digits"
    /\ at < DigitsOf
    /\ NotADigit(at)
    /\ End("invalid")

FoldDigit ==
    /\ phase = "digits"
    /\ at < DigitsOf
    /\ ~NotADigit(at)
    /\ Compute(value * 10 + DigitAt(at), "digits", at + 1)

ApplySign ==
    /\ phase = "digits"
    /\ at = DigitsOf
    /\ Compute(IF Sign \in Negative THEN -value ELSE value, "decoded", at)

(***************************************************************************)
(* decode_binary: refused when it is unsigned and would not fit, else the  *)
(* bytes shifted in from the left, starting from -1 when it is negative.   *)
(***************************************************************************)
TooWide ==
    \/ field.size > MaxBinaryBytes
    \/ field.kind = Unsigned /\ field.size = MaxBinaryBytes /\ TopBit(bytes[1])

RejectBinary ==
    /\ phase = "declared"
    /\ Declared
    /\ field.kind \in Binary
    /\ TooWide
    /\ End("unsupported")

StartFrom == IF field.kind = Integer /\ TopBit(bytes[1]) THEN -1 ELSE 0

StartBinary ==
    /\ phase = "declared"
    /\ Declared
    /\ field.kind \in Binary
    /\ ~TooWide
    /\ value' = StartFrom
    /\ phase' = "shifting"
    /\ UNCHANGED <<config, at, text, outcome>>

ShiftByte ==
    /\ phase = "shifting"
    /\ at < field.size
    /\ value' = Wrap(value * 256) + bytes[at + 1]
    /\ at' = at + 1
    /\ phase' = IF at' = field.size THEN "decoded" ELSE "shifting"
    /\ UNCHANGED <<config, text, outcome>>

-----------------------------------------------------------------------------
(***************************************************************************)
(* decode_text: the characters of the bytes, refused at the first byte     *)
(* that has none; the control characters are dropped before both ends are  *)
(* trimmed.                                                                *)
(***************************************************************************)
Unassigned == {i \in DOMAIN bytes : bytes[i] \notin DOMAIN CodePage}

Translated == [i \in DOMAIN bytes |-> CodePage[bytes[i]]]

Trim(s) ==
    LET printing == {i \in DOMAIN s : s[i] \notin Blank}
    IN  IF printing = {} THEN <<>>
        ELSE SubSeq(s, Min(printing), Max(printing))

Strip(s) == IF strip_control THEN Filter(s, Characters \ Control) ELSE s

\* Mutant: trimmed first, stripped after.
TrimThenStrip(s) == Strip(Trim(s))

Clean(s) == Trim(Strip(s))

RejectText ==
    /\ phase = "declared"
    /\ Declared
    /\ field.kind = Text
    /\ Unassigned # {}
    /\ End("invalid")

DecodeText ==
    /\ phase = "declared"
    /\ Declared
    /\ field.kind = Text
    /\ Unassigned = {}
    /\ text' = Clean(Translated)
    /\ phase' = "text"
    /\ UNCHANGED <<config, at, value, outcome>>

(***************************************************************************)
(* A text length (read_prefix, parse::<i128>): an optional sign and at     *)
(* least a digit, within the accumulator.                                  *)
(***************************************************************************)
SignOf(s) == IF s # <<>> /\ s[1] \in {"+", "-"} THEN SubSeq(s, 1, 1) ELSE <<>>
DigitsIn(s) == SubSeq(s, Len(SignOf(s)) + 1, Len(s))
Parsed(s) ==
    LET digits == DigitsIn(s)
        n == Positional([i \in DOMAIN digits |-> Numeral[digits[i]]], 10)
    IN  IF SignOf(s) = <<"-">> THEN -n ELSE n

IsNumber(s) ==
    /\ DigitsIn(s) # <<>>
    /\ ToSet(DigitsIn(s)) \subseteq DOMAIN Numeral
    /\ Fits(Parsed(s), AccBits)

RejectLength ==
    /\ phase = "text"
    /\ role = "record_length"
    /\ ~IsNumber(Trim(text))
    /\ End("invalid")

ParseLength ==
    /\ phase = "text"
    /\ role = "record_length"
    /\ IsNumber(Trim(text))
    /\ value' = Parsed(Trim(text))
    /\ phase' = "decoded"
    /\ UNCHANGED <<config, at, text, outcome>>

-----------------------------------------------------------------------------
(***************************************************************************)
(* render_decimal: the digits of |n|, padded on the left so that one digit *)
(* stays before the point, split `scale` digits from the end.              *)
(***************************************************************************)
Abs(n) == IF n < 0 THEN -n ELSE n

DigitCount(n) ==
    CHOOSE k \in 1..(n + 1) : /\ Shorter(n, 10, k) = 0
                              /\ k > 1 => Shorter(n, 10, k - 1) # 0

DigitSeq(n) ==
    [i \in 1..DigitCount(n) |-> Shorter(n, 10, DigitCount(n) - i) % 10]

Zeros(n) == [i \in 1..n |-> 0]

Padded(s, scale) ==
    IF Len(s) <= scale THEN Zeros(scale + 1 - Len(s)) \o s ELSE s

Render(n, scale) ==
    LET s == Padded(DigitSeq(Abs(n)), scale)
        split == Len(s) - scale
    IN  [negative |-> n < 0,
         whole    |-> SubSeq(s, 1, split),
         fraction |-> SubSeq(s, split + 1, Len(s))]

(***************************************************************************)
(* to_cell_value: an integer when it has no scale and fits, else a decimal *)
(* with its text, and the number besides when it has a scale and fits.     *)
(***************************************************************************)
\* Mutant: the cast to i64 is not checked.
CellOfUnchecked(n, scale) ==
    IF scale = 0
    THEN [kind |-> "integer",
          n    |-> ((n + Power(2, IntegerBits - 1)) % Power(2, IntegerBits))
                       - Power(2, IntegerBits - 1)]
    ELSE [kind |-> "decimal", text |-> Render(n, scale), unscaled |-> {n}]

CellOf(n, scale) ==
    IF scale = 0 /\ Fits(n, IntegerBits)
    THEN [kind |-> "integer", n |-> n]
    ELSE [kind |-> "decimal", text |-> Render(n, scale),
          unscaled |-> IF scale > 0 /\ Fits(n, IntegerBits) THEN {n} ELSE {}]

MakeCell ==
    /\ phase = "decoded"
    /\ role = "cell"
    /\ outcome' = CellOf(value, field.scale)
    /\ phase' = "done"
    /\ UNCHANGED <<config, at, value, text>>

(***************************************************************************)
(* to_display_string: what a record type is compared with selectors as.    *)
(***************************************************************************)
MakeSelector ==
    /\ phase = "decoded"
    /\ role = "record_type"
    /\ outcome' = [kind |-> "decimal", text |-> Render(value, field.scale),
                   unscaled |-> {}]
    /\ phase' = "done"
    /\ UNCHANGED <<config, at, value, text>>

MakeText ==
    /\ phase = "text"
    /\ role # "record_length"
    /\ outcome' = [kind |-> "text", text |-> text]
    /\ phase' = "done"
    /\ UNCHANGED <<config, at, value, text>>

(***************************************************************************)
(* read_prefix: the declared length less the prefix.  Negative is refused, *)
(* so is what no length in memory can be, or more than a record may be.    *)
(***************************************************************************)
prefix_size == field.size + type_size

BodyLength ==
    /\ phase = "decoded"
    /\ role = "record_length"
    /\ Compute(value - prefix_size, "body", at)

\* Mutant: only the sign of the body length is looked at.
BodyOKPositive == value >= 0

BodyOK == value >= 0 /\ value <= MaxRecordBytes

RefuseBody ==
    /\ phase = "body"
    /\ ~BodyOK
    /\ End(IF value \in 0..(Power(2, SizeBits) - 1) THEN "unsupported"
                                               ELSE "invalid")

AcceptBody ==
    /\ phase = "body"
    /\ BodyOK
    /\ outcome' = [kind |-> "body", n |-> value]
    /\ phase' = "done"
    /\ UNCHANGED <<config, at, value, text>>

Next ==
    \/ Refuse
    \/ StartDigits \/ RejectDigit \/ FoldDigit \/ ApplySign
    \/ RejectBinary \/ StartBinary \/ ShiftByte
    \/ RejectText \/ DecodeText \/ RejectLength \/ ParseLength
    \/ MakeCell \/ MakeSelector \/ MakeText
    \/ BodyLength \/ RefuseBody \/ AcceptBody

Spec == Init /\ [][Next]_vars

-----------------------------------------------------------------------------
(***************************************************************************)
(* What the bytes of a field mean, said once and without an accumulator.   *)
(* The number in a text is what is left of it without blanks and dropped   *)
(* controls; `text` already is that of a length that was parsed.           *)
(***************************************************************************)
Kept ==
    Filter(Translated, Characters \ IF strip_control THEN Control ELSE {})

Nibbles == [i \in 1..(2 * field.size) |-> Nibble(i - 1)]

DigitNibbles ==
    IF field.kind = Packed
    THEN SubSeq(Nibbles, 1, 2 * field.size - 1)
    ELSE [i \in 1..field.size |-> Low(bytes[i])]

Signed ==
    (IF field.kind = Packed THEN Low(SignByte) ELSE High(SignByte))
        \in Negative

TextNumber ==
    LET printing == Filter(Kept, Characters \ Blank)
        digits == Filter(printing, DOMAIN Numeral)
        n == Positional([i \in DOMAIN digits |-> Numeral[digits[i]]], 10)
    IN  IF printing[1] = "-" THEN -n ELSE n

Meaning ==
    CASE field.kind = Text -> TextNumber
      [] field.kind = Unsigned -> Positional(bytes, 256)
      [] field.kind = Integer ->
            Positional(bytes, 256) -
                IF TopBit(bytes[1]) THEN Power(2, 8 * field.size) ELSE 0
      [] OTHER -> IF Signed THEN -Positional(DigitNibbles, 10)
                            ELSE Positional(DigitNibbles, 10)

(***************************************************************************)
(* A number is what its bytes mean, to the last digit and with its sign,   *)
(* at every width the layout lets through: decode.rs "exact".              *)
(***************************************************************************)
ValueIsExact == phase = "decoded" => value = Meaning

(***************************************************************************)
(* A field is refused for what is wrong with it and for nothing else: a    *)
(* nibble that is no digit, an unsigned number past the accumulator, a     *)
(* byte without a character.  Only the body length can leave the           *)
(* accumulator, and only when the declared length is a negative number at  *)
(* its far end, of the widest binary kind or spelled out.  Why a declared  *)
(* length is refused is left open here: BodyIsExact is about the accepted. *)
(***************************************************************************)
RefusedForCause ==
    LET corrupt == \E i \in DOMAIN DigitNibbles : DigitNibbles[i] > 9
    IN  /\ phase = "invalid" /\ role # "record_length" =>
              IF field.kind = Text THEN Unassigned # {}
              ELSE field.kind \notin Binary /\ corrupt
        /\ phase \in {"decoded", "body", "done"} =>
              field.kind \in Binary \cup {Text} \/ ~corrupt
        /\ phase = "unsupported" /\ role # "record_length" =>
              Meaning >= Power(2, AccBits - 1)
        /\ phase = "panicked" =>
              /\ role = "record_length"
              /\ field.kind = Text \/ field.size = MaxBinaryBytes
              /\ Meaning < prefix_size - Power(2, AccBits - 1)

(***************************************************************************)
(* Text is what the bytes say between the padding (decode_text): no blank  *)
(* at either end, whatever was dropped, and everything in between kept in  *)
(* its place.                                                              *)
(***************************************************************************)
TextIsExact ==
    phase = "done" /\ outcome.kind = "text" =>
        LET t == outcome.text
            printing(s) == Filter(s, Characters \ Blank)
        IN  /\ t # <<>> => t[1] \notin Blank /\ t[Len(t)] \notin Blank
            /\ \E i \in 0..Len(Kept) : t = SubSeq(Kept, i + 1, i + Len(t))
            /\ printing(t) = printing(Kept)

(***************************************************************************)
(* A cell says the number: an integer equal to it, or a text that reads    *)
(* back as it, with `scale` digits after the point, at least one before it *)
(* and no other leading zero; and never "-0".  A selector reads the same.  *)
(***************************************************************************)
CellIsExact ==
    phase = "done" /\ field.kind # Text /\ role # "record_length" =>
        CASE outcome.kind = "integer" ->
                /\ outcome.n = Meaning
                /\ field.scale = 0
          [] outcome.kind = "decimal" ->
                LET t == outcome.text
                    n == Positional(t.whole \o t.fraction, 10)
                IN  /\ Meaning = IF t.negative THEN -n ELSE n
                    /\ t.negative => n > 0
                    /\ Len(t.fraction) = field.scale
                    /\ Len(t.whole) >= 1
                    /\ t.whole[1] = 0 => Len(t.whole) = 1
                    /\ outcome.unscaled \subseteq {Meaning}
                    /\ role = "cell" /\ outcome.unscaled = {} =>
                          field.scale = 0 \/ ~Fits(Meaning, IntegerBits)

(***************************************************************************)
(* A body length is the declared length less the prefix, in both builds:   *)
(* no wrapped subtraction passes for a length.                             *)
(***************************************************************************)
BodyIsExact ==
    phase = "done" /\ role = "record_length" =>
        /\ outcome.n = Meaning - prefix_size
        /\ outcome.n \in 0..MaxRecordBytes
=============================================================================
