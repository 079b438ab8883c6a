------------------------------- MODULE Layout -------------------------------
(***************************************************************************)
(* The validation of a layout (src/layout.rs, validate): the checks on the *)
(* whole layout, then record by record and field by field, the first check *)
(* that fails rejecting the request.  Whichever form the request had, this *)
(* is the only way to a layout that bytes are read with.                   *)
(*                                                                         *)
(* Names are sequences of symbols, <<>> the empty one; an optional value   *)
(* is a set of at most one element.                                        *)
(***************************************************************************)
EXTENDS Integers, Sequences, FiniteSets, LayoutShape, LayoutLimits

CONSTANTS
    RawLayouts,       \* the raw layouts validate is called with
    MaxFooterBytes,   \* MAX_FOOTER_BYTES
    MaxPackedBytes,   \* decode.rs MAX_PACKED_BYTES
    MaxZonedBytes,    \* decode.rs MAX_ZONED_BYTES
    MaxBinaryBytes,   \* decode.rs MAX_BINARY_BYTES
    MaxBinaryDigits,  \* MAX_BINARY_DIGITS
    MaxU32            \* largest value of a u32

Name == Seq(STRING)

Optional(S) == {s \in SUBSET S : \A x, y \in s : x = y}

(***************************************************************************)
(* RawField, RawRecord and RawLayout: what the three request forms are     *)
(* lifted into.                                                            *)
(***************************************************************************)
ConditionName ==
    [name : Name, values : Seq([low : Name, high : Optional(Name)])]
Declaration ==
    [level : Nat, path : Name, occurs_index : Nat, occurs_group : Name,
     conditions : Seq(ConditionName)]
RawField ==
    [name : Name, size : Nat, kind : Kind, scale : Nat, offset : Optional(Nat),
     declaration : Declaration]
RawRecord ==
    [name : Name, fields : Seq(RawField), selector : Optional(STRING)]
RawLayout ==
    [records : Seq(RawRecord), header_size : Nat, footer_size : Nat,
     record_length_field : Optional(RawField),
     record_type_field : Optional(RawField)]

ASSUME LayoutAssumption ==
    /\ {MaxPackedBytes, MaxZonedBytes, MaxBinaryBytes, MaxBinaryDigits,
        MaxFooterBytes} \subseteq Nat
    /\ MaxU32 \in Nat /\ MaxRecordBytes <= MaxU32
    /\ RawLayouts \subseteq RawLayout

VARIABLES
    raw,          \* the layout as it arrived
    phase,        \* where validation is
    failure,      \* why the request was rejected, "none" if it was not
    records,      \* the record layouts validated so far
    names,        \* their names
    selectors,    \* their selectors
    resolved,     \* the fields of the record in hand validated so far
    field_names,  \* the names of those that are not fillers
    cursor        \* the end of the last of them

validation == <<records, names, selectors, resolved, field_names, cursor>>
layoutVars == <<raw, phase, failure, validation>>

Reject(why) ==
    /\ phase' = "rejected"
    /\ failure' = why

(***************************************************************************)
(* Checks in the order the code makes them; the first one that is bad      *)
(* decides how the request is refused.                                     *)
(***************************************************************************)
Check(bad, why) == [bad |-> bad, why |-> why]
Passes(checks) == \A i \in DOMAIN checks : ~checks[i].bad
FirstBad(checks) ==
    CHOOSE i \in DOMAIN checks :
        checks[i].bad /\ \A j \in 1..(i - 1) : ~checks[j].bad

RejectBy(checks) ==
    /\ ~Passes(checks)
    /\ Reject(checks[FirstBad(checks)].why)

-----------------------------------------------------------------------------
(***************************************************************************)
(* check_width, check_scale.  A scale counts stored digits: a packed field *)
(* has two per byte less the sign.                                         *)
(***************************************************************************)
WidthLimit(kind) ==
    CASE kind = "PackedDecimal"                  -> MaxPackedBytes
      [] kind = "ZonedDecimal"                   -> MaxZonedBytes
      [] kind \in {"Integer", "UnsignedInteger"} -> MaxBinaryBytes
      [] kind \in {"Text", "Skip"}               -> MaxRecordBytes

TooWide(f) == f.size > WidthLimit(f.kind)

DigitsHeld(f) ==
    CASE f.kind = "PackedDecimal" -> 2 * f.size - 1
      [] f.kind = "ZonedDecimal"  -> f.size
      [] OTHER                    -> MaxBinaryDigits

ScaleTooLarge(f) ==
    /\ f.scale > 0
    /\ f.kind # "Skip"
    /\ f.kind = "Text" \/ f.scale > DigitsHeld(f)

(***************************************************************************)
(* prefix_field, on the field a prefix has, if it has one.                 *)
(***************************************************************************)
PrefixChecks(f) ==
    <<Check(f.size = 0, "invalid"),
      Check(f.kind = "Skip", "invalid"),
      Check(TooWide(f), "unsupported"),
      Check(ScaleTooLarge(f), "invalid")>>

BadPrefix(prefix) == {f \in prefix : ~Passes(PrefixChecks(f))}

PrefixCheck(prefix) ==
    IF BadPrefix(prefix) = {} THEN Check(FALSE, "none")
    ELSE LET checks == PrefixChecks(CHOOSE f \in BadPrefix(prefix) : TRUE)
         IN  Check(TRUE, checks[FirstBad(checks)].why)

ScaledLength == \E f \in raw.record_length_field : f.scale # 0

PrefixSize(prefix) ==
    IF prefix = {} THEN 0 ELSE (CHOOSE f \in prefix : TRUE).size

DeclaredFields ==
    LET count[k \in 0..Len(raw.records)] ==
            IF k = 0 THEN 0
            ELSE count[k - 1] + Len(raw.records[k].fields)
    IN  count[Len(raw.records)]

(***************************************************************************)
(* The head of validate, up to the loop over the records.                  *)
(***************************************************************************)
LayoutChecks ==
    <<Check(raw.records = <<>>, "invalid"),
      Check(raw.footer_size > MaxFooterBytes, "unsupported"),
      PrefixCheck(raw.record_length_field),
      Check(ScaledLength, "invalid"),
      PrefixCheck(raw.record_type_field),
      Check(Len(raw.records) > 1 /\ raw.record_type_field = {}, "invalid"),
      Check(DeclaredFields > MaxLayoutFields, "unsupported")>>

CheckLayout ==
    /\ phase = "layout"
    /\ \/ RejectBy(LayoutChecks)
       \/ /\ Passes(LayoutChecks)
          /\ phase' = "record"
          /\ UNCHANGED failure
    /\ UNCHANGED <<raw, validation>>

-----------------------------------------------------------------------------
(***************************************************************************)
(* The head of the loop over the records.                                  *)
(***************************************************************************)
DefaultRecordName == <<"record">>
Record == raw.records[Len(records) + 1]
NameOf(r) == IF r.name = <<>> THEN DefaultRecordName ELSE r.name

\* Mutant: selectors may repeat.
AnySelector(r) == FALSE

SelectorTaken(r) == \E s \in r.selector : s \in selectors

RecordChecks(r) ==
    <<Check(NameOf(r) \in names, "invalid"),
      Check(raw.record_type_field # {} /\ r.selector = {}, "invalid"),
      Check(raw.record_type_field # {} /\ SelectorTaken(r), "invalid"),
      Check(r.fields = <<>>, "invalid")>>

BeginRecord ==
    /\ phase = "record"
    /\ Len(records) < Len(raw.records)
    /\ \/ /\ RejectBy(RecordChecks(Record))
          /\ UNCHANGED validation
       \/ /\ Passes(RecordChecks(Record))
          /\ names' = names \cup {NameOf(Record)}
          /\ selectors' = IF raw.record_type_field = {} THEN selectors
                          ELSE selectors \cup Record.selector
          /\ resolved' = <<>>
          /\ field_names' = {}
          /\ cursor' = 0
          /\ phase' = "field"
          /\ UNCHANGED <<records, failure>>
    /\ UNCHANGED raw

(***************************************************************************)
(* One field.  Its offset is the declared one or where the last field      *)
(* ended; the sum is a checked 32-bit one.                                 *)
(***************************************************************************)
OffsetOf(f) ==
    IF f.offset = {} THEN cursor ELSE CHOOSE o \in f.offset : TRUE

AddU32(m, n) == (m + n) % (MaxU32 + 1)

\* Mutant: an unchecked sum.
Unchecked(m, n) == FALSE

Overflows(m, n) == m + n > MaxU32

NameTaken(f) == f.kind # "Skip" /\ f.name \in field_names

FieldChecks(f) ==
    <<Check(f.size = 0, "invalid"),
      Check(TooWide(f), "unsupported"),
      Check(OffsetOf(f) < cursor, "invalid"),
      Check(Overflows(OffsetOf(f), f.size), "invalid"),
      Check(AddU32(OffsetOf(f), f.size) > MaxRecordBytes, "unsupported"),
      Check(NameTaken(f), "invalid"),
      Check(f.kind # "Skip" /\ f.name = <<>>, "invalid"),
      Check(ScaleTooLarge(f), "invalid")>>

Resolved(f) ==
    [name |-> f.name, offset |-> OffsetOf(f), size |-> f.size,
     kind |-> f.kind, scale |-> f.scale,
     declaration |-> IF f.declaration.path = <<>>
                     THEN [f.declaration EXCEPT !.path = f.name]
                     ELSE f.declaration]

\* Mutant: a declared offset does not move the cursor.
CursorWithoutGap(f) == AddU32(cursor, f.size)

CursorAfter(f) == AddU32(OffsetOf(f), f.size)

CheckField ==
    /\ phase = "field"
    /\ Len(resolved) < Len(Record.fields)
    /\ LET f == Record.fields[Len(resolved) + 1]
       IN  \/ /\ RejectBy(FieldChecks(f))
              /\ UNCHANGED validation
           \/ /\ Passes(FieldChecks(f))
              /\ resolved' = Append(resolved, Resolved(f))
              /\ field_names' = IF f.kind = "Skip" THEN field_names
                                ELSE field_names \cup {f.name}
              /\ cursor' = CursorAfter(f)
              /\ UNCHANGED <<phase, failure, records, names, selectors>>
    /\ UNCHANGED raw

EndRecord ==
    /\ phase = "field"
    /\ Len(resolved) = Len(Record.fields)
    /\ records' = Append(records,
                     [name |-> NameOf(Record), fields |-> resolved,
                      size |-> cursor, selector |-> Record.selector])
    /\ phase' = "record"
    /\ UNCHANGED <<raw, failure, names, selectors, resolved, field_names,
                   cursor>>

Accept ==
    /\ phase = "record"
    /\ Len(records) = Len(raw.records)
    /\ phase' = "accepted"
    /\ UNCHANGED <<raw, failure, validation>>

NothingValidated ==
    /\ failure = "none"
    /\ records = <<>>
    /\ names = {}
    /\ selectors = {}
    /\ resolved = <<>>
    /\ field_names = {}
    /\ cursor = 0

Init ==
    /\ raw \in RawLayouts
    /\ phase = "layout"
    /\ NothingValidated

Validate == CheckLayout \/ BeginRecord \/ CheckField \/ EndRecord \/ Accept

Next == Validate

Spec == Init /\ [][Next]_layoutVars

-----------------------------------------------------------------------------
(***************************************************************************)
(* The accepted layout as the walker reads it.  The type field sits after  *)
(* the length field.                                                       *)
(***************************************************************************)
Prefix(prefix, at) ==
    IF prefix = {} THEN [offset |-> 0, size |-> 0, kind |-> "Skip"]
    ELSE [offset |-> at, size |-> PrefixSize(prefix),
          kind |-> (CHOOSE f \in prefix : TRUE).kind]

WalkerRecord(r) ==
    [size |-> r.size, selector |-> r.selector,
     fields |-> [i \in DOMAIN r.fields |->
                    [offset |-> r.fields[i].offset,
                     size   |-> r.fields[i].size,
                     kind   |-> r.fields[i].kind]]]

WalkerLayout ==
    LET length == PrefixSize(raw.record_length_field)
    IN  [header_size |-> raw.header_size,
         footer_size |-> raw.footer_size,
         record_length_field |-> Prefix(raw.record_length_field, 0),
         record_type_field |-> Prefix(raw.record_type_field, length),
         prefix_size |-> length + PrefixSize(raw.record_type_field),
         records |-> [k \in DOMAIN records |-> WalkerRecord(records[k])]]

(***************************************************************************)
(* What validation is for: a layout it accepts is one the record walker    *)
(* can be run with (RecordStream's RequestAssumption), no two fields of a  *)
(* record share a byte, and no record is past the limit, whatever offsets  *)
(* and sizes the request declared.                                         *)
(***************************************************************************)
Apart(r) ==
    \A i, j \in DOMAIN r.fields :
        i < j => r.fields[i].offset + r.fields[i].size <= r.fields[j].offset

AcceptedIsWalkable ==
    phase = "accepted" =>
       /\ IsLayout(WalkerLayout)
       /\ \A k \in DOMAIN records : Apart(records[k])
                                  /\ records[k].size <= MaxRecordBytes

(***************************************************************************)
(* A well-formed raw layout, stated of the whole instead of step by step.  *)
(* Ends(d)[i] is where the i-th field of a record ends.                    *)
(***************************************************************************)
Start(f, at) == IF f.offset = {} THEN at ELSE CHOOSE o \in f.offset : TRUE

Ends(d) ==
    LET end[i \in 0..Len(d)] ==
            IF i = 0 THEN 0 ELSE Start(d[i], end[i - 1]) + d[i].size
    IN  end

WellFormedField(f) == f.size > 0 /\ ~TooWide(f) /\ ~ScaleTooLarge(f)

Named(d, i) == d[i].kind # "Skip"

WellFormedFields(d, n) ==
    \A i \in 1..n :
        /\ WellFormedField(d[i])
        /\ \A o \in d[i].offset : o >= Ends(d)[i - 1]
        /\ Named(d, i) =>
              /\ d[i].name # <<>>
              /\ \A j \in 1..n : Named(d, j) /\ d[j].name = d[i].name => i = j

WellFormedRecord(r) ==
    /\ r.fields # <<>>
    /\ Ends(r.fields)[Len(r.fields)] <= MaxRecordBytes
    /\ WellFormedFields(r.fields, Len(r.fields))

WellFormed ==
    /\ raw.records # <<>>
    /\ raw.footer_size <= MaxFooterBytes
    /\ \A f \in raw.record_length_field \cup raw.record_type_field :
          WellFormedField(f) /\ f.kind # "Skip"
    /\ \A f \in raw.record_length_field : f.scale = 0
    /\ DeclaredFields <= MaxLayoutFields
    /\ raw.record_type_field = {} => Len(raw.records) = 1
    /\ \A k \in DOMAIN raw.records :
          /\ WellFormedRecord(raw.records[k])
          /\ raw.record_type_field # {} => raw.records[k].selector # {}
          /\ \A j \in DOMAIN raw.records :
                j # k => /\ NameOf(raw.records[j]) # NameOf(raw.records[k])
                         /\ raw.records[j].selector # raw.records[k].selector

(***************************************************************************)
(* Validation refuses for cause only, and nothing it should (validate as a *)
(* whole): the order of its checks and the state it carries from one field *)
(* to the next decide the message, never the verdict.                      *)
(***************************************************************************)
VerdictIsExact ==
    phase \in {"accepted", "rejected"} =>
       (phase = "accepted") <=> WellFormed

(***************************************************************************)
(* The accepted layout is the declared one (validate): the same fields in  *)
(* the same order, a declared offset where it was declared, and any other  *)
(* field right behind the one before it.                                   *)
(***************************************************************************)
AcceptedAsDeclared ==
    phase = "accepted" =>
       /\ Len(records) = Len(raw.records)
       /\ \A k \in DOMAIN records :
             LET f == records[k].fields
                 d == raw.records[k].fields
             IN  /\ Len(f) = Len(d)
                 /\ \A i \in DOMAIN f :
                       /\ <<f[i].name, f[i].size, f[i].kind, f[i].scale>>
                             = <<d[i].name, d[i].size, d[i].kind, d[i].scale>>
                       /\ \A o \in d[i].offset : f[i].offset = o
                       /\ d[i].offset = {} =>
                             f[i].offset = IF i = 1 THEN 0
                                           ELSE f[i - 1].offset + f[i - 1].size
                 /\ records[k].size = f[Len(f)].offset + f[Len(f)].size
=============================================================================
