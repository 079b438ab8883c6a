---------------------------- MODULE LayoutProofs ----------------------------
(***************************************************************************)
(* For every raw layout, whatever its offsets, sizes and names: a layout   *)
(* that validation accepts is one the record walker can be run with; it is *)
(* accepted exactly if it is well formed; and it is the declared one.      *)
(***************************************************************************)
EXTENDS Layout, Induction, TLAPS

ResolvedField ==
    [name : Name, offset : Nat, size : Nat, kind : Kind, scale : Nat,
     declaration : Declaration]
AcceptedRecord ==
    [name : Name \cup {DefaultRecordName}, fields : Seq(ResolvedField), size : Nat,
     selector : SUBSET STRING]

(***************************************************************************)
(* Fields in place: each takes at least a byte, none reaches into the      *)
(* next, the last one ends at `end` at the latest.                         *)
(***************************************************************************)
InPlace(f, end) ==
    /\ \A i \in DOMAIN f : f[i].size > 0 /\ f[i].offset + f[i].size <= end
    /\ \A i, j \in DOMAIN f : i < j => f[i].offset + f[i].size <= f[j].offset

RecordOK(r) ==
    /\ r \in AcceptedRecord
    /\ r.fields # <<>>
    /\ InPlace(r.fields, r.size)
    /\ r.size <= MaxRecordBytes

(***************************************************************************)
(* The inductive invariant.  Selectors of accepted records are kept apart  *)
(* by `selectors`, which also holds the one of the record in hand.         *)
(***************************************************************************)
Typed ==
    /\ raw \in RawLayout
    /\ phase \in {"layout", "record", "field", "accepted", "rejected"}
    /\ records \in Seq(AcceptedRecord)
    /\ resolved \in Seq(ResolvedField)
    /\ cursor \in Nat

RecordsOK == \A k \in DOMAIN records : RecordOK(records[k])

SelectorsApart ==
    raw.record_type_field # {} =>
       /\ \A k \in DOMAIN records : /\ records[k].selector # {}
                                    /\ records[k].selector \subseteq selectors
       /\ \A j, k \in DOMAIN records :
             records[j].selector = records[k].selector => j = k

HeadOK ==
    /\ phase = "layout" => records = <<>>
    /\ phase \in {"record", "field", "accepted"} =>
       /\ raw.records # <<>>
       /\ raw.record_type_field = {} => Len(raw.records) = 1
       /\ \A f \in raw.record_length_field \cup raw.record_type_field :
             f.size # 0
       /\ Len(records) <= Len(raw.records)

RecordInHand ==
    phase = "field" =>
       /\ Len(records) < Len(raw.records)
       /\ Record.fields # <<>>
       /\ Len(resolved) <= Len(Record.fields)
       /\ InPlace(resolved, cursor)
       /\ cursor <= MaxRecordBytes
       /\ raw.record_type_field # {} =>
             /\ Record.selector # {}
             /\ Record.selector \subseteq selectors
             /\ \A k \in DOMAIN records :
                   records[k].selector # Record.selector

AllRecords == phase = "accepted" => Len(records) = Len(raw.records)

LInv ==
    /\ Typed
    /\ RecordsOK
    /\ SelectorsApart
    /\ HeadOK
    /\ RecordInHand
    /\ AllRecords

-----------------------------------------------------------------------------
(***************************************************************************)
(* The record in hand is one of the raw ones.                              *)
(***************************************************************************)
LEMMA RecordInRaw ==
    ASSUME raw \in RawLayout, records \in Seq(AcceptedRecord),
           Len(records) < Len(raw.records)
    PROVE  Record \in RawRecord
  <1>1. raw.records \in Seq(RawRecord) /\ Len(records) \in Nat
    BY DEF RawLayout
  <1>2. Len(records) + 1 \in 1..Len(raw.records)
    BY <1>1
  <1> QED
    BY <1>1, <1>2 DEF Record

(***************************************************************************)
(* A sum that fits is the sum (checked_add): nothing wraps.                *)
(***************************************************************************)
LEMMA CheckedSum ==
    ASSUME NEW m \in Nat, NEW n \in Nat, ~Overflows(m, n)
    PROVE  AddU32(m, n) = m + n
  BY LayoutAssumption DEF AddU32, Overflows

(***************************************************************************)
(* A field whose declared offset, if any, is not before the cursor.        *)
(***************************************************************************)
LEMMA OffsetIsNat ==
    ASSUME NEW f \in RawField, cursor \in Nat
    PROVE  OffsetOf(f) \in Nat
  <1>1. CASE f.offset = {}
    BY <1>1 DEF OffsetOf
  <1>2. CASE f.offset # {}
    <2>1. f.offset \subseteq Nat
      BY DEF RawField, Optional
    <2>2. (CHOOSE o \in f.offset : TRUE) \in f.offset
      BY <1>2
    <2> QED
      BY <1>2, <2>1, <2>2 DEF OffsetOf
  <1> QED
    BY <1>1, <1>2

(***************************************************************************)
(* What the checks of a field leave to a field that passes them all.       *)
(***************************************************************************)
LEMMA FieldPasses ==
    ASSUME NEW f \in RawField, cursor \in Nat, Passes(FieldChecks(f))
    PROVE  /\ f.size \in Nat \ {0}
           /\ OffsetOf(f) >= cursor
           /\ AddU32(OffsetOf(f), f.size) = OffsetOf(f) + f.size
           /\ OffsetOf(f) + f.size <= MaxRecordBytes
  <1>0. f.size \in Nat
    BY DEF RawField
  <1>1. OffsetOf(f) \in Nat
    BY OffsetIsNat
  <1>2. /\ ~FieldChecks(f)[1].bad
        /\ ~FieldChecks(f)[3].bad
        /\ ~FieldChecks(f)[4].bad
        /\ ~FieldChecks(f)[5].bad
    BY DEF Passes, FieldChecks
  <1>3. /\ f.size # 0
        /\ ~(OffsetOf(f) < cursor)
        /\ ~Overflows(OffsetOf(f), f.size)
        /\ ~(AddU32(OffsetOf(f), f.size) > MaxRecordBytes)
    BY <1>2 DEF FieldChecks, Check
  <1>4. AddU32(OffsetOf(f), f.size) = OffsetOf(f) + f.size
    BY <1>0, <1>1, <1>3, CheckedSum
  <1> QED
    BY <1>0, <1>1, <1>3, <1>4, LimitAssumption

(***************************************************************************)
(* Appending a field behind the cursor leaves the fields in place.         *)
(***************************************************************************)
LEMMA AppendInPlace ==
    ASSUME NEW s \in Seq(ResolvedField), NEW end \in Nat, InPlace(s, end),
           NEW e \in ResolvedField, e.size > 0, e.offset >= end
    PROVE  InPlace(Append(s, e), e.offset + e.size)
  <1> DEFINE t == Append(s, e)
  <1>1. /\ DOMAIN t = 1..(Len(s) + 1) /\ Len(s) \in Nat /\ DOMAIN s = 1..Len(s)
        /\ \A i \in DOMAIN s : t[i] = s[i]
        /\ t[Len(s) + 1] = e
    OBVIOUS
  <1>2. e.offset \in Nat /\ e.size \in Nat
    BY DEF ResolvedField
  <1>3. \A i \in DOMAIN s : s[i].size \in Nat /\ s[i].offset \in Nat
    <2>1. \A i \in DOMAIN s : s[i] \in ResolvedField
      OBVIOUS
    <2> QED
      BY <2>1 DEF ResolvedField
  <1>4. \A i \in DOMAIN s : s[i].size > 0 /\ s[i].offset + s[i].size <= end
    BY DEF InPlace
  <1>5. ASSUME NEW i \in DOMAIN t
        PROVE  t[i].size > 0 /\ t[i].offset + t[i].size <= e.offset + e.size
    <2>1. CASE i \in DOMAIN s
      BY <2>1, <1>1, <1>2, <1>3, <1>4
    <2>2. CASE i = Len(s) + 1
      BY <2>2, <1>1, <1>2
    <2> QED
      BY <2>1, <2>2, <1>1
  <1>6. ASSUME NEW i \in DOMAIN t, NEW j \in DOMAIN t, i < j
        PROVE  t[i].offset + t[i].size <= t[j].offset
    <2>1. i \in DOMAIN s
      BY <1>1, <1>6
    <2>2. CASE j \in DOMAIN s
      BY <2>1, <2>2, <1>1, <1>6 DEF InPlace
    <2>3. CASE j = Len(s) + 1
      BY <2>1, <2>3, <1>1, <1>2, <1>3, <1>4
    <2> QED
      BY <2>2, <2>3, <1>1
  <1> HIDE DEF t
  <1>7. InPlace(t, e.offset + e.size)
    BY <1>5, <1>6 DEF InPlace
  <1> QED
    BY <1>7 DEF t

-----------------------------------------------------------------------------
(***************************************************************************)
(* A request holds the invariant before validate has looked at anything.   *)
(***************************************************************************)
THEOREM LInvInit == Init => LInv
  <1> SUFFICES ASSUME Init PROVE LInv
    OBVIOUS
  <1>1. raw \in RawLayout
    BY LayoutAssumption DEF Init
  <1>2. Typed
    BY <1>1 DEF Init, NothingValidated, Typed
  <1>3. phase = "layout" /\ records = <<>>
    BY DEF Init, NothingValidated
  <1> QED
    BY <1>2, <1>3
       DEF LInv, RecordsOK, SelectorsApart, HeadOK, RecordInHand, AllRecords

(***************************************************************************)
(* A step that keeps the accepted records and does not accept any.         *)
(***************************************************************************)
LEMMA KeepsRecords ==
    ASSUME LInv, UNCHANGED <<raw, records>>, selectors \subseteq selectors'
    PROVE  RecordsOK' /\ SelectorsApart'
  <1>1. RecordsOK'
    BY DEF LInv, RecordsOK, RecordOK, InPlace
  <1>2. SelectorsApart'
    BY DEF LInv, SelectorsApart
  <1> QED
    BY <1>1, <1>2

(***************************************************************************)
(* Answering InvalidLayout disturbs nothing that was established.          *)
(***************************************************************************)
LEMMA Rejecting ==
    ASSUME LInv, UNCHANGED <<raw, validation>>, phase' = "rejected"
    PROVE  LInv'
  <1> USE DEF validation
  <1>1. Typed'
    BY DEF LInv, Typed
  <1>2. RecordsOK' /\ SelectorsApart'
    BY KeepsRecords
  <1> QED
    BY <1>1, <1>2 DEF LInv, HeadOK, RecordInHand, AllRecords

(***************************************************************************)
(* What the checks of the whole layout establish.                          *)
(***************************************************************************)
LEMMA HeadPasses ==
    ASSUME raw \in RawLayout, Passes(LayoutChecks)
    PROVE  /\ raw.records # <<>>
           /\ raw.record_type_field = {} => Len(raw.records) = 1
           /\ \A f \in raw.record_length_field \cup raw.record_type_field :
                 f.size # 0
  <1>1. /\ ~LayoutChecks[1].bad
        /\ ~LayoutChecks[3].bad
        /\ ~LayoutChecks[5].bad
        /\ ~LayoutChecks[6].bad
    <2>1. {1, 3, 5, 6} \subseteq DOMAIN LayoutChecks
      BY DEF LayoutChecks
    <2> QED
      BY <2>1 DEF Passes
  <1>2. /\ raw.records # <<>>
        /\ ~(Len(raw.records) > 1 /\ raw.record_type_field = {})
    BY <1>1 DEF LayoutChecks, Check
  <1>3. ASSUME NEW prefix, ~PrefixCheck(prefix).bad, NEW f \in prefix
        PROVE  f.size # 0
    <2>1. BadPrefix(prefix) = {}
      BY <1>3 DEF PrefixCheck, Check
    <2>2. Passes(PrefixChecks(f))
      BY <1>3, <2>1 DEF BadPrefix
    <2>3. ~PrefixChecks(f)[1].bad
      BY <2>2 DEF Passes, PrefixChecks
    <2> QED
      BY <2>3 DEF PrefixChecks, Check
  <1>4. Len(raw.records) \in Nat /\ Len(raw.records) # 0
    BY <1>2 DEF RawLayout
  <1>5. raw.record_type_field = {} => Len(raw.records) = 1
    <2>1. ASSUME NEW n \in Nat, n # 0, ~(n > 1) PROVE n = 1
      BY <2>1
    <2> QED
      BY <1>2, <1>4, <2>1
  <1>6. \A f \in raw.record_length_field : f.size # 0
    <2>1. ~PrefixCheck(raw.record_length_field).bad
      BY <1>1 DEF LayoutChecks
    <2> QED
      BY <1>3, <2>1, Zenon
  <1>7. \A f \in raw.record_type_field : f.size # 0
    <2>1. ~PrefixCheck(raw.record_type_field).bad
      BY <1>1 DEF LayoutChecks
    <2> QED
      BY <1>3, <2>1, Zenon
  <1> QED
    BY <1>2, <1>5, <1>6, <1>7

(***************************************************************************)
(* The checks before the first record: a layout that goes on to its        *)
(* records has passed all of them.                                         *)
(***************************************************************************)
LEMMA CheckLayoutStep ==
    ASSUME LInv, CheckLayout
    PROVE  LInv'
  <1>1. CASE RejectBy(LayoutChecks)
    BY <1>1, Rejecting DEF RejectBy, Reject, CheckLayout
  <1>2. CASE Passes(LayoutChecks) /\ phase' = "record"
    <2> USE <1>2 DEF CheckLayout, validation
    <2>1. Typed'
      BY DEF LInv, Typed
    <2>2. RecordsOK' /\ SelectorsApart'
      BY KeepsRecords
    <2>3. records = <<>>
      BY DEF LInv, HeadOK
    <2>4. HeadOK'
      BY <2>3, HeadPasses DEF LInv, Typed, HeadOK, RawLayout
    <2> QED
      BY <2>1, <2>2, <2>4 DEF LInv, RecordInHand, AllRecords
  <1> QED
    BY <1>1, <1>2 DEF CheckLayout

(***************************************************************************)
(* The selector of a record that passes its checks is a new one.           *)
(***************************************************************************)
LEMMA SelectorIsNew ==
    ASSUME Passes(RecordChecks(Record))
    PROVE  /\ Record.fields # <<>>
           /\ raw.record_type_field # {} =>
                 Record.selector # {} /\ Record.selector \cap selectors = {}
  <1>1. /\ ~RecordChecks(Record)[2].bad
        /\ ~RecordChecks(Record)[3].bad
        /\ ~RecordChecks(Record)[4].bad
    <2>1. {2, 3, 4} \subseteq DOMAIN RecordChecks(Record)
      BY DEF RecordChecks
    <2> QED
      BY <2>1 DEF Passes
  <1> QED
    BY <1>1 DEF RecordChecks, Check, SelectorTaken

(***************************************************************************)
(* A record begins with no field and, when there are several records, with *)
(* a selector no record before it has.                                     *)
(***************************************************************************)
LEMMA BeginRecordStep ==
    ASSUME LInv, BeginRecord
    PROVE  LInv'
  <1>1. CASE RejectBy(RecordChecks(Record)) /\ UNCHANGED validation
    BY <1>1, Rejecting DEF RejectBy, Reject, BeginRecord
  <1>2. CASE /\ Passes(RecordChecks(Record))
             /\ selectors' = IF raw.record_type_field = {} THEN selectors
                             ELSE selectors \cup Record.selector
             /\ resolved' = <<>> /\ cursor' = 0 /\ phase' = "field"
             /\ UNCHANGED records
    <2>1. /\ phase = "record" /\ Len(records) < Len(raw.records)
          /\ UNCHANGED raw
      BY DEF BeginRecord
    <2>2. Typed'
      BY <1>2, <2>1 DEF LInv, Typed
    <2>3. RecordsOK' /\ SelectorsApart'
      BY <1>2, <2>1, KeepsRecords
    <2>4. HeadOK'
      BY <1>2, <2>1 DEF LInv, HeadOK
    <2>5. Record' = Record
      BY <1>2, <2>1 DEF Record
    <2>6. Record \in RawRecord
      BY <2>1, RecordInRaw DEF LInv, Typed
    <2>7. InPlace(<<>>, 0)
      BY DEF InPlace
    <2>8. RecordInHand'
      <3>1. /\ Len(records') < Len(raw'.records)
            /\ Record'.fields # <<>>
            /\ InPlace(resolved', cursor')
            /\ cursor' <= MaxRecordBytes
        BY <1>2, <2>1, <2>5, <2>7, SelectorIsNew, LimitAssumption
      <3>2. Len(resolved') <= Len(Record'.fields)
        BY <1>2, <2>5, <2>6 DEF RawRecord
      <3>3. ASSUME raw'.record_type_field # {}
            PROVE  /\ Record'.selector # {}
                   /\ Record'.selector \subseteq selectors'
                   /\ \A k \in DOMAIN records' :
                         records'[k].selector # Record'.selector
        <4>1. /\ Record.selector # {} /\ Record.selector \cap selectors = {}
              /\ selectors' = selectors \cup Record.selector
          BY <1>2, <2>1, <3>3, SelectorIsNew
        <4>2. \A k \in DOMAIN records : records[k].selector \subseteq selectors
          BY <1>2, <2>1, <3>3 DEF LInv, SelectorsApart
        <4>3. \A k \in DOMAIN records : records[k].selector # Record.selector
          BY <4>1, <4>2
        <4> QED
          BY <1>2, <2>5, <4>1, <4>3
      <3> QED
        BY <3>1, <3>2, <3>3 DEF RecordInHand
    <2> QED
      BY <1>2, <2>2, <2>3, <2>4, <2>8 DEF LInv, AllRecords
  <1> QED
    BY <1>1, <1>2 DEF BeginRecord

(***************************************************************************)
(* Resolving a field, its default sign included, yields a declaration.     *)
(***************************************************************************)
LEMMA ResolvedTyped ==
    ASSUME NEW f \in RawField, cursor \in Nat
    PROVE  Resolved(f) \in ResolvedField
  <1>1. OffsetOf(f) \in Nat
    BY OffsetIsNat
  <1>2. f.declaration \in Declaration /\ f.name \in Name
    BY DEF RawField
  <1>3. [f.declaration EXCEPT !.path = f.name] \in Declaration
    BY <1>2 DEF Declaration
  <1> QED
    BY <1>1, <1>2, <1>3 DEF Resolved, ResolvedField, RawField

(***************************************************************************)
(* A field that passes is appended where its offset is the end of what is  *)
(* before it, or later, and stays inside the 32-bit record.                *)
(***************************************************************************)
LEMMA CheckFieldStep ==
    ASSUME LInv, CheckField
    PROVE  LInv'
  <1> DEFINE f == Record.fields[Len(resolved) + 1]
  <1>0. /\ phase = "field" /\ Len(resolved) < Len(Record.fields)
        /\ Len(records) < Len(raw.records)
        /\ Record \in RawRecord
        /\ raw \in RawLayout /\ resolved \in Seq(ResolvedField)
        /\ cursor \in Nat
        /\ UNCHANGED raw
    BY RecordInRaw DEF CheckField, LInv, Typed, RecordInHand
  <1>1. f \in RawField
    <2>1. Record.fields \in Seq(RawField) /\ Len(resolved) \in Nat
      BY <1>0 DEF RawRecord
    <2> QED
      BY <1>0, <2>1
  <1>2. CASE RejectBy(FieldChecks(f)) /\ UNCHANGED validation
    BY <1>0, <1>2, Rejecting DEF RejectBy, Reject
  <1>3. CASE /\ Passes(FieldChecks(f))
             /\ resolved' = Append(resolved, Resolved(f))
             /\ cursor' = CursorAfter(f)
             /\ UNCHANGED <<phase, failure, records, names, selectors>>
    <2> HIDE DEF f
    <2>1. /\ f.size \in Nat \ {0}
          /\ OffsetOf(f) \in Nat /\ OffsetOf(f) >= cursor
          /\ cursor' = OffsetOf(f) + f.size
          /\ cursor' <= MaxRecordBytes
      BY <1>0, <1>1, <1>3, FieldPasses, OffsetIsNat DEF CursorAfter
    <2>2. /\ Resolved(f) \in ResolvedField
          /\ Resolved(f).offset = OffsetOf(f) /\ Resolved(f).size = f.size
      BY <1>0, <1>1, ResolvedTyped DEF Resolved
    <2>3. InPlace(resolved, cursor)
      BY <1>0 DEF LInv, RecordInHand
    <2>4. InPlace(resolved', cursor')
      BY <1>0, <1>3, <2>1, <2>2, <2>3, AppendInPlace
    <2>5. Typed'
      BY <1>0, <1>3, <2>1, <2>2 DEF LInv, Typed
    <2>6. RecordsOK' /\ SelectorsApart'
      BY <1>0, <1>3, KeepsRecords
    <2>7. HeadOK'
      BY <1>0, <1>3 DEF LInv, HeadOK
    <2>8. Record' = Record
      BY <1>0, <1>3 DEF Record
    <2>9. Len(resolved') = Len(resolved) + 1 /\ Len(resolved) \in Nat
      BY <1>0, <1>3
    <2>10. Len(Record.fields) \in Nat
      BY <1>0 DEF RawRecord
    <2>11. RecordInHand'
      <3>1. /\ Len(records') < Len(raw'.records)
            /\ Record'.fields # <<>>
            /\ Len(resolved') <= Len(Record'.fields)
        BY <1>0, <1>3, <2>8, <2>9, <2>10 DEF LInv, RecordInHand
      <3>2. raw'.record_type_field # {} =>
               /\ Record'.selector # {}
               /\ Record'.selector \subseteq selectors'
               /\ \A k \in DOMAIN records' :
                     records'[k].selector # Record'.selector
        BY <1>0, <1>3, <2>8 DEF LInv, RecordInHand
      <3> QED
        BY <2>1, <2>4, <3>1, <3>2 DEF RecordInHand
    <2> QED
      BY <1>0, <1>3, <2>5, <2>6, <2>7, <2>11 DEF LInv, AllRecords
  <1> QED
    BY <1>2, <1>3 DEF CheckField

(***************************************************************************)
(* A record is kept only if it is as long as its fields, and no longer than*)
(* max_record_bytes.                                                       *)
(***************************************************************************)
LEMMA EndRecordStep ==
    ASSUME LInv, EndRecord
    PROVE  LInv'
  <1> DEFINE r == [name |-> NameOf(Record), fields |-> resolved,
                   size |-> cursor, selector |-> Record.selector]
  <1>0. /\ phase = "field" /\ phase' = "record"
        /\ Len(resolved) = Len(Record.fields)
        /\ Len(records) < Len(raw.records)
        /\ Record \in RawRecord
        /\ raw \in RawLayout /\ resolved \in Seq(ResolvedField)
        /\ records \in Seq(AcceptedRecord)
        /\ cursor \in Nat
        /\ records' = Append(records, r)
        /\ UNCHANGED <<raw, selectors, resolved, cursor>>
    BY RecordInRaw DEF EndRecord, LInv, Typed, RecordInHand
  <1>1. RecordOK(r)
    <2>1. NameOf(Record) \in Name \cup {DefaultRecordName}
      BY <1>0 DEF NameOf, RawRecord
    <2>2. r \in AcceptedRecord
      BY <1>0, <2>1 DEF AcceptedRecord, RawRecord, Optional
    <2>3. Record.fields \in Seq(RawField) /\ Record.fields # <<>>
      BY <1>0 DEF LInv, RecordInHand, RawRecord
    <2>4. resolved # <<>>
      BY <1>0, <2>3
    <2>5. InPlace(resolved, cursor) /\ cursor <= MaxRecordBytes
      BY <1>0 DEF LInv, RecordInHand
    <2> QED
      BY <2>2, <2>4, <2>5 DEF RecordOK
  <1>2. r \in AcceptedRecord /\ r.selector = Record.selector
    BY <1>1 DEF RecordOK
  <1> HIDE DEF r
  <1>3. /\ Len(records) \in Nat /\ DOMAIN records = 1..Len(records)
        /\ Len(records') = Len(records) + 1
        /\ DOMAIN records' = 1..(Len(records) + 1)
        /\ \A k \in DOMAIN records : records'[k] = records[k]
        /\ records'[Len(records) + 1] = r
    BY <1>0, <1>2
  <1>4. Typed'
    BY <1>0, <1>2 DEF LInv, Typed
  <1>5. RecordsOK'
    <2> SUFFICES ASSUME NEW k \in DOMAIN records'
                 PROVE  RecordOK(records'[k])
      BY DEF RecordsOK, RecordOK, InPlace
    <2>1. CASE k \in DOMAIN records
      BY <1>3, <2>1 DEF LInv, RecordsOK
    <2>2. CASE k = Len(records) + 1
      BY <1>1, <1>3, <2>2
    <2> QED
      BY <1>3, <2>1, <2>2
  <1>6. SelectorsApart'
    <2> SUFFICES ASSUME raw.record_type_field # {}
                 PROVE  /\ \A k \in DOMAIN records' :
                              /\ records'[k].selector # {}
                              /\ records'[k].selector \subseteq selectors
                        /\ \A j, k \in DOMAIN records' :
                              records'[j].selector = records'[k].selector
                                 => j = k
      BY <1>0 DEF SelectorsApart
    <2>1. /\ r.selector # {} /\ r.selector \subseteq selectors
          /\ \A k \in DOMAIN records : records[k].selector # r.selector
      BY <1>0, <1>2 DEF LInv, RecordInHand
    <2>2. /\ \A k \in DOMAIN records : /\ records[k].selector # {}
                                       /\ records[k].selector \subseteq selectors
          /\ \A j, k \in DOMAIN records :
                records[j].selector = records[k].selector => j = k
      BY DEF LInv, SelectorsApart
    <2>3. \A k \in DOMAIN records' :
             /\ records'[k].selector # {}
             /\ records'[k].selector \subseteq selectors
      BY <1>3, <2>1, <2>2
    <2>4. ASSUME NEW j \in DOMAIN records', NEW k \in DOMAIN records',
                 records'[j].selector = records'[k].selector
          PROVE  j = k
      <3>1. CASE j \in DOMAIN records /\ k \in DOMAIN records
        BY <1>3, <2>2, <2>4, <3>1
      <3>2. CASE j \in DOMAIN records /\ k = Len(records) + 1
        BY <1>3, <2>1, <2>4, <3>2
      <3>3. CASE j = Len(records) + 1 /\ k \in DOMAIN records
        BY <1>3, <2>1, <2>4, <3>3
      <3>4. CASE j = Len(records) + 1 /\ k = Len(records) + 1
        BY <3>4
      <3> QED
        BY <1>3, <3>1, <3>2, <3>3, <3>4
    <2> QED
      BY <2>3, <2>4
  <1>7. Len(raw.records) \in Nat
    BY <1>0 DEF RawLayout
  <1>8. HeadOK'
    BY <1>0, <1>3, <1>7 DEF LInv, HeadOK
  <1> QED
    BY <1>0, <1>4, <1>5, <1>6, <1>8 DEF LInv, RecordInHand, AllRecords

(***************************************************************************)
(* A layout is accepted when every record of it has been kept.             *)
(***************************************************************************)
LEMMA AcceptStep ==
    ASSUME LInv, Accept
    PROVE  LInv'
  <1>0. /\ phase = "record" /\ phase' = "accepted"
        /\ Len(records) = Len(raw.records)
        /\ UNCHANGED <<raw, records, selectors, resolved, cursor>>
    BY DEF Accept, validation
  <1>1. Typed'
    BY <1>0 DEF LInv, Typed
  <1>2. RecordsOK' /\ SelectorsApart'
    BY <1>0, KeepsRecords
  <1>3. HeadOK'
    BY <1>0 DEF LInv, HeadOK
  <1> QED
    BY <1>0, <1>1, <1>2, <1>3 DEF LInv, RecordInHand, AllRecords

(***************************************************************************)
(* Every step of validate preserves the invariant.                         *)
(***************************************************************************)
THEOREM LInvInductive == LInv /\ [Next]_layoutVars => LInv'
  <1> SUFFICES ASSUME LInv, [Next]_layoutVars
               PROVE  LInv'
    OBVIOUS
  <1>1. CASE CheckLayout
    BY <1>1, CheckLayoutStep
  <1>2. CASE BeginRecord
    BY <1>2, BeginRecordStep
  <1>3. CASE CheckField
    BY <1>3, CheckFieldStep
  <1>4. CASE EndRecord
    BY <1>4, EndRecordStep
  <1>5. CASE Accept
    BY <1>5, AcceptStep
  <1>6. CASE UNCHANGED layoutVars
    <2>1. UNCHANGED <<raw, phase, records, selectors, resolved, cursor>>
      BY <1>6 DEF layoutVars, validation
    <2>2. Typed'
      BY <2>1 DEF LInv, Typed
    <2>3. RecordsOK' /\ SelectorsApart'
      BY <2>1, KeepsRecords
    <2>4. HeadOK'
      BY <2>1 DEF LInv, HeadOK
    <2>5. Record' = Record
      BY <2>1 DEF Record
    <2>6. RecordInHand'
      BY <2>1, <2>5 DEF LInv, RecordInHand, InPlace
    <2> QED
      BY <2>1, <2>2, <2>3, <2>4, <2>6 DEF LInv, AllRecords
  <1> QED
    BY <1>1, <1>2, <1>3, <1>4, <1>5, <1>6 DEF Next, Validate

-----------------------------------------------------------------------------
(***************************************************************************)
(* The prefix fields of an accepted layout, as the walker reads them.      *)
(***************************************************************************)
LEMMA PrefixIsField ==
    ASSUME NEW prefix \in SUBSET RawField, NEW at \in Nat,
           \A f \in prefix : f.size # 0
    PROVE  /\ Prefix(prefix, at) \in Field
           /\ Prefix(prefix, at).size = PrefixSize(prefix)
           /\ PrefixSize(prefix) \in Nat
           /\ PrefixSize(prefix) = 0 => prefix = {}
  <1>1. CASE prefix = {}
    BY <1>1 DEF Prefix, PrefixSize, Field, Kind
  <1>2. CASE prefix # {}
    <2> DEFINE f == CHOOSE g \in prefix : TRUE
    <2>1. f \in prefix
      BY <1>2
    <2>2. f \in RawField
      BY <2>1
    <2>3. f.size \in Nat \ {0} /\ f.kind \in Kind
      BY <2>1, <2>2 DEF RawField
    <2>4. /\ PrefixSize(prefix) = f.size
          /\ Prefix(prefix, at) = [offset |-> at, size |-> f.size,
                                   kind |-> f.kind]
      BY <1>2 DEF Prefix, PrefixSize
    <2> HIDE DEF f
    <2> QED
      BY <2>3, <2>4 DEF Field
  <1> QED
    BY <1>1, <1>2

(***************************************************************************)
(* One accepted record, prefixed as the walker will read it, is a record   *)
(* layout in the walker's sense.                                           *)
(***************************************************************************)
LEMMA WalkerRecordOK ==
    ASSUME NEW r, RecordOK(r)
    PROVE  IsRecordLayout(WalkerRecord(r)) /\ Apart(r)
  <1> DEFINE w == WalkerRecord(r)
             end == r.size
  <1>1. /\ r.size \in Nat /\ r.fields \in Seq(ResolvedField)
        /\ r.fields # <<>> /\ InPlace(r.fields, r.size)
    BY DEF RecordOK, AcceptedRecord
  <1>2. /\ w.size = r.size
        /\ w.fields = [i \in DOMAIN r.fields |->
                          [offset |-> r.fields[i].offset,
                           size   |-> r.fields[i].size,
                           kind   |-> r.fields[i].kind]]
    BY DEF WalkerRecord
  <1> HIDE DEF w
  <1>3. DOMAIN r.fields = 1..Len(r.fields) /\ Len(r.fields) \in Nat
    BY <1>1
  <1>4. \A i \in DOMAIN r.fields :
           /\ r.fields[i] \in ResolvedField
           /\ r.fields[i].offset \in Nat /\ r.fields[i].size \in Nat
           /\ r.fields[i].kind \in Kind
    <2>1. \A i \in DOMAIN r.fields : r.fields[i] \in ResolvedField
      BY <1>1
    <2> QED
      BY <2>1 DEF ResolvedField
  <1>5. w.fields \in Seq(Field)
    <2>1. \A i \in 1..Len(r.fields) : w.fields[i] \in Field
      BY <1>2, <1>3, <1>4 DEF Field
    <2>2. w.fields \in [1..Len(r.fields) -> Field]
      BY <1>2, <1>3, <2>1
    <2> QED
      BY <1>3, <2>2
  <1>6. \A i \in DOMAIN w.fields :
           w.fields[i].size > 0 /\ w.fields[i].offset + w.fields[i].size <= w.size
    BY <1>1, <1>2 DEF InPlace
  <1>7. w.size \in Nat \ {0}
    <2>1. 1 \in DOMAIN r.fields
      BY <1>1, <1>3
    <2>2. r.fields[1].size > 0 /\ r.fields[1].offset + r.fields[1].size <= r.size
      BY <1>1, <2>1 DEF InPlace
    <2> QED
      BY <1>1, <1>2, <1>4, <2>1, <2>2
  <1>8. IsRecordLayout(w)
    BY <1>5, <1>6, <1>7 DEF IsRecordLayout
  <1>9. Apart(r)
    BY <1>1 DEF Apart, InPlace
  <1> QED
    BY <1>8, <1>9 DEF w

(***************************************************************************)
(* The invariant implies the property.                                     *)
(***************************************************************************)
THEOREM LInvImpliesWalkable == LInv => AcceptedIsWalkable
  <1> SUFFICES ASSUME LInv, phase = "accepted"
               PROVE  /\ IsLayout(WalkerLayout)
                      /\ \A k \in DOMAIN records :
                            /\ Apart(records[k])
                            /\ records[k].size <= MaxRecordBytes
    BY DEF AcceptedIsWalkable
  <1> DEFINE w == WalkerLayout
             length == PrefixSize(raw.record_length_field)
             type == PrefixSize(raw.record_type_field)
  <1>1. /\ raw.header_size \in Nat /\ raw.footer_size \in Nat
        /\ raw.record_length_field \in SUBSET RawField
        /\ raw.record_type_field \in SUBSET RawField
        /\ raw.records \in Seq(RawRecord)
        /\ records \in Seq(AcceptedRecord)
    BY DEF LInv, Typed, RawLayout, Optional
  <1>2. /\ raw.records # <<>>
        /\ raw.record_type_field = {} => Len(raw.records) = 1
        /\ \A f \in raw.record_length_field : f.size # 0
        /\ \A f \in raw.record_type_field : f.size # 0
        /\ Len(records) = Len(raw.records)
    BY DEF LInv, HeadOK, AllRecords
  <1>3. /\ Prefix(raw.record_length_field, 0) \in Field
        /\ Prefix(raw.record_length_field, 0).size = length
        /\ length \in Nat
    BY <1>1, <1>2, PrefixIsField
  <1>4. /\ Prefix(raw.record_type_field, length) \in Field
        /\ Prefix(raw.record_type_field, length).size = type
        /\ type = 0 => raw.record_type_field = {}
    BY <1>1, <1>2, <1>3, PrefixIsField
  <1>5. /\ w.header_size = raw.header_size
        /\ w.footer_size = raw.footer_size
        /\ w.record_length_field = Prefix(raw.record_length_field, 0)
        /\ w.record_type_field = Prefix(raw.record_type_field, length)
        /\ w.prefix_size = length + type
        /\ w.records = [k \in DOMAIN records |-> WalkerRecord(records[k])]
    BY DEF WalkerLayout
  <1> HIDE DEF w, length, type
  <1>6. \A k \in DOMAIN records :
           /\ IsRecordLayout(WalkerRecord(records[k]))
           /\ Apart(records[k]) /\ records[k].size <= MaxRecordBytes
    BY WalkerRecordOK DEF LInv, RecordsOK, RecordOK
  <1>7. /\ DOMAIN records = 1..Len(records) /\ Len(records) \in Nat \ {0}
        /\ Len(w.records) = Len(records)
        /\ DOMAIN w.records = DOMAIN records
    <2>1. Len(records) \in Nat \ {0} /\ DOMAIN records = 1..Len(records)
      BY <1>1, <1>2
    <2>2. w.records \in Seq({WalkerRecord(records[k]) : k \in DOMAIN records})
      BY <1>5, <2>1
    <2> QED
      BY <1>5, <2>1, <2>2
  <1>8. \A k \in DOMAIN w.records :
           /\ IsRecordLayout(w.records[k])
           /\ w.records[k].selector = records[k].selector
    BY <1>5, <1>6, <1>7 DEF WalkerRecord
  <1>9. \A j, k \in DOMAIN records :
           records[j].selector = records[k].selector => j = k
    <2>1. CASE raw.record_type_field = {}
      <3>1. Len(records) = 1
        BY <1>2, <2>1
      <3> QED
        BY <1>7, <3>1
    <2>2. CASE raw.record_type_field # {}
      BY <2>2 DEF LInv, SelectorsApart
    <2> QED
      BY <2>1, <2>2
  <1>10. IsLayout(w)
    <2>1. w.record_type_field.size = 0 => Len(w.records) = 1
      BY <1>2, <1>4, <1>5, <1>7
    <2>2. \A j, k \in DOMAIN w.records :
             w.records[j].selector = w.records[k].selector => j = k
      BY <1>7, <1>8, <1>9
    <2> QED
      BY <1>1, <1>3, <1>4, <1>5, <1>7, <1>8, <2>1, <2>2 DEF IsLayout
  <1> QED
    BY <1>6, <1>10 DEF w

(***************************************************************************)
(* A layout that validate accepts is one the walker can be run with, for   *)
(* every raw layout and every value of the limits.                         *)
(***************************************************************************)
THEOREM ValidationSound == Spec => []AcceptedIsWalkable
  <1>1. Init => LInv
    BY LInvInit
  <1>2. LInv /\ [Next]_layoutVars => LInv'
    BY LInvInductive
  <1>3. LInv => AcceptedIsWalkable
    BY LInvImpliesWalkable
  <1> QED
    BY <1>1, <1>2, <1>3, PTL DEF Spec

-----------------------------------------------------------------------------
(***************************************************************************)
(* The verdict.  The ends of fields are the running sums validate computes *)
(* them as.                                                                *)
(***************************************************************************)
LEMMA StartIsNat ==
    ASSUME NEW f \in RawField, NEW at \in Nat
    PROVE  Start(f, at) \in Nat /\ f.size \in Nat
  <1>1. f.offset \subseteq Nat /\ f.size \in Nat
    BY DEF RawField, Optional
  <1>2. CASE f.offset = {}
    BY <1>1, <1>2 DEF Start
  <1>3. CASE f.offset # {}
    <2>1. (CHOOSE o \in f.offset : TRUE) \in f.offset
      BY <1>3
    <2> QED
      BY <1>1, <1>3, <2>1 DEF Start
  <1> QED
    BY <1>2, <1>3

(***************************************************************************)
(* Ends is what its recursion says.                                        *)
(***************************************************************************)
LEMMA EndsUnfold ==
    ASSUME NEW d \in Seq(RawField)
    PROVE  /\ Ends(d)[0] = 0
           /\ \A i \in 0..Len(d) : Ends(d)[i] \in Nat
           /\ \A i \in 1..Len(d) :
                 Ends(d)[i] = Start(d[i], Ends(d)[i - 1]) + d[i].size
  <1> DEFINE n == Len(d)
             step == [i \in 1..n |-> [at \in Nat |-> Start(d[i], at) + d[i].size]]
  <1>1. n \in Nat /\ \A i \in 1..n : d[i] \in RawField
    OBVIOUS
  <1> HIDE DEF n
  <1>2. step \in [1..n -> [Nat -> Nat]]
    <2>1. ASSUME NEW i \in 1..n, NEW at \in Nat
          PROVE  Start(d[i], at) + d[i].size \in Nat
      <3>1. d[i] \in RawField
        BY <1>1
      <3>2. Start(d[i], at) \in Nat /\ d[i].size \in Nat
        BY <3>1, StartIsNat
      <3> QED
        BY <3>2
    <2> QED
      BY <2>1
  <1>3. \A i \in 1..n, at \in Nat : step[i][at] = Start(d[i], at) + d[i].size
    OBVIOUS
  <1> HIDE DEF step
  <1>4. PICK f : Iterates(f, n, Nat, 0, step)
    <2>1. 0 \in Nat
      OBVIOUS
    <2> QED
      BY <1>1, <1>2, <2>1, IterationExists
  <1>5. f = [i \in 0..n |-> IF i = 0 THEN 0 ELSE Start(d[i], f[i - 1]) + d[i].size]
    <2>1. ASSUME NEW i \in 1..n
          PROVE  f[i] = Start(d[i], f[i - 1]) + d[i].size
      <3>1. f[i - 1] \in Nat
        BY <1>1, <1>4 DEF Iterates
      <3> QED
        BY <1>3, <1>4, <3>1 DEF Iterates
    <2>2. \A i \in 0..n : f[i] = IF i = 0 THEN 0
                                ELSE Start(d[i], f[i - 1]) + d[i].size
      BY <1>1, <1>4, <2>1 DEF Iterates
    <2> QED
      BY <1>4, <2>2 DEF Iterates
  <1>6. Ends(d) = [i \in 0..n |-> IF i = 0 THEN 0
                                 ELSE Start(d[i], Ends(d)[i - 1]) + d[i].size]
    BY <1>5 DEF Ends, n
  <1>7. /\ Ends(d)[0] = 0
        /\ \A i \in 1..n : Ends(d)[i] = Start(d[i], Ends(d)[i - 1]) + d[i].size
    <2>1. 0 \in 0..n /\ \A i \in 1..n : i \in 0..n /\ i # 0
      BY <1>1
    <2> QED
      BY <1>6, <2>1
  <1>8. \A i \in 0..n : Ends(d)[i] \in Nat
    <2> DEFINE T == {i \in 0..n : Ends(d)[i] \in Nat}
    <2>1. 0 \in T
      BY <1>1, <1>7
    <2>2. ASSUME NEW i \in 1..n, i - 1 \in T
          PROVE  i \in T
      <3>1. Start(d[i], Ends(d)[i - 1]) \in Nat /\ d[i].size \in Nat
        BY <1>1, <2>2, StartIsNat
      <3> QED
        BY <1>7, <3>1
    <2> HIDE DEF T
    <2>3. \A i \in 0..n : i \in T
      BY <1>1, <2>1, <2>2, IntervalInduction
    <2> QED
      BY <2>3 DEF T
  <1> QED
    BY <1>7, <1>8 DEF n

(***************************************************************************)
(* Fields that are well formed end later and later.                        *)
(***************************************************************************)
LEMMA EndsGrow ==
    ASSUME NEW d \in Seq(RawField), WellFormedFields(d, Len(d)),
           NEW i \in 0..Len(d)
    PROVE  Ends(d)[i] <= Ends(d)[Len(d)]
  <1> DEFINE n == Len(d)
             T == {k \in 0..n : Ends(d)[n - k] <= Ends(d)[n]}
  <1>1. /\ n \in Nat /\ \A j \in 0..n : Ends(d)[j] \in Nat
        /\ \A j \in 1..n : Ends(d)[j] = Start(d[j], Ends(d)[j - 1]) + d[j].size
    BY EndsUnfold
  <1>2. ASSUME NEW j \in 1..n
        PROVE  Ends(d)[j - 1] <= Ends(d)[j]
    <2>0. d[j] \in RawField
      OBVIOUS
    <2>1. d[j].size \in Nat /\ Ends(d)[j - 1] \in Nat /\ Ends(d)[j] \in Nat
      BY <1>1, <2>0 DEF RawField
    <2>2. Start(d[j], Ends(d)[j - 1]) >= Ends(d)[j - 1]
      <3>1. CASE d[j].offset = {}
        BY <2>1, <3>1 DEF Start
      <3>2. CASE d[j].offset # {}
        <4>1. (CHOOSE o \in d[j].offset : TRUE) \in d[j].offset
          BY <3>2
        <4> QED
          BY <3>2, <4>1 DEF WellFormedFields, Start
      <3> QED
        BY <3>1, <3>2
    <2>3. Start(d[j], Ends(d)[j - 1]) \in Nat
      BY <2>0, <2>1, StartIsNat
    <2> QED
      BY <1>1, <2>1, <2>2, <2>3
  <1>3. 0 \in T
    BY <1>1
  <1>4. ASSUME NEW k \in 1..n, k - 1 \in T
        PROVE  k \in T
    <2>1. /\ n - k + 1 \in 1..n /\ n - k \in 0..n
          /\ (n - k + 1) - 1 = n - k /\ n - (k - 1) = n - k + 1
      BY <1>1
    <2>2. Ends(d)[n - k] <= Ends(d)[n - k + 1]
      BY <1>2, <2>1
    <2>3. Ends(d)[n - k + 1] <= Ends(d)[n]
      BY <1>4, <2>1
    <2>4. /\ Ends(d)[n - k] \in Nat /\ Ends(d)[n - k + 1] \in Nat
          /\ Ends(d)[n] \in Nat
      BY <1>1, <2>1
    <2> QED
      BY <2>1, <2>2, <2>3, <2>4
  <1> HIDE DEF T
  <1>5. \A k \in 0..n : k \in T
    BY <1>1, <1>3, <1>4, IntervalInduction
  <1>6. n - i \in 0..n /\ n - (n - i) = i
    BY <1>1
  <1>7. Ends(d)[n - (n - i)] <= Ends(d)[n]
    BY <1>5, <1>6 DEF T
  <1> QED
    BY <1>6, <1>7

(***************************************************************************)
(* The second invariant.  What validate carries along is a function of the *)
(* records it has been through: Done are those whose head has passed, and  *)
(* an accepted record holds the fields of its declaration, each where      *)
(* Ends says.  A layout that was rejected is not well formed.              *)
(***************************************************************************)
ResolvedAs(f, d, i) ==
    /\ f.name = d[i].name /\ f.size = d[i].size
    /\ f.kind = d[i].kind /\ f.scale = d[i].scale
    /\ f.offset = Start(d[i], Ends(d)[i - 1])

Kept(r, d) ==
    /\ Len(r.fields) = Len(d.fields)
    /\ \A i \in 1..Len(d.fields) : ResolvedAs(r.fields[i], d.fields, i)
    /\ r.size = Ends(d.fields)[Len(d.fields)]
    /\ WellFormedRecord(d)

Done == 1..(IF phase = "field" THEN Len(records) + 1 ELSE Len(records))

RecordsKept ==
    /\ Len(records) <= Len(raw.records)
    /\ \A k \in 1..Len(records) : Kept(records[k], raw.records[k])

HeadsKept ==
    phase # "rejected" =>
       /\ names = {NameOf(raw.records[k]) : k \in Done}
       /\ raw.record_type_field # {} =>
             /\ selectors = UNION {raw.records[k].selector : k \in Done}
             /\ \A k \in Done : raw.records[k].selector # {}
       /\ \A j, k \in Done :
             j # k => /\ NameOf(raw.records[j]) # NameOf(raw.records[k])
                      /\ raw.record_type_field # {} =>
                            raw.records[j].selector # raw.records[k].selector

FieldsKept ==
    phase = "field" =>
       LET d == Record.fields
           n == Len(resolved)
       IN  /\ \A i \in 1..n : ResolvedAs(resolved[i], d, i)
           /\ cursor = Ends(d)[n]
           /\ WellFormedFields(d, n)
           /\ field_names = {d[i].name : i \in {j \in 1..n : Named(d, j)}}

LayoutPassed ==
    phase \in {"record", "field", "accepted"} => Passes(LayoutChecks)

ForCause == phase = "rejected" => ~WellFormed

VInv ==
    /\ RecordsKept
    /\ HeadsKept
    /\ FieldsKept
    /\ LayoutPassed
    /\ ForCause

-----------------------------------------------------------------------------
(***************************************************************************)
(* Each list of checks, as one condition.                                  *)
(***************************************************************************)
LEMMA PrefixExact ==
    ASSUME NEW f \in RawField
    PROVE  Passes(PrefixChecks(f)) <=> WellFormedField(f) /\ f.kind # "Skip"
  <1>1. DOMAIN PrefixChecks(f) = {1, 2, 3, 4}
    BY DEF PrefixChecks
  <1>2. /\ PrefixChecks(f)[1].bad <=> f.size = 0
        /\ PrefixChecks(f)[2].bad <=> f.kind = "Skip"
        /\ PrefixChecks(f)[3].bad <=> TooWide(f)
        /\ PrefixChecks(f)[4].bad <=> ScaleTooLarge(f)
    BY DEF PrefixChecks, Check, TooWide, ScaleTooLarge
  <1>3. f.size \in Nat
    BY DEF RawField
  <1> QED
    BY <1>1, <1>2, <1>3 DEF Passes, WellFormedField

(***************************************************************************)
(* A prefix field, if there is one, is checked as a field is.              *)
(***************************************************************************)
LEMMA PrefixesExact ==
    ASSUME NEW prefix \in SUBSET RawField
    PROVE  PrefixCheck(prefix).bad <=>
              ~ \A f \in prefix : WellFormedField(f) /\ f.kind # "Skip"
  <1>1. BadPrefix(prefix) = {} <=>
           \A f \in prefix : WellFormedField(f) /\ f.kind # "Skip"
    BY PrefixExact DEF BadPrefix
  <1>2. PrefixCheck(prefix).bad <=> BadPrefix(prefix) # {}
    BY DEF PrefixCheck, Check
  <1> QED
    BY <1>1, <1>2

(***************************************************************************)
(* The number of declared fields is the sum the code makes of the records. *)
(***************************************************************************)
LEMMA DeclaredIsNat ==
    ASSUME raw \in RawLayout
    PROVE  DeclaredFields \in Nat
  <1> DEFINE n == Len(raw.records)
             size(k) == Len(raw.records[k].fields)
             step == [k \in 1..n |-> [m \in Nat |-> m + size(k)]]
  <1>1. n \in Nat /\ \A k \in 1..n : size(k) \in Nat
    <2>1. raw.records \in Seq(RawRecord)
      BY DEF RawLayout
    <2>2. n \in Nat /\ \A k \in 1..n : raw.records[k] \in RawRecord
      BY <2>1
    <2> QED
      BY <2>2 DEF RawRecord
  <1> HIDE DEF n, size
  <1>2. step \in [1..n -> [Nat -> Nat]]
    BY <1>1
  <1>3. \A k \in 1..n, m \in Nat : step[k][m] = m + size(k)
    OBVIOUS
  <1> HIDE DEF step
  <1>4. PICK f : Iterates(f, n, Nat, 0, step)
    <2>1. 0 \in Nat
      OBVIOUS
    <2> QED
      BY <1>1, <1>2, <2>1, IterationExists
  <1>5. f = [k \in 0..n |-> IF k = 0 THEN 0 ELSE f[k - 1] + size(k)]
    <2>1. ASSUME NEW k \in 1..n
          PROVE  f[k] = f[k - 1] + size(k)
      <3>1. f[k - 1] \in Nat
        BY <1>1, <1>4 DEF Iterates
      <3> QED
        BY <1>3, <1>4, <3>1 DEF Iterates
    <2>2. \A k \in 0..n : f[k] = IF k = 0 THEN 0 ELSE f[k - 1] + size(k)
      BY <1>1, <1>4, <2>1 DEF Iterates
    <2> QED
      BY <1>4, <2>2 DEF Iterates
  <1> DEFINE count == CHOOSE g : g = [k \in 0..n |-> IF k = 0 THEN 0
                                                     ELSE g[k - 1] + size(k)]
             T == {k \in 0..n : count[k] \in Nat}
  <1>6. count = [k \in 0..n |-> IF k = 0 THEN 0 ELSE count[k - 1] + size(k)]
    BY <1>5
  <1>7. DeclaredFields = count[n]
    BY DEF DeclaredFields, n, size
  <1> HIDE DEF count
  <1>8. 0 \in T
    BY <1>1, <1>6
  <1>9. \A k \in 1..n : k - 1 \in T => k \in T
    BY <1>1, <1>6
  <1> HIDE DEF T
  <1>10. \A k \in 0..n : k \in T
    BY <1>1, <1>8, <1>9, IntervalInduction
  <1> QED
    BY <1>1, <1>7, <1>10 DEF T

(***************************************************************************)
(* What is well formed of a layout before its records are looked at.       *)
(***************************************************************************)
WellFormedHead ==
    /\ raw.records # <<>>
    /\ raw.footer_size <= MaxFooterBytes
    /\ \A f \in raw.record_length_field \cup raw.record_type_field :
          WellFormedField(f) /\ f.kind # "Skip"
    /\ \A f \in raw.record_length_field : f.scale = 0
    /\ DeclaredFields <= MaxLayoutFields
    /\ raw.record_type_field = {} => Len(raw.records) = 1

(***************************************************************************)
(* The checks of the whole layout pass exactly if its head is well formed. *)
(***************************************************************************)
LEMMA HeadExact ==
    ASSUME raw \in RawLayout
    PROVE  Passes(LayoutChecks) <=> WellFormedHead
  <1> DEFINE c == LayoutChecks
             length == raw.record_length_field
             type == raw.record_type_field
  <1>1. DOMAIN c = {1, 2, 3, 4, 5, 6, 7}
    BY DEF LayoutChecks
  <1>2. /\ c[1].bad <=> raw.records = <<>>
        /\ c[2].bad <=> raw.footer_size > MaxFooterBytes
        /\ c[3].bad <=> PrefixCheck(length).bad
        /\ c[4].bad <=> \E f \in length : f.scale # 0
        /\ c[5].bad <=> PrefixCheck(type).bad
        /\ c[6].bad <=> Len(raw.records) > 1 /\ type = {}
        /\ c[7].bad <=> DeclaredFields > MaxLayoutFields
    BY DEF LayoutChecks, Check, ScaledLength
  <1>3. /\ raw.footer_size \in Nat /\ MaxFooterBytes \in Nat
        /\ DeclaredFields \in Nat /\ MaxLayoutFields \in Nat
        /\ length \in SUBSET RawField /\ type \in SUBSET RawField
        /\ Len(raw.records) \in Nat /\ raw.records \in Seq(RawRecord)
    BY DeclaredIsNat, LayoutAssumption, LimitAssumption DEF RawLayout, Optional
  <1>4. raw.records # <<>> => Len(raw.records) # 0
    BY <1>3
  <1>5. /\ PrefixCheck(length).bad <=>
              ~ \A f \in length : WellFormedField(f) /\ f.kind # "Skip"
        /\ PrefixCheck(type).bad <=>
              ~ \A f \in type : WellFormedField(f) /\ f.kind # "Skip"
    BY <1>3, PrefixesExact
  <1>6. Passes(c) <=> /\ ~c[1].bad /\ ~c[2].bad /\ ~c[3].bad /\ ~c[4].bad
                      /\ ~c[5].bad /\ ~c[6].bad /\ ~c[7].bad
    BY <1>1 DEF Passes
  <1> HIDE DEF c, length, type
  <1>7. WellFormedHead <=>
           /\ raw.records # <<>>
           /\ raw.footer_size <= MaxFooterBytes
           /\ \A f \in length : WellFormedField(f) /\ f.kind # "Skip"
           /\ \A f \in type : WellFormedField(f) /\ f.kind # "Skip"
           /\ \A f \in length : f.scale = 0
           /\ DeclaredFields <= MaxLayoutFields
           /\ type = {} => Len(raw.records) = 1
    BY DEF WellFormedHead, length, type
  <1>8. /\ ~(raw.footer_size > MaxFooterBytes) <=> raw.footer_size <= MaxFooterBytes
        /\ ~(DeclaredFields > MaxLayoutFields) <=> DeclaredFields <= MaxLayoutFields
        /\ Len(raw.records) # 0 => (Len(raw.records) > 1 <=> Len(raw.records) # 1)
    <2>1. \A m, n \in Nat : ~(m > n) <=> m <= n
      OBVIOUS
    <2>2. \A m \in Nat : m # 0 => (m > 1 <=> m # 1)
      OBVIOUS
    <2> QED
      BY <1>3, <2>1, <2>2
  <1>9. Passes(c) <=> WellFormedHead
    BY <1>2, <1>4, <1>5, <1>6, <1>7, <1>8
  <1> QED
    BY <1>9 DEF c

(***************************************************************************)
(* The offset validate gives a field is where it starts behind the cursor. *)
(***************************************************************************)
LEMMA StartIsOffset ==
    ASSUME NEW f
    PROVE  OffsetOf(f) = Start(f, cursor)
  BY DEF OffsetOf, Start

(***************************************************************************)
(* The checks of a field pass exactly if the field is well formed where it *)
(* stands and its name is free: the wrapped sum adds nothing.              *)
(***************************************************************************)
LEMMA FieldExact ==
    ASSUME NEW f \in RawField, cursor \in Nat
    PROVE  Passes(FieldChecks(f)) <=>
              /\ WellFormedField(f)
              /\ OffsetOf(f) >= cursor
              /\ OffsetOf(f) + f.size <= MaxRecordBytes
              /\ ~NameTaken(f)
              /\ f.kind # "Skip" => f.name # <<>>
  <1> DEFINE c == FieldChecks(f)
             at == OffsetOf(f)
  <1>1. DOMAIN c = {1, 2, 3, 4, 5, 6, 7, 8}
    BY DEF FieldChecks
  <1>2. /\ c[1].bad <=> f.size = 0
        /\ c[2].bad <=> TooWide(f)
        /\ c[3].bad <=> at < cursor
        /\ c[4].bad <=> Overflows(at, f.size)
        /\ c[5].bad <=> AddU32(at, f.size) > MaxRecordBytes
        /\ c[6].bad <=> NameTaken(f)
        /\ c[7].bad <=> f.kind # "Skip" /\ f.name = <<>>
        /\ c[8].bad <=> ScaleTooLarge(f)
    BY DEF FieldChecks, Check, TooWide, ScaleTooLarge, NameTaken, Overflows
  <1>3. Passes(c) <=> /\ ~c[1].bad /\ ~c[2].bad /\ ~c[3].bad /\ ~c[4].bad
                      /\ ~c[5].bad /\ ~c[6].bad /\ ~c[7].bad /\ ~c[8].bad
    BY <1>1 DEF Passes
  <1>4. at \in Nat /\ f.size \in Nat /\ MaxRecordBytes \in Nat /\ MaxU32 \in Nat
        /\ MaxRecordBytes <= MaxU32
    BY OffsetIsNat, LimitAssumption, LayoutAssumption DEF RawField
  <1>5. (at < cursor) <=> ~(at >= cursor)
    BY <1>4
  <1>6. ~Overflows(at, f.size) /\ ~(AddU32(at, f.size) > MaxRecordBytes)
           <=> at + f.size <= MaxRecordBytes
    <2>1. CASE Overflows(at, f.size)
      BY <1>4, <2>1 DEF Overflows
    <2>2. CASE ~Overflows(at, f.size)
      <3>1. AddU32(at, f.size) = at + f.size
        BY <1>4, <2>2, CheckedSum
      <3> QED
        BY <1>4, <2>2, <3>1
    <2> QED
      BY <2>1, <2>2
  <1>7. f.size > 0 <=> f.size # 0
    BY <1>4
  <1> HIDE DEF c, at
  <1>8. Passes(c) <=>
              /\ WellFormedField(f)
              /\ at >= cursor
              /\ at + f.size <= MaxRecordBytes
              /\ ~NameTaken(f)
              /\ f.kind # "Skip" => f.name # <<>>
    BY <1>2, <1>3, <1>5, <1>6, <1>7 DEF WellFormedField
  <1> QED
    BY <1>8 DEF c, at

(***************************************************************************)
(* The checks at the head of a record, as one condition.                   *)
(***************************************************************************)
LEMMA RecordExact ==
    ASSUME NEW r
    PROVE  Passes(RecordChecks(r)) <=>
              /\ NameOf(r) \notin names
              /\ r.fields # <<>>
              /\ raw.record_type_field # {} =>
                    r.selector # {} /\ r.selector \cap selectors = {}
  <1> DEFINE c == RecordChecks(r)
  <1>1. DOMAIN c = {1, 2, 3, 4}
    BY DEF RecordChecks
  <1>2. /\ c[1].bad <=> NameOf(r) \in names
        /\ c[2].bad <=> raw.record_type_field # {} /\ r.selector = {}
        /\ c[3].bad <=> raw.record_type_field # {} /\ SelectorTaken(r)
        /\ c[4].bad <=> r.fields = <<>>
    BY DEF RecordChecks, Check, SelectorTaken
  <1>3. Passes(c) <=> ~c[1].bad /\ ~c[2].bad /\ ~c[3].bad /\ ~c[4].bad
    BY <1>1 DEF Passes
  <1>4. SelectorTaken(r) <=> r.selector \cap selectors # {}
    BY DEF SelectorTaken
  <1> HIDE DEF c
  <1>5. Passes(c) <=>
              /\ NameOf(r) \notin names
              /\ r.fields # <<>>
              /\ raw.record_type_field # {} =>
                    r.selector # {} /\ r.selector \cap selectors = {}
    BY <1>2, <1>3, <1>4
  <1> QED
    BY <1>5 DEF c

-----------------------------------------------------------------------------
(***************************************************************************)
(* Two optional values that meet are the same.                             *)
(***************************************************************************)
LEMMA OptionalsMeet ==
    ASSUME NEW S, NEW a \in Optional(S), NEW b \in Optional(S), a \cap b # {}
    PROVE  a = b
  BY DEF Optional

(***************************************************************************)
(* The records of a raw layout and their fields.                           *)
(***************************************************************************)
LEMMA RawTyped ==
    ASSUME raw \in RawLayout
    PROVE  /\ raw.records \in Seq(RawRecord)
           /\ Len(raw.records) \in Nat
           /\ DOMAIN raw.records = 1..Len(raw.records)
           /\ \A k \in 1..Len(raw.records) :
                 /\ raw.records[k] \in RawRecord
                 /\ raw.records[k].fields \in Seq(RawField)
                 /\ raw.records[k].selector \in Optional(STRING)
  <1>1. raw.records \in Seq(RawRecord)
    BY DEF RawLayout
  <1>2. \A k \in 1..Len(raw.records) : raw.records[k] \in RawRecord
    BY <1>1
  <1> QED
    BY <1>1, <1>2 DEF RawRecord

(***************************************************************************)
(* Before anything is checked there is nothing to keep.                    *)
(***************************************************************************)
LEMMA VInvInit == Init => VInv
  <1> SUFFICES ASSUME Init PROVE VInv
    OBVIOUS
  <1>1. /\ raw \in RawLayout /\ phase = "layout" /\ records = <<>>
        /\ names = {} /\ selectors = {}
    BY LayoutAssumption DEF Init, NothingValidated
  <1>2. Done = {} /\ Len(records) = 0
    BY <1>1 DEF Done
  <1>3. RecordsKept
    BY <1>1, <1>2, RawTyped DEF RecordsKept
  <1>4. HeadsKept
    BY <1>1, <1>2 DEF HeadsKept
  <1> QED
    BY <1>1, <1>3, <1>4 DEF VInv, FieldsKept, LayoutPassed, ForCause

(***************************************************************************)
(* The raw layout never changes, and with it what it declares.             *)
(***************************************************************************)
LEMMA RawStays ==
    ASSUME UNCHANGED raw
    PROVE  /\ WellFormed' <=> WellFormed
           /\ Passes(LayoutChecks)' <=> Passes(LayoutChecks)
  <1>1. WellFormed' <=> WellFormed
    BY DEF WellFormed, DeclaredFields
  <1>2. Passes(LayoutChecks)' <=> Passes(LayoutChecks)
    BY DEF LayoutChecks, PrefixCheck, ScaledLength, DeclaredFields, Passes, Check
  <1> QED
    BY <1>1, <1>2

(***************************************************************************)
(* Refusing a layout that is not well formed.                              *)
(***************************************************************************)
LEMMA RefusedForCause ==
    ASSUME VInv, UNCHANGED <<raw, validation>>, phase' = "rejected", ~WellFormed
    PROVE  VInv'
  <1>1. RecordsKept'
    BY DEF VInv, RecordsKept, validation
  <1>2. ForCause'
    BY RawStays DEF ForCause
  <1> QED
    BY <1>1, <1>2 DEF VInv, HeadsKept, FieldsKept, LayoutPassed

(***************************************************************************)
(* A layout is refused at its head only if its head is not well formed.    *)
(***************************************************************************)
LEMMA CheckLayoutVerdict ==
    ASSUME LInv, VInv, CheckLayout
    PROVE  VInv'
  <1>0. raw \in RawLayout /\ phase = "layout" /\ UNCHANGED <<raw, validation>>
    BY DEF LInv, Typed, CheckLayout
  <1>1. CASE RejectBy(LayoutChecks)
    <2>1. ~WellFormed
      BY <1>0, <1>1, HeadExact DEF RejectBy, WellFormedHead, WellFormed
    <2> QED
      BY <1>0, <1>1, <2>1, RefusedForCause DEF RejectBy, Reject
  <1>2. CASE Passes(LayoutChecks) /\ phase' = "record"
    <2>1. RecordsKept'
      BY <1>0 DEF VInv, RecordsKept, validation
    <2>2. Done' = Done
      BY <1>0, <1>2 DEF Done, validation
    <2>3. HeadsKept'
      BY <1>0, <2>2 DEF VInv, HeadsKept, validation
    <2>4. LayoutPassed'
      BY <1>0, <1>2, RawStays DEF LayoutPassed
    <2> QED
      BY <1>2, <2>1, <2>3, <2>4 DEF VInv, FieldsKept, ForCause
  <1> QED
    BY <1>1, <1>2 DEF CheckLayout

(***************************************************************************)
(* A record is refused at its head only if another one has its name or its *)
(* selector, or it is without what a well-formed one has.                  *)
(***************************************************************************)
LEMMA BeginRecordVerdict ==
    ASSUME LInv, VInv, BeginRecord
    PROVE  VInv'
  <1> DEFINE n == Len(records)
             k == Len(records) + 1
             typed == raw.record_type_field # {}
  <1>0. /\ raw \in RawLayout /\ phase = "record" /\ UNCHANGED raw
        /\ n \in Nat /\ k \in 1..Len(raw.records) /\ k = n + 1
        /\ Record = raw.records[k]
        /\ Done = 1..n
    <2>1. raw \in RawLayout /\ phase = "record" /\ UNCHANGED raw
          /\ n < Len(raw.records) /\ n \in Nat
      BY DEF LInv, Typed, BeginRecord
    <2> QED
      BY <2>1, RawTyped DEF Record, Done
  <1>1. /\ names = {NameOf(raw.records[j]) : j \in 1..n}
        /\ typed => /\ selectors = UNION {raw.records[j].selector : j \in 1..n}
                    /\ \A j \in 1..n : raw.records[j].selector # {}
        /\ \A i, j \in 1..n :
              i # j => /\ NameOf(raw.records[i]) # NameOf(raw.records[j])
                       /\ typed => raw.records[i].selector # raw.records[j].selector
    BY <1>0 DEF VInv, HeadsKept
  <1>2. CASE RejectBy(RecordChecks(Record)) /\ UNCHANGED validation
    <2>1. ASSUME WellFormed PROVE Passes(RecordChecks(Record))
      <3>0. DOMAIN raw.records = 1..Len(raw.records) /\ 1..n \subseteq 1..Len(raw.records)
            /\ k \notin 1..n
        BY <1>0, RawTyped
      <3>1. NameOf(Record) \notin names
        BY <1>0, <1>1, <2>1, <3>0 DEF WellFormed
      <3>2. Record.fields # <<>>
        BY <1>0, <2>1, <3>0 DEF WellFormed, WellFormedRecord
      <3>3. ASSUME typed
            PROVE  Record.selector # {} /\ Record.selector \cap selectors = {}
        <4>1. Record.selector # {}
          BY <1>0, <2>1, <3>0, <3>3 DEF WellFormed
        <4>2. ASSUME NEW j \in 1..n
              PROVE  Record.selector \cap raw.records[j].selector = {}
          <5>1. j \in 1..Len(raw.records) /\ j # k
            BY <3>0
          <5>2. raw.records[j].selector # raw.records[k].selector
            BY <1>0, <2>1, <3>0, <5>1 DEF WellFormed
          <5>3. /\ raw.records[j].selector \in Optional(STRING)
                /\ raw.records[k].selector \in Optional(STRING)
            BY <1>0, <5>1, RawTyped
          <5> QED
            BY <1>0, <5>2, <5>3, OptionalsMeet
        <4> QED
          BY <1>1, <3>3, <4>1, <4>2
      <3> QED
        BY <3>1, <3>2, <3>3, RecordExact
    <2>2. ~WellFormed
      BY <1>2, <2>1 DEF RejectBy
    <2> QED
      BY <1>0, <1>2, <2>2, RefusedForCause DEF RejectBy, Reject
  <1>3. CASE /\ Passes(RecordChecks(Record))
             /\ names' = names \cup {NameOf(Record)}
             /\ selectors' = IF raw.record_type_field = {} THEN selectors
                             ELSE selectors \cup Record.selector
             /\ resolved' = <<>> /\ field_names' = {} /\ cursor' = 0
             /\ phase' = "field" /\ UNCHANGED records
    <2>1. /\ NameOf(Record) \notin names
          /\ typed => Record.selector # {} /\ Record.selector \cap selectors = {}
      BY <1>3, RecordExact
    <2>2. RecordsKept'
      BY <1>0, <1>3 DEF VInv, RecordsKept
    <2>3. Done' = 1..k /\ 1..k = 1..n \cup {k} /\ k \notin 1..n
      BY <1>0, <1>3 DEF Done
    <2>4. HeadsKept'
      <3>1. names' = {NameOf(raw.records[j]) : j \in 1..k}
        BY <1>0, <1>1, <1>3, <2>3
      <3>2. ASSUME typed
            PROVE  /\ selectors' = UNION {raw.records[j].selector : j \in 1..k}
                   /\ \A j \in 1..k : raw.records[j].selector # {}
        <4>1. /\ selectors = UNION {raw.records[j].selector : j \in 1..n}
              /\ selectors' = selectors \cup raw.records[k].selector
          BY <1>0, <1>1, <1>3, <3>2
        <4>2. selectors' = UNION {raw.records[j].selector : j \in 1..k}
          BY <2>3, <4>1
        <4> QED
          BY <1>0, <1>1, <2>1, <2>3, <3>2, <4>2
      <3>3. ASSUME NEW j \in 1..n
            PROVE  /\ NameOf(raw.records[j]) # NameOf(raw.records[k])
                   /\ typed => raw.records[j].selector # raw.records[k].selector
        <4>1. NameOf(raw.records[j]) # NameOf(raw.records[k])
          BY <1>0, <1>1, <2>1
        <4>2. ASSUME typed
              PROVE  raw.records[j].selector # raw.records[k].selector
          <5>1. raw.records[j].selector \subseteq selectors
            BY <1>1, <4>2
          <5> QED
            BY <1>0, <2>1, <4>2, <5>1
        <4> QED
          BY <4>1, <4>2
      <3>4. \A i, j \in 1..k :
              i # j => /\ NameOf(raw.records[i]) # NameOf(raw.records[j])
                       /\ typed => raw.records[i].selector # raw.records[j].selector
        BY <1>1, <2>3, <3>3
      <3>5. HeadsKept' <=>
              /\ names' = {NameOf(raw.records[j]) : j \in 1..k}
              /\ typed =>
                   /\ selectors' = UNION {raw.records[j].selector : j \in 1..k}
                   /\ \A j \in 1..k : raw.records[j].selector # {}
              /\ \A i, j \in 1..k :
                   i # j => /\ NameOf(raw.records[i]) # NameOf(raw.records[j])
                            /\ typed => raw.records[i].selector
                                           # raw.records[j].selector
        BY <1>0, <1>3, <2>3 DEF HeadsKept, NameOf
      <3> QED
        BY <3>1, <3>2, <3>4, <3>5
    <2>5. FieldsKept'
      <3>1. Record' = Record
        BY <1>0, <1>3 DEF Record
      <3>2. raw.records[k].fields \in Seq(RawField)
        BY <1>0, RawTyped
      <3>3. Ends(Record.fields)[0] = 0
        BY <1>0, <3>2, EndsUnfold
      <3>4. /\ \A i \in 1..0 : ResolvedAs(resolved'[i], Record.fields, i)
            /\ WellFormedFields(Record.fields, 0)
            /\ {Record.fields[i].name : i \in {j \in 1..0 : Named(Record.fields, j)}} = {}
        BY DEF WellFormedFields
      <3>5. Len(resolved') = 0
        BY <1>3
      <3> QED
        BY <1>3, <3>1, <3>3, <3>4, <3>5 DEF FieldsKept
    <2>6. LayoutPassed'
      BY <1>0, RawStays DEF VInv, LayoutPassed
    <2> QED
      BY <1>3, <2>2, <2>4, <2>5, <2>6 DEF VInv, ForCause
  <1> QED
    BY <1>2, <1>3 DEF BeginRecord

(***************************************************************************)
(* Where the offset of a field stands, once it is known not to be before   *)
(* the end of the field before it.                                         *)
(***************************************************************************)
LEMMA StartNotBefore ==
    ASSUME NEW f \in RawField, NEW at \in Nat
    PROVE  Start(f, at) >= at <=> \A o \in f.offset : o >= at
  <1>1. f.offset \subseteq Nat /\ \A x, y \in f.offset : x = y
    BY DEF RawField, Optional
  <1>2. CASE f.offset = {}
    BY <1>2 DEF Start
  <1>3. CASE f.offset # {}
    <2>1. (CHOOSE o \in f.offset : TRUE) \in f.offset
      BY <1>3
    <2>2. \A o \in f.offset : o = Start(f, at)
      BY <1>1, <1>3, <2>1 DEF Start
    <2>3. Start(f, at) \in f.offset
      BY <1>3, <2>1 DEF Start
    <2> QED
      BY <2>2, <2>3
  <1> QED
    BY <1>2, <1>3

(***************************************************************************)
(* The field in hand: it starts where the ends of its record say, and its  *)
(* name is taken if an earlier field of the record has it.                 *)
(***************************************************************************)
LEMMA FieldInHand ==
    ASSUME LInv, VInv, phase = "field", Len(resolved) < Len(Record.fields),
           NEW d, d = Record.fields, NEW i, i = Len(resolved) + 1
    PROVE  /\ d \in Seq(RawField) /\ i \in 1..Len(d) /\ d[i] \in RawField
           /\ Len(resolved) \in Nat /\ Len(resolved) = i - 1 /\ cursor \in Nat
           /\ cursor = Ends(d)[i - 1]
           /\ OffsetOf(d[i]) = Start(d[i], Ends(d)[i - 1])
           /\ OffsetOf(d[i]) + d[i].size = Ends(d)[i]
           /\ field_names = {d[j].name : j \in {m \in 1..(i - 1) : Named(d, m)}}
           /\ NameTaken(d[i]) <=>
                 /\ Named(d, i)
                 /\ \E j \in 1..(i - 1) : Named(d, j) /\ d[j].name = d[i].name
  <1>1. /\ raw \in RawLayout /\ Len(records) < Len(raw.records)
        /\ Len(records) \in Nat /\ Len(resolved) \in Nat /\ cursor \in Nat
    BY DEF LInv, Typed, RecordInHand
  <1>2. Len(records) + 1 \in 1..Len(raw.records)
    BY <1>1, RawTyped
  <1>3. d \in Seq(RawField)
    BY <1>1, <1>2, RawTyped DEF Record
  <1>4. i \in 1..Len(d) /\ Len(resolved) = i - 1 /\ Len(d) \in Nat
    BY <1>1, <1>3
  <1>5. d[i] \in RawField
    BY <1>3, <1>4
  <1>6. /\ cursor = Ends(d)[i - 1]
        /\ field_names = {d[j].name : j \in {m \in 1..(i - 1) : Named(d, m)}}
    BY <1>4 DEF VInv, FieldsKept
  <1>7. OffsetOf(d[i]) = Start(d[i], Ends(d)[i - 1])
    BY <1>6, StartIsOffset
  <1>8. Ends(d)[i] = Start(d[i], Ends(d)[i - 1]) + d[i].size
    BY <1>3, <1>4, EndsUnfold
  <1>9. NameTaken(d[i]) <=>
            /\ Named(d, i)
            /\ \E j \in 1..(i - 1) : Named(d, j) /\ d[j].name = d[i].name
    BY <1>6 DEF NameTaken, Named
  <1> QED
    BY <1>1, <1>3, <1>4, <1>5, <1>6, <1>7, <1>8, <1>9

(***************************************************************************)
(* A field is refused only in a record that is not well formed: whatever   *)
(* the checks compare it with, they compare it with what was declared.     *)
(***************************************************************************)
LEMMA FieldRefused ==
    ASSUME LInv, VInv, phase = "field", Len(resolved) < Len(Record.fields),
           ~Passes(FieldChecks(Record.fields[Len(resolved) + 1]))
    PROVE  ~WellFormed
  <1> DEFINE d == Record.fields
             i == Len(resolved) + 1
  <1>1. /\ d \in Seq(RawField) /\ i \in 1..Len(d) /\ d[i] \in RawField
        /\ cursor \in Nat /\ cursor = Ends(d)[i - 1]
        /\ OffsetOf(d[i]) = Start(d[i], Ends(d)[i - 1])
        /\ OffsetOf(d[i]) + d[i].size = Ends(d)[i]
        /\ NameTaken(d[i]) <=>
              /\ Named(d, i)
              /\ \E j \in 1..(i - 1) : Named(d, j) /\ d[j].name = d[i].name
    BY FieldInHand
  <1>2. ASSUME WellFormed PROVE WellFormedRecord(Record)
    <2>1. /\ raw \in RawLayout /\ Len(records) < Len(raw.records)
          /\ Len(records) \in Nat
      BY DEF LInv, Typed, RecordInHand
    <2>2. Len(records) + 1 \in DOMAIN raw.records
      BY <2>1, RawTyped
    <2> QED
      BY <1>2, <2>2 DEF WellFormed, Record
  <1> HIDE DEF d, i
  <1>3. ASSUME WellFormedFields(d, Len(d)), Ends(d)[Len(d)] <= MaxRecordBytes
        PROVE  Passes(FieldChecks(d[i]))
    <2>1. WellFormedField(d[i]) /\ (d[i].kind # "Skip" => d[i].name # <<>>)
      BY <1>1, <1>3 DEF WellFormedFields, Named
    <2>2. OffsetOf(d[i]) >= cursor
      BY <1>1, <1>3, StartNotBefore DEF WellFormedFields
    <2>3. OffsetOf(d[i]) + d[i].size <= MaxRecordBytes
      <3>1. i \in 0..Len(d) /\ Len(d) \in 0..Len(d)
        BY <1>1
      <3>2. Ends(d)[i] <= Ends(d)[Len(d)]
        BY <1>1, <1>3, <3>1, EndsGrow
      <3>3. Ends(d)[i] \in Nat /\ Ends(d)[Len(d)] \in Nat /\ MaxRecordBytes \in Nat
        BY <1>1, <3>1, EndsUnfold, LimitAssumption
      <3> QED
        BY <1>1, <1>3, <3>2, <3>3
    <2>4. ~NameTaken(d[i])
      <3>1. \A j \in 1..(i - 1) : j \in 1..Len(d) /\ j # i
        BY <1>1
      <3> QED
        BY <1>1, <1>3, <3>1 DEF WellFormedFields
    <2> QED
      BY <1>1, <2>1, <2>2, <2>3, <2>4, FieldExact
  <1>4. WellFormedRecord(Record) => /\ WellFormedFields(d, Len(d))
                                    /\ Ends(d)[Len(d)] <= MaxRecordBytes
    BY DEF WellFormedRecord, d
  <1> QED
    BY <1>2, <1>3, <1>4 DEF d, i

(***************************************************************************)
(* A field that passes its checks extends the well-formed part.            *)
(***************************************************************************)
LEMMA FieldPassed ==
    ASSUME LInv, VInv, phase = "field", Len(resolved) < Len(Record.fields),
           Passes(FieldChecks(Record.fields[Len(resolved) + 1]))
    PROVE  WellFormedFields(Record.fields, Len(resolved) + 1)
  <1> DEFINE d == Record.fields
             i == Len(resolved) + 1
  <1>1. /\ d \in Seq(RawField) /\ i \in 1..Len(d) /\ d[i] \in RawField
        /\ Len(resolved) = i - 1
        /\ cursor \in Nat /\ cursor = Ends(d)[i - 1]
        /\ OffsetOf(d[i]) = Start(d[i], Ends(d)[i - 1])
        /\ NameTaken(d[i]) <=>
              /\ Named(d, i)
              /\ \E j \in 1..(i - 1) : Named(d, j) /\ d[j].name = d[i].name
    BY FieldInHand
  <1>2. WellFormedFields(d, i - 1)
    BY <1>1 DEF VInv, FieldsKept
  <1> HIDE DEF d, i
  <1>3. /\ WellFormedField(d[i]) /\ OffsetOf(d[i]) >= cursor
        /\ ~NameTaken(d[i]) /\ (d[i].kind # "Skip" => d[i].name # <<>>)
    BY <1>1, FieldExact DEF d, i
  <1>4. \A o \in d[i].offset : o >= Ends(d)[i - 1]
    BY <1>1, <1>3, StartNotBefore
  <1>5. \A j \in 1..(i - 1) : Named(d, i) /\ Named(d, j) => d[j].name # d[i].name
    BY <1>1, <1>3
  <1>6. 1..i = 1..(i - 1) \cup {i} /\ i \notin 1..(i - 1)
    BY <1>1
  <1>7. ASSUME NEW k \in 1..i
        PROVE  /\ WellFormedField(d[k])
               /\ \A o \in d[k].offset : o >= Ends(d)[k - 1]
               /\ Named(d, k) =>
                     /\ d[k].name # <<>>
                     /\ \A j \in 1..i :
                           Named(d, j) /\ d[j].name = d[k].name => k = j
    <2>1. CASE k = i
      BY <1>3, <1>4, <1>5, <1>6, <2>1 DEF Named
    <2>2. CASE k \in 1..(i - 1)
      BY <1>2, <1>5, <1>6, <2>2 DEF WellFormedFields
    <2> QED
      BY <1>6, <2>1, <2>2
  <1>8. WellFormedFields(d, i)
    BY <1>7 DEF WellFormedFields
  <1> QED
    BY <1>8 DEF d, i

(***************************************************************************)
(* One field: it goes where the ends of its record say, or the layout is   *)
(* not well formed.                                                        *)
(***************************************************************************)
LEMMA CheckFieldVerdict ==
    ASSUME LInv, VInv, CheckField
    PROVE  VInv'
  <1> DEFINE d == Record.fields
             i == Len(resolved) + 1
  <1>0. phase = "field" /\ Len(resolved) < Len(Record.fields) /\ UNCHANGED raw
    BY DEF CheckField
  <1>1. CASE RejectBy(FieldChecks(d[i])) /\ UNCHANGED validation
    <2>1. ~WellFormed
      BY <1>0, <1>1, FieldRefused DEF RejectBy
    <2> QED
      BY <1>0, <1>1, <2>1, RefusedForCause DEF RejectBy, Reject
  <1>2. CASE /\ Passes(FieldChecks(d[i]))
             /\ resolved' = Append(resolved, Resolved(d[i]))
             /\ field_names' = IF d[i].kind = "Skip" THEN field_names
                               ELSE field_names \cup {d[i].name}
             /\ cursor' = CursorAfter(d[i])
             /\ UNCHANGED <<phase, failure, records, names, selectors>>
    <2>1. /\ d \in Seq(RawField) /\ i \in 1..Len(d) /\ d[i] \in RawField
          /\ Len(resolved) \in Nat /\ Len(resolved) = i - 1 /\ cursor \in Nat
          /\ OffsetOf(d[i]) = Start(d[i], Ends(d)[i - 1])
          /\ OffsetOf(d[i]) + d[i].size = Ends(d)[i]
          /\ field_names = {d[j].name : j \in {m \in 1..(i - 1) : Named(d, m)}}
      BY <1>0, FieldInHand
    <2>2. Record' = Record /\ Done' = Done
      BY <1>0, <1>2 DEF Record, Done
    <2>3. RecordsKept'
      BY <1>0, <1>2 DEF VInv, RecordsKept
    <2>4. HeadsKept'
      BY <1>0, <1>2, <2>2 DEF VInv, HeadsKept
    <2>5. LayoutPassed'
      BY <1>0, <1>2, RawStays DEF VInv, LayoutPassed
    <2>6. FieldsKept'
      <3>0. resolved \in Seq(ResolvedField)
        BY DEF LInv, Typed
      <3>1. /\ Len(resolved') = i
            /\ \A j \in 1..(i - 1) : resolved'[j] = resolved[j]
            /\ resolved'[i] = Resolved(d[i])
            /\ 1..i = 1..(i - 1) \cup {i}
        BY <1>2, <2>1, <3>0
      <3>2. ResolvedAs(resolved'[i], d, i)
        BY <2>1, <3>1 DEF ResolvedAs, Resolved
      <3>3. \A j \in 1..(i - 1) : ResolvedAs(resolved[j], d, j)
        BY <1>0, <2>1 DEF VInv, FieldsKept
      <3>4. \A j \in 1..i : ResolvedAs(resolved'[j], d, j)
        BY <3>1, <3>2, <3>3
      <3>5. cursor' = Ends(d)[i]
        BY <1>2, <2>1, FieldPasses DEF CursorAfter
      <3>6. WellFormedFields(d, i)
        BY <1>0, <1>2, FieldPassed
      <3>7. field_names' = {d[j].name : j \in {m \in 1..i : Named(d, m)}}
        <4>1. CASE Named(d, i)
          <5>1. {m \in 1..i : Named(d, m)} = {m \in 1..(i - 1) : Named(d, m)} \cup {i}
            BY <3>1, <4>1
          <5>2. field_names' = field_names \cup {d[i].name}
            BY <1>2, <4>1 DEF Named
          <5> HIDE DEF d, i
          <5> QED
            BY <2>1, <5>1, <5>2
        <4>2. CASE ~Named(d, i)
          <5>1. {m \in 1..i : Named(d, m)} = {m \in 1..(i - 1) : Named(d, m)}
            BY <3>1, <4>2
          <5>2. field_names' = field_names
            BY <1>2, <4>2 DEF Named
          <5> QED
            BY <2>1, <5>1, <5>2
        <4> QED
          BY <4>1, <4>2
      <3> QED
        BY <2>2, <3>1, <3>4, <3>5, <3>6, <3>7 DEF FieldsKept
    <2> QED
      BY <1>0, <1>2, <2>3, <2>4, <2>5, <2>6 DEF VInv, ForCause
  <1> QED
    BY <1>1, <1>2 DEF CheckField

(***************************************************************************)
(* The record accepted is the declared one, which is well formed.          *)
(***************************************************************************)
LEMMA EndRecordVerdict ==
    ASSUME LInv, VInv, EndRecord
    PROVE  VInv'
  <1> DEFINE n == Len(records)
             k == Len(records) + 1
             r == [name |-> NameOf(Record), fields |-> resolved,
                   size |-> cursor, selector |-> Record.selector]
  <1>1. /\ phase = "field" /\ Len(resolved) = Len(Record.fields)
        /\ records' = Append(records, r) /\ phase' = "record"
        /\ UNCHANGED <<raw, failure, names, selectors>>
    BY DEF EndRecord
  <1>2. /\ raw \in RawLayout /\ records \in Seq(AcceptedRecord) /\ n \in Nat
        /\ n < Len(raw.records) /\ Record.fields # <<>> /\ cursor <= MaxRecordBytes
    BY <1>1 DEF LInv, Typed, RecordInHand
  <1>3. /\ Record = raw.records[k] /\ k \in 1..Len(raw.records)
        /\ Len(raw.records) \in Nat
    BY <1>2, RawTyped DEF Record
  <1>4. /\ Len(records') = k
        /\ \A j \in 1..n : records'[j] = records[j]
        /\ records'[k] = r
        /\ 1..k = 1..n \cup {k}
    <2> HIDE DEF r
    <2> QED
      BY <1>1, <1>2
  <1>5. /\ \A i \in 1..Len(resolved) : ResolvedAs(resolved[i], Record.fields, i)
        /\ cursor = Ends(Record.fields)[Len(resolved)]
        /\ WellFormedFields(Record.fields, Len(resolved))
    BY <1>1 DEF VInv, FieldsKept
  <1>6. Kept(r, Record)
    <2>1. WellFormedRecord(Record)
      BY <1>1, <1>2, <1>5 DEF WellFormedRecord
    <2> QED
      BY <1>1, <1>5, <2>1 DEF Kept
  <1>7. RecordsKept'
    <2>1. \A j \in 1..n : Kept(records[j], raw.records[j])
      BY DEF VInv, RecordsKept
    <2> HIDE DEF r
    <2>2. \A j \in 1..k : Kept(records'[j], raw.records[j])
      BY <1>3, <1>4, <1>6, <2>1
    <2>3. Len(records') <= Len(raw.records)
      BY <1>3, <1>4
    <2> QED
      BY <1>1, <1>4, <2>2, <2>3 DEF RecordsKept
  <1>8. Done' = Done
    <2>1. Done = 1..k
      BY <1>1 DEF Done
    <2>2. Done' = 1..k
      BY <1>1, <1>4 DEF Done
    <2> QED
      BY <2>1, <2>2
  <1>9. HeadsKept'
    BY <1>1, <1>8 DEF VInv, HeadsKept
  <1>10. LayoutPassed'
    BY <1>1, RawStays DEF VInv, LayoutPassed
  <1> QED
    BY <1>1, <1>7, <1>9, <1>10 DEF VInv, FieldsKept, ForCause

(***************************************************************************)
(* Accepting keeps what was established.                                   *)
(***************************************************************************)
LEMMA AcceptVerdict ==
    ASSUME LInv, VInv, Accept
    PROVE  VInv'
  <1>1. /\ phase = "record" /\ phase' = "accepted"
        /\ UNCHANGED <<raw, records, names, selectors>>
    BY DEF Accept, validation
  <1>2. Done' = Done
    BY <1>1 DEF Done
  <1>3. RecordsKept' /\ HeadsKept'
    BY <1>1, <1>2 DEF VInv, RecordsKept, HeadsKept
  <1>4. LayoutPassed'
    BY <1>1, RawStays DEF VInv, LayoutPassed
  <1> QED
    BY <1>1, <1>3, <1>4 DEF VInv, FieldsKept, ForCause

(***************************************************************************)
(* No step of validate loses what the verdict rests on.                    *)
(***************************************************************************)
THEOREM VInvInductive == LInv /\ VInv /\ [Next]_layoutVars => VInv'
  <1> SUFFICES ASSUME LInv, VInv, [Next]_layoutVars PROVE VInv'
    OBVIOUS
  <1>1. CASE CheckLayout
    BY <1>1, CheckLayoutVerdict
  <1>2. CASE BeginRecord
    BY <1>2, BeginRecordVerdict
  <1>3. CASE CheckField
    BY <1>3, CheckFieldVerdict
  <1>4. CASE EndRecord
    BY <1>4, EndRecordVerdict
  <1>5. CASE Accept
    BY <1>5, AcceptVerdict
  <1>6. CASE UNCHANGED layoutVars
    <2>1. /\ UNCHANGED <<raw, phase, records, names, selectors>>
          /\ UNCHANGED <<resolved, field_names, cursor>>
      BY <1>6 DEF layoutVars, validation
    <2>2. Done' = Done /\ Record' = Record
      BY <2>1 DEF Done, Record
    <2>3. RecordsKept' /\ HeadsKept' /\ FieldsKept'
      BY <2>1, <2>2 DEF VInv, RecordsKept, HeadsKept, FieldsKept
    <2> QED
      BY <2>1, <2>3, RawStays DEF VInv, LayoutPassed, ForCause
  <1> QED
    BY <1>1, <1>2, <1>3, <1>4, <1>5, <1>6 DEF Next, Validate

(***************************************************************************)
(* A layout accepted is well formed: all of its records were gone through. *)
(***************************************************************************)
LEMMA VInvImpliesExact == LInv /\ VInv => VerdictIsExact
  <1> SUFFICES ASSUME LInv, VInv PROVE VerdictIsExact
    OBVIOUS
  <1>1. ASSUME phase = "accepted" PROVE WellFormed
    <2>1. raw \in RawLayout /\ Len(records) = Len(raw.records)
      BY <1>1 DEF LInv, Typed, AllRecords
    <2>2. DOMAIN raw.records = 1..Len(raw.records) /\ Len(raw.records) \in Nat
      BY <2>1, RawTyped
    <2>3. WellFormedHead
      BY <1>1, <2>1, HeadExact DEF VInv, LayoutPassed
    <2>4. Done = DOMAIN raw.records
      BY <1>1, <2>1, <2>2 DEF Done
    <2>5. \A k \in DOMAIN raw.records : WellFormedRecord(raw.records[k])
      BY <2>1, <2>2 DEF VInv, RecordsKept, Kept
    <2>6. raw.record_type_field # {} =>
             \A k \in DOMAIN raw.records : raw.records[k].selector # {}
      BY <1>1, <2>4 DEF VInv, HeadsKept
    <2>7. ASSUME NEW k \in DOMAIN raw.records, NEW j \in DOMAIN raw.records, j # k
          PROVE  /\ NameOf(raw.records[j]) # NameOf(raw.records[k])
                 /\ raw.records[j].selector # raw.records[k].selector
      <3>1. raw.record_type_field = {} => Len(raw.records) = 1
        BY <2>3 DEF WellFormedHead
      <3>2. k \in 1..Len(raw.records) /\ j \in 1..Len(raw.records)
        BY <2>2, <2>7
      <3>3. Len(raw.records) # 1
        BY <2>7, <3>2
      <3>4. raw.record_type_field # {}
        BY <3>1, <3>3
      <3> QED
        BY <1>1, <2>4, <2>7, <3>4 DEF VInv, HeadsKept
    <2> QED
      BY <2>3, <2>5, <2>6, <2>7 DEF WellFormed, WellFormedHead
  <1>2. ASSUME phase = "rejected" PROVE ~WellFormed
    BY <1>2 DEF VInv, ForCause
  <1> QED
    BY <1>1, <1>2 DEF VerdictIsExact

(***************************************************************************)
(* A layout accepted is the declared one, each field where the declaration *)
(* says or right behind the one before it.                                 *)
(***************************************************************************)
LEMMA VInvImpliesDeclared == LInv /\ VInv => AcceptedAsDeclared
  <1> SUFFICES ASSUME LInv, VInv, phase = "accepted"
               PROVE  AcceptedAsDeclared
    BY DEF AcceptedAsDeclared
  <1>1. /\ raw \in RawLayout /\ Len(records) = Len(raw.records)
        /\ records \in Seq(AcceptedRecord) /\ DOMAIN records = 1..Len(records)
    BY DEF LInv, Typed, AllRecords
  <1> DEFINE AsDeclared(f, d, size) ==
               /\ Len(f) = Len(d)
               /\ \A i \in DOMAIN f :
                     /\ <<f[i].name, f[i].size, f[i].kind, f[i].scale>>
                           = <<d[i].name, d[i].size, d[i].kind, d[i].scale>>
                     /\ \A o \in d[i].offset : f[i].offset = o
                     /\ d[i].offset = {} =>
                           f[i].offset = IF i = 1 THEN 0
                                         ELSE f[i - 1].offset + f[i - 1].size
               /\ size = f[Len(f)].offset + f[Len(f)].size
  <1>2. ASSUME NEW k \in DOMAIN records, NEW f, f = records[k].fields,
               NEW d, d = raw.records[k].fields
        PROVE  AsDeclared(f, d, records[k].size)
    <2>1. /\ Len(f) = Len(d)
          /\ \A i \in 1..Len(d) : ResolvedAs(f[i], d, i)
          /\ records[k].size = Ends(d)[Len(d)]
          /\ d # <<>>
      BY <1>1, <1>2 DEF VInv, RecordsKept, Kept, WellFormedRecord
    <2>2. d \in Seq(RawField)
      BY <1>1, <1>2, RawTyped
    <2>3. f \in Seq(ResolvedField)
      <3>1. records[k] \in AcceptedRecord
        BY <1>1, <1>2
      <3> QED
        BY <1>2, <3>1 DEF AcceptedRecord
    <2>4. DOMAIN f = 1..Len(d) /\ Len(d) \in 1..Len(d)
      BY <2>1, <2>2, <2>3
    <2>5. /\ Ends(d)[0] = 0
          /\ \A i \in 1..Len(d) : Ends(d)[i] = f[i].offset + f[i].size
      BY <2>1, <2>2, EndsUnfold DEF ResolvedAs
    <2>6. ASSUME NEW i \in DOMAIN f
          PROVE  /\ <<f[i].name, f[i].size, f[i].kind, f[i].scale>>
                       = <<d[i].name, d[i].size, d[i].kind, d[i].scale>>
                 /\ \A o \in d[i].offset : f[i].offset = o
                 /\ d[i].offset = {} =>
                       f[i].offset = IF i = 1 THEN 0
                                     ELSE f[i - 1].offset + f[i - 1].size
      <3>1. /\ f[i].name = d[i].name /\ f[i].size = d[i].size
            /\ f[i].kind = d[i].kind /\ f[i].scale = d[i].scale
            /\ f[i].offset = Start(d[i], Ends(d)[i - 1])
        BY <2>1, <2>4 DEF ResolvedAs
      <3>2. ASSUME NEW o \in d[i].offset PROVE f[i].offset = o
        <4>1. d[i] \in RawField
          BY <2>2, <2>4
        <4>2. \A x, y \in d[i].offset : x = y
          BY <4>1 DEF RawField, Optional
        <4> QED
          BY <3>1, <3>2, <4>2 DEF Start
      <3>3. ASSUME d[i].offset = {}
            PROVE  f[i].offset = IF i = 1 THEN 0
                                 ELSE f[i - 1].offset + f[i - 1].size
        <4>1. f[i].offset = Ends(d)[i - 1]
          BY <3>1, <3>3 DEF Start
        <4>2. CASE i = 1
          BY <2>5, <4>1, <4>2
        <4>3. CASE i # 1
          <5>1. i - 1 \in 1..Len(d)
            BY <2>2, <2>4, <4>3
          <5> QED
            BY <2>5, <4>1, <4>3, <5>1
        <4> QED
          BY <4>2, <4>3
      <3> QED
        BY <3>1, <3>2, <3>3
    <2>7. records[k].size = f[Len(f)].offset + f[Len(f)].size
      BY <2>1, <2>4, <2>5
    <2> QED
      BY <2>1, <2>6, <2>7
  <1>3. \A k \in DOMAIN records :
           AsDeclared(records[k].fields, raw.records[k].fields, records[k].size)
    <2> HIDE DEF AsDeclared
    <2> QED
      BY <1>2
  <1> QED
    BY <1>1, <1>3 DEF AcceptedAsDeclared

(***************************************************************************)
(* validate accepts a layout exactly if it is well formed (layout.rs): the *)
(* order of the checks and the state carried from field to field and from  *)
(* record to record decide the message, never the verdict.                 *)
(***************************************************************************)
THEOREM VerdictSound == Spec => []VerdictIsExact
  <1>1. Init => LInv /\ VInv
    BY LInvInit, VInvInit
  <1>2. LInv /\ VInv /\ [Next]_layoutVars => LInv' /\ VInv'
    BY LInvInductive, VInvInductive
  <1>3. LInv /\ VInv => VerdictIsExact
    BY VInvImpliesExact
  <1> QED
    BY <1>1, <1>2, <1>3, PTL DEF Spec

(***************************************************************************)
(* The layout validate returns is the one that was declared.               *)
(***************************************************************************)
THEOREM AcceptanceFaithful == Spec => []AcceptedAsDeclared
  <1>1. Init => LInv /\ VInv
    BY LInvInit, VInvInit
  <1>2. LInv /\ VInv /\ [Next]_layoutVars => LInv' /\ VInv'
    BY LInvInductive, VInvInductive
  <1>3. LInv /\ VInv => AcceptedAsDeclared
    BY VInvImpliesDeclared
  <1> QED
    BY <1>1, <1>2, <1>3, PTL DEF Spec
=============================================================================
