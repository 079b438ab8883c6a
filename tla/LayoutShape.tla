---------------------------- MODULE LayoutShape ----------------------------
(***************************************************************************)
(* What the record walker may take for granted of a layout (struct Field,  *)
(* RecordLayout and Layout of src/layout.rs, seen from src/stream.rs): the *)
(* fields of a record lie inside it, the prefix is as wide as its fields,  *)
(* a record resolves to at most one schema.  RecordStream assumes it,      *)
(* Layout has to establish it.                                             *)
(*                                                                         *)
(* A prefix field of width zero is an absent one.                          *)
(***************************************************************************)
EXTENDS Integers, Sequences

Kind == {"Text", "Integer", "UnsignedInteger", "PackedDecimal",
         "ZonedDecimal", "Skip"}
Field == [offset : Nat, size : Nat, kind : Kind]

IsRecordLayout(r) ==
    /\ r.size \in Nat \ {0}
    /\ r.fields \in Seq(Field)
    /\ \A i \in DOMAIN r.fields :
          /\ r.fields[i].size > 0
          /\ r.fields[i].offset + r.fields[i].size <= r.size

IsLayout(l) ==
    /\ l.header_size \in Nat
    /\ l.footer_size \in Nat
    /\ l.record_length_field \in Field
    /\ l.record_type_field \in Field
    /\ l.prefix_size = l.record_length_field.size + l.record_type_field.size
    /\ Len(l.records) \in Nat \ {0}
    /\ DOMAIN l.records = 1..Len(l.records)
    /\ \A k \in DOMAIN l.records : IsRecordLayout(l.records[k])
    /\ l.record_type_field.size = 0 => Len(l.records) = 1
    /\ \A j, k \in DOMAIN l.records :
          l.records[j].selector = l.records[k].selector => j = k
=============================================================================
